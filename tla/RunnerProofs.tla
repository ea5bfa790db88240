---------------------------- MODULE RunnerProofs ----------------------------
(***************************************************************************)
(* The runner of a build.  First its lease: that it runs alone, for any    *)
(* number of launches and any heartbeat interval shorter than the lease.   *)
(* Then what it decides of a review loop, for which it runs alone: rounds, *)
(* questions and guidance, for any cap and any number of rounds, answers,  *)
(* failures and deaths.  Last, what it looks at: the chains of findings,   *)
(* for any history, and that it decides on them as the in-process loop     *)
(* does.                                                                   *)
(***************************************************************************)
EXTENDS BuildLease, ReviewLoop, FindingChains, FiniteSetTheorems, WellFoundedInduction, TLAPS

-----------------------------------------------------------------------------
(* The lease                                                               *)

(***************************************************************************)
(* The strengthening: a punctual instance's lease outlives its next beat.  *)
(***************************************************************************)
Margin ==
  \A r \in Instances :
    pc[r] \in Running /\ ~missed[r] => holder = r /\ left >= Ttl - Beat + due[r]

LeaseInv == LeaseTypeOK /\ Margin

LEMMA LeaseStarts == LeaseInit => LeaseInv
  BY NoneAssumption, TimesAssumption DEF LeaseInit, LeaseInv, LeaseTypeOK, Margin, Stages, Running

(***************************************************************************)
(* A claim takes the lease from an instance only if it was not running     *)
(* punctually: a punctual instance's lease is live.                        *)
(***************************************************************************)
LEMMA PunctualLive ==
  ASSUME LeaseInv, NEW r \in Instances, pc[r] \in Running, ~missed[r]
  PROVE  Holds(r)
PROOF
  <1>1. holder = r /\ left >= Ttl - Beat + due[r] BY DEF LeaseInv, Margin
  <1>2. left \in Int /\ due[r] \in Int /\ due[r] >= 0 BY DEF LeaseInv, LeaseTypeOK
  <1> QED BY <1>1, <1>2, TimesAssumption DEF Holds, Live

LEMMA ClaimExcludes ==
  ASSUME LeaseInv, NEW r \in Instances, Claimable(r),
         NEW s \in Instances, s # r, pc[s] \in Running
  PROVE  missed[s]
PROOF
  <1> SUFFICES ASSUME ~missed[s] PROVE FALSE BY DEF LeaseInv, LeaseTypeOK
  <1>1. holder = s /\ Live BY PunctualLive DEF Holds
  <1> QED BY <1>1, NoneAssumption DEF Claimable

LEMMA LeaseSteps == LeaseInv /\ [LeaseNext]_leaseVars => LeaseInv'
PROOF
  <1> SUFFICES ASSUME LeaseInv, [LeaseNext]_leaseVars PROVE LeaseInv' OBVIOUS
  <1> USE DEF Stages, Running
  <1>0. LeaseTypeOK /\ Margin BY DEF LeaseInv
  <1>1. CASE UNCHANGED leaseVars
    BY <1>0, <1>1 DEF leaseVars, LeaseInv, LeaseTypeOK, Margin
  <1>2. CASE Tick
    <2>1. LeaseTypeOK' BY <1>0, <1>2, TimesAssumption DEF LeaseTypeOK, Tick, Live
    <2>2. ASSUME NEW r \in Instances, pc'[r] \in Running, ~missed'[r]
          PROVE  holder' = r /\ left' >= Ttl - Beat + due'[r]
      <3>1. pc[r] \in Running /\ ~missed[r] /\ timer[r] /\ due[r] # 0
        BY <1>0, <1>2, <2>2 DEF LeaseTypeOK, Tick
      <3>2. holder = r /\ left >= Ttl - Beat + due[r] BY <1>0, <3>1 DEF Margin
      <3>3. due[r] \in 0 .. Beat /\ left \in 0 .. Ttl BY <1>0 DEF LeaseTypeOK
      <3>4. due'[r] = due[r] - 1 BY <1>2, <3>1, <3>3, TimesAssumption DEF Tick
      <3>5. left' = left - 1 BY <1>2, <3>2, <3>3, TimesAssumption DEF Tick, Live
      <3> QED BY <1>2, <3>2, <3>3, <3>4, <3>5, TimesAssumption DEF Tick
    <2> QED BY <2>1, <2>2 DEF LeaseInv, Margin
  <1>3. ASSUME NEW r \in Instances, Launch(r) PROVE LeaseInv'
    <2>1. LeaseTypeOK' BY <1>0, <1>3, TimesAssumption DEF LeaseTypeOK, Launch, Claim
    <2>2. \A s \in Instances : pc'[s] \in Running => s # r /\ pc[s] \in Running
      BY <1>0, <1>3 DEF Launch, LeaseTypeOK
    <2>3. \A s \in Instances : pc'[s] \in Running => missed'[s]
      BY <1>3, <2>2, ClaimExcludes DEF Launch
    <2> QED BY <2>1, <2>3 DEF LeaseInv, Margin
  <1>4. ASSUME NEW r \in Instances, Attach(r) PROVE LeaseInv'
    <2>1. CASE Claimable(r)
      <3>1. /\ pc[r] = "reserved" /\ pc' = [pc EXCEPT ![r] = "attaching"] /\ Claim(r)
            /\ UNCHANGED <<timer, due, lost, missed, answer>>
        BY <1>4, <2>1 DEF Attach
      <3>2. LeaseTypeOK' BY <1>0, <3>1, TimesAssumption DEF LeaseTypeOK, Claim
      <3>3. \A s \in Instances : pc'[s] \in Running => missed'[s]
        BY <1>0, <2>1, <3>1, ClaimExcludes DEF LeaseTypeOK
      <3> QED BY <3>2, <3>3 DEF LeaseInv, Margin
    <2>2. CASE ~Claimable(r)
      <3>1. /\ pc[r] = "reserved" /\ pc' = [pc EXCEPT ![r] = "exited"]
            /\ UNCHANGED <<holder, left, timer, due, lost, missed, answer>>
        BY <1>4, <2>2 DEF Attach
      <3> QED BY <1>0, <3>1 DEF LeaseInv, LeaseTypeOK, Margin
    <2> QED BY <2>1, <2>2
  <1>13. ASSUME NEW r \in Instances, StartHeartbeat(r) PROVE LeaseInv'
    <2>1. LeaseTypeOK'
      <3>1. Ttl \in 0 .. Ttl /\ Beat \in 0 .. Beat /\ Renews(r) \in BOOLEAN
        BY TimesAssumption DEF Renews, Holds, Live
      <3> QED BY <1>0, <1>13, <3>1 DEF StartHeartbeat, LeaseTypeOK
    <2>2. ASSUME NEW s \in Instances, s # r, pc'[s] \in Running, ~missed'[s]
          PROVE  holder' = s /\ left' >= Ttl - Beat + due'[s]
      <3>1. pc[s] \in Running /\ ~missed[s] /\ due'[s] = due[s]
        BY <1>0, <1>13, <2>2 DEF StartHeartbeat, LeaseTypeOK
      <3>2. holder = s /\ left >= Ttl - Beat + due[s] BY <1>0, <3>1 DEF Margin
      <3>3. left' = left /\ holder' = holder
        BY <1>13, <2>2, <3>2 DEF StartHeartbeat, Renews, Holds
      <3> QED BY <3>1, <3>2, <3>3
    <2>3. ASSUME ~missed'[r] PROVE holder' = r /\ left' >= Ttl - Beat + due'[r]
      <3>1. Renews(r) BY <1>0, <1>13, <2>3 DEF StartHeartbeat, LeaseTypeOK
      <3>2. holder' = r /\ left' = Ttl /\ due'[r] = Beat
        BY <1>0, <1>13, <3>1 DEF StartHeartbeat, Renews, Holds, LeaseTypeOK
      <3> QED BY <3>2, TimesAssumption
    <2> QED BY <2>1, <2>2, <2>3 DEF LeaseInv, Margin
  <1>5. ASSUME NEW r \in Instances, Heartbeat(r) PROVE LeaseInv'
    <2>1. LeaseTypeOK'
      <3>1. Ttl \in 0 .. Ttl /\ Beat \in 0 .. Beat BY TimesAssumption
      <3>2. CASE Renews(r) BY <1>0, <1>5, <3>1, <3>2 DEF LeaseTypeOK, Heartbeat
      <3>3. CASE ~Renews(r) BY <1>0, <1>5, <3>1, <3>3 DEF LeaseTypeOK, Heartbeat
      <3> QED BY <3>2, <3>3
    <2>2. CASE Renews(r)
      <3>1. \A s \in Instances : s # r /\ pc'[s] \in Running => missed'[s]
        BY <1>0, <1>5, <2>2 DEF Heartbeat, Renews, Holds, LeaseTypeOK, Margin
      <3>2. holder' = r /\ left' = Ttl /\ due'[r] = Beat
        BY <1>0, <1>5, <2>2 DEF Heartbeat, Renews, Holds, LeaseTypeOK
      <3>3. left' >= Ttl - Beat + due'[r] BY <3>2, TimesAssumption
      <3> QED BY <2>1, <3>1, <3>2, <3>3 DEF LeaseInv, Margin
    <2>3. CASE ~Renews(r)
      <3>1. Margin' BY <1>0, <1>5, <2>3 DEF Heartbeat, LeaseTypeOK, Margin
      <3> QED BY <2>1, <3>1 DEF LeaseInv
    <2> QED BY <2>2, <2>3
  <1>6. ASSUME NEW r \in Instances, HeartbeatFails(r) PROVE LeaseInv'
    <2>1. LeaseTypeOK' BY <1>0, <1>6, TimesAssumption DEF LeaseTypeOK, HeartbeatFails
    <2>2. Margin' BY <1>0, <1>6 DEF HeartbeatFails, LeaseTypeOK, Margin
    <2> QED BY <2>1, <2>2 DEF LeaseInv
  <1>7. ASSUME NEW r \in Instances, HeartbeatAnswered(r) PROVE LeaseInv'
    BY <1>0, <1>7 DEF HeartbeatAnswered, LeaseInv, LeaseTypeOK, Margin
  <1>8. ASSUME NEW r \in Instances, EnsureLease(r) PROVE LeaseInv'
    <2>1. CASE ~lost[r]
      <3>1. /\ pc[r] = "loop" /\ pc' = [pc EXCEPT ![r] = "step"]
            /\ UNCHANGED <<holder, left, timer, due, lost, missed, answer>>
        BY <1>8, <2>1 DEF EnsureLease
      <3> QED BY <1>0, <3>1 DEF LeaseInv, LeaseTypeOK, Margin
    <2>2. CASE lost[r] /\ Claimable(r)
      <3>1. /\ pc[r] = "loop" /\ pc' = [pc EXCEPT ![r] = "step"] /\ Claim(r)
            /\ lost' = [lost EXCEPT ![r] = FALSE] /\ missed' = [missed EXCEPT ![r] = FALSE]
            /\ UNCHANGED <<timer, due, answer>>
        BY <1>8, <2>2 DEF EnsureLease
      <3>2. LeaseTypeOK' BY <1>0, <3>1, TimesAssumption DEF LeaseTypeOK, Claim
      <3>3. \A s \in Instances : s # r /\ pc'[s] \in Running => missed'[s]
        BY <1>0, <2>2, <3>1, ClaimExcludes DEF LeaseTypeOK
      <3>4. holder' = r /\ left' = Ttl /\ due'[r] \in 0 .. Beat
        BY <1>0, <3>1 DEF Claim, LeaseTypeOK
      <3>5. left' >= Ttl - Beat + due'[r] BY <3>4, TimesAssumption
      <3> QED BY <3>2, <3>3, <3>4, <3>5 DEF LeaseInv, Margin
    <2>3. CASE lost[r] /\ ~Claimable(r)
      <3>1. /\ pc[r] = "loop" /\ pc' = [pc EXCEPT ![r] = "exited"] /\ StopHeartbeat(r)
            /\ UNCHANGED <<holder, left, due, lost, missed, answer>>
        BY <1>8, <2>3 DEF EnsureLease
      <3>2. LeaseTypeOK' /\ Margin' BY <1>0, <3>1 DEF StopHeartbeat, LeaseTypeOK, Margin
      <3> QED BY <3>2 DEF LeaseInv
    <2> QED BY <1>0, <2>1, <2>2, <2>3 DEF LeaseTypeOK
  <1>9. ASSUME NEW r \in Instances, FinishStep(r) PROVE LeaseInv'
    BY <1>0, <1>9 DEF FinishStep, LeaseInv, LeaseTypeOK, Margin
  <1>10. ASSUME NEW r \in Instances, Exit(r) \/ Crash(r) PROVE LeaseInv'
    <2>1. LeaseTypeOK' BY <1>0, <1>10 DEF Exit, Crash, StopHeartbeat, LeaseTypeOK
    <2>2. Margin' BY <1>0, <1>10 DEF Exit, Crash, StopHeartbeat, LeaseTypeOK, Margin
    <2> QED BY <2>1, <2>2 DEF LeaseInv
  <1>11. ASSUME NEW r \in Instances, Settle(r) \/ LaunchFails(r) PROVE LeaseInv'
    <2>1. LeaseTypeOK'
      BY <1>0, <1>11, TimesAssumption DEF Settle, LaunchFails, Release, LeaseTypeOK
    <2>2. Margin'
      BY <1>0, <1>11, NoneAssumption DEF Settle, LaunchFails, Release, LeaseTypeOK, Margin
    <2> QED BY <2>1, <2>2 DEF LeaseInv
  <1>12. ASSUME NEW r \in Instances, Forget(r) PROVE LeaseInv'
    <2>1. LeaseTypeOK' BY <1>0, <1>12, TimesAssumption DEF Forget, LeaseTypeOK
    <2>2. Margin' BY <1>0, <1>12 DEF Forget, LeaseTypeOK, Margin
    <2> QED BY <2>1, <2>2 DEF LeaseInv
  <1> QED
    BY <1>1, <1>2, <1>3, <1>4, <1>5, <1>6, <1>7, <1>8, <1>9, <1>10, <1>11, <1>12,
       <1>13
    DEF LeaseNext

(***************************************************************************)
(* Type correctness and the lease margin hold in every reachable state.    *)
(***************************************************************************)
THEOREM LeaseInductive == LeaseSpec => []LeaseInv
  BY LeaseStarts, LeaseSteps, PTL DEF LeaseSpec

(***************************************************************************)
(* The lease record, clocks and supervisors keep their types: the expiry   *)
(* arithmetic of reclaim and renewal stays within one TTL of the clock.    *)
(***************************************************************************)
THEOREM LeaseTypeCorrect == LeaseSpec => []LeaseTypeOK
PROOF
  <1>1. LeaseInv => LeaseTypeOK BY DEF LeaseInv
  <1> QED BY <1>1, LeaseInductive, PTL

(***************************************************************************)
(* A running instance with punctual beats holds the live lease (the        *)
(* contract behind build-runner.ts ignoring store errors between beats).   *)
(***************************************************************************)
THEOREM PunctualInstanceHolds == LeaseSpec => []PunctualHolds
PROOF
  <1>1. LeaseInv => PunctualHolds BY PunctualLive DEF PunctualHolds
  <1> QED BY <1>1, LeaseInductive, PTL

(***************************************************************************)
(* Two instances run one build at once only after one missed a beat.       *)
(***************************************************************************)
THEOREM ExclusiveUnlessStalled == LeaseSpec => []OneRunsUnlessStalled
PROOF
  <1>1. LeaseInv => OneRunsUnlessStalled
    BY PunctualLive DEF OneRunsUnlessStalled, Holds
  <1> QED BY <1>1, LeaseInductive, PTL

(***************************************************************************)
(* A live lease is given up only by its holder, when that launch has ended  *)
(* or never started.                                                       *)
(***************************************************************************)
THEOREM LiveLeaseKept == LeaseSpec => NoTakeoverWhileLive
PROOF
  <1> DEFINE Kept ==
        \A r \in Instances :
          Holds(r) /\ holder' # r => holder' = None /\ pc[r] \in {"reserved", "exited"}
  <1>1. LeaseInv /\ [LeaseNext]_leaseVars => [Kept]_leaseVars
    <2> SUFFICES ASSUME LeaseInv, LeaseNext, NEW r \in Instances, Holds(r), holder' # r
                 PROVE  holder' = None /\ pc[r] \in {"reserved", "exited"}
      OBVIOUS
    <2>1. \A s \in Instances : Claimable(s) => s = r
      BY NoneAssumption DEF Claimable, Holds
    <2>2. ~Tick BY DEF Tick, Holds
    <2>3. PICK s \in Instances :
            \/ Launch(s) \/ LaunchFails(s) \/ Attach(s) \/ StartHeartbeat(s)
            \/ Heartbeat(s) \/ HeartbeatFails(s) \/ HeartbeatAnswered(s)
            \/ EnsureLease(s) \/ FinishStep(s) \/ Exit(s)
            \/ Settle(s) \/ Crash(s) \/ Forget(s)
      BY <2>2 DEF LeaseNext
    <2>4. ~(\/ StartHeartbeat(s) \/ Heartbeat(s) \/ HeartbeatFails(s)
            \/ HeartbeatAnswered(s) \/ FinishStep(s) \/ Exit(s) \/ Crash(s) \/ Forget(s))
      BY DEF StartHeartbeat, Heartbeat, HeartbeatFails, HeartbeatAnswered, FinishStep,
             Exit, Crash, Forget, Holds
    <2>5. ~Launch(s) BY <2>1 DEF Launch, Claim
    <2>6. ~Attach(s) BY <2>1 DEF Attach, Claim, Holds
    <2>7. ~EnsureLease(s)
      BY <2>1 DEF EnsureLease, Claim, Holds, LeaseInv, LeaseTypeOK
    <2>8. Settle(s) \/ LaunchFails(s) BY <2>3, <2>4, <2>5, <2>6, <2>7
    <2>9. s = r /\ holder' = None BY <2>8 DEF Settle, LaunchFails, Release, Holds
    <2> QED BY <2>8, <2>9 DEF Settle, LaunchFails
  <1> QED BY <1>1, LeaseInductive, PTL DEF LeaseSpec, NoTakeoverWhileLive

-----------------------------------------------------------------------------
(***************************************************************************)
(* The review loop: its types, and who asked what of which round.          *)
(***************************************************************************)
AskedBy == Rounds \X Sources \X {"kernel", "agent"}
RoundStates == [completed : BOOLEAN, verdict : {"none", "approve", "revise", "escalate"},
                mark : NoMark .. MaxRounds]
Loops == [ever : 0 .. MaxRounds, top : 0 .. MaxRounds, rounds : [Rounds -> RoundStates],
          raised : SUBSET Sources, ceiling : 1 .. Max({MaxReviewRounds, MaxCeiling})]
Questions == [id : Asks, stage : Roles, source : Sources, round : Rounds]
Guidances == [latest : 0 .. MaxAsks, carried : [Rounds -> 0 .. MaxAsks], delivered : SUBSET Asks]
Decisions == [kind : {"wait", "raise"} \cup Roles, source : Sources,
              round : 0 .. MaxRounds, feedback : 0 .. MaxAsks]
Runners == [pc : {"decide", "act", "launch", "turn", "repair", "fail", "attach"},
            decision : Decisions]
Sessions == [stage : Roles, round : 0 .. MaxRounds, state : {"live", "deposited", "ended"}]
Histories == [base : 0 .. MaxRounds, granted : Nat, answers : Nat,
              asked : SUBSET AskedBy, heard : SUBSET Asks]

Typed ==
  /\ loop \in Loops /\ open \subseteq Questions /\ guidance \in Guidances
  /\ dismissed \subseteq Rounds /\ awaiting \in BOOLEAN
  /\ runner \in Runners /\ session \in Sessions /\ straggling \subseteq Rounds
  /\ used \in [asks : 0 .. MaxAsks, answers : Nat, mishaps : Nat] /\ ghost \in Histories

(***************************************************************************)
(* A verdict is given once: what the runner is about to work on is the     *)
(* newest round that ever was or the next, it has no verdict, and the      *)
(* kernel has asked nothing of it.                                         *)
(***************************************************************************)
Working == runner.decision.kind \in Roles
Unasked(r) == \A source \in Sources : <<r, source, "kernel">> \notin ghost.asked
Unjudged(r) == r \in Rounds /\ loop.rounds[r].verdict = "none" /\ Unasked(r)
Judging(r) == r \in Rounds /\ (loop.top = r => loop.rounds[r].verdict # "none")

Deciding ==
  runner.pc = "act" =>
    /\ Working => Unjudged(runner.decision.round)
    /\ runner.decision.kind = "producer" => runner.decision.round \in {loop.ever, loop.ever + 1}
    /\ runner.decision.kind # "producer" => runner.decision.round = loop.ever
    /\ ~Working => /\ runner.decision.kind = "raise" /\ Judging(loop.ever)
                   /\ <<loop.ever, runner.decision.source, "kernel">> \notin ghost.asked

AtTurn ==
  /\ runner.pc \in {"launch", "turn", "repair"} => Working /\ runner.decision.round = loop.ever
  /\ runner.pc = "launch" => Unjudged(loop.ever)
  /\ runner.pc = "turn" =>
       /\ session.stage = runner.decision.kind /\ session.round = loop.ever
       /\ loop.ever \in Rounds /\ Unasked(loop.ever)
  /\ runner.pc = "repair" => Judging(loop.ever) /\ <<loop.ever, "agent", "kernel">> \notin ghost.asked
  /\ runner.pc \in {"decide", "act", "launch", "repair"} => session.state = "ended"
  /\ session.state = "live" => session.round = loop.ever /\ Unjudged(loop.ever)

Routed ==
  /\ loop.top \in {0, loop.ever}
  /\ \A r \in Rounds, source \in Sources : <<r, source, "kernel">> \in ghost.asked =>
       /\ r <= loop.ever
       /\ r = loop.top => source \in loop.raised /\ loop.rounds[r].verdict # "none"
  /\ \A r \in Rounds : r > loop.ever => loop.rounds[r].verdict = "none"

AskInv == Typed /\ Deciding /\ AtTurn /\ Routed

(***************************************************************************)
(* Rounds are paid for: since the last revision every round but the newest *)
(* has a verdict, so that the cap counts them, and one beyond the cap was  *)
(* opened on an answer given after the verdict before it.                  *)
(***************************************************************************)
Spare == loop.ever - ghost.base < ghost.granted + ghost.answers

Counts ==
  /\ ghost.base <= loop.ever /\ loop.ceiling <= ghost.granted
  /\ loop.top = 0 => ghost.base = loop.ever
  /\ \A r \in Rounds : ghost.base < r /\ r < loop.ever => loop.rounds[r].verdict # "none"

Paid ==
  /\ loop.ever - ghost.base <= ghost.granted + ghost.answers
  /\ loop.ever \in Rounds /\ loop.rounds[loop.ever].verdict # "none" /\ loop.raised # {} =>
       open # {} \/ awaiting \/ Spare
  /\ runner.pc = "act" /\ runner.decision.kind = "producer" /\ runner.decision.round > loop.ever =>
       /\ Spare
       /\ loop.ever > ghost.base => loop.rounds[loop.ever].verdict # "none"

RoundInv == Counts /\ Paid

(***************************************************************************)
(* The guidance a launched session carries off is what its decision cited. *)
(***************************************************************************)
Cited ==
  runner.pc = "launch" /\ runner.decision.kind = "producer" =>
    guidance.carried[runner.decision.round] = runner.decision.feedback

GuidanceInv == Cited /\ DeliveredIsHeard

-----------------------------------------------------------------------------
(***************************************************************************)
(* The decision.                                                           *)
(***************************************************************************)
LEMMA MaxOfTwo ==
  ASSUME NEW a \in Int, NEW b \in Int
  PROVE  Max({a, b}) = IF a >= b THEN a ELSE b
  BY DEF Max

(***************************************************************************)
(* A chain is of findings of the history it is a chain of.                 *)
(***************************************************************************)
LEMMA ReportedOfHistory ==
  ASSUME NEW n \in Rounds, NEW chain \in Reported(History(n), DismissedIds), NEW id \in chain
  PROVE  id[1] \in 1 .. n
PROOF
  <1>1. chain \in ChainsOf(History(n))
    BY DEF Reported, Raisable, LiveChains, StalledChains
  <1>2. chain \subseteq Ids(History(n))
    BY <1>1 DEF ChainsOf
  <1>3. PICK f \in Findings(History(n)) : id = f.id
    BY <1>2 DEF Ids
  <1>4. PICK r \in 1 .. n : f \in History(n)[r]
    BY <1>3 DEF Findings, History
  <1>5. f.id = <<r, 1>>
    BY <1>4 DEF History
  <1> QED BY <1>3, <1>5

LEMMA GuidanceType ==
  ASSUME TypeOK PROVE Guidance \in 0 .. MaxAsks
  BY LoopAssumption DEF TypeOK, Guidance

LEMMA DecisionIs ==
  ASSUME TypeOK, Decision.kind \notin {"wait", "approved"}
  PROVE  /\ open = {} /\ ~awaiting
         /\ \/ loop.top = 0 /\ Decision = RunProducer(loop.ever + 1)
            \/ /\ loop.top \in Rounds /\ loop.rounds[loop.top].verdict = "none"
               /\ Decision \in {RunReviewer(loop.top), RunProducer(loop.top)}
            \/ /\ loop.top \in Rounds /\ loop.rounds[loop.top].verdict # "none"
               /\ \E source \in Sources \ loop.raised : Decision = Raise(source, loop.top)
            \/ /\ loop.top \in Rounds /\ loop.rounds[loop.top].verdict # "none"
               /\ loop.raised # {} \/ Cardinality(Reviewed) < loop.ceiling
               /\ Decision = RunProducer(loop.top + 1)
PROOF
  <1>1. open = {} /\ ~awaiting /\ Decision = LoopDecision
    BY DEF Decision, Nothing
  <1>2. CASE loop.top = 0
    BY <1>1, <1>2 DEF LoopDecision
  <1>3. CASE loop.top # 0
    <2> DEFINE v == loop.rounds[loop.top].verdict
    <2>1. /\ loop.top \in Rounds /\ v \in {"none", "approve", "revise", "escalate"}
          /\ loop.rounds[loop.top].completed \in BOOLEAN
      BY <1>3, LoopAssumption DEF TypeOK, Rounds
    <2>2. CASE v = "none"
      BY <1>1, <1>3, <2>1, <2>2 DEF LoopDecision
    <2>3. CASE v = "approve"
      <3>1. Decision = [Nothing EXCEPT !.kind = "approved"]
        BY <1>1, <1>3, <2>1, <2>3 DEF LoopDecision
      <3> QED BY <3>1 DEF Nothing
    <2>4. CASE v = "escalate"
      <3>1. Decision = AfterEscalate
        BY <1>1, <1>3, <2>1, <2>4 DEF LoopDecision
      <3> QED BY <1>1, <2>1, <2>4, <3>1 DEF AfterEscalate, Asked, Sources
    <2>5. CASE v = "revise"
      <3>1. Decision = AfterRevise
        BY <1>1, <1>3, <2>1, <2>5 DEF LoopDecision
      <3>2. Cardinality(Reviewed) \in Int /\ loop.ceiling \in Int
        <4>1. IsFiniteSet(Rounds)
          BY LoopAssumption, FS_Interval DEF Rounds
        <4>2. Reviewed \subseteq Rounds
          BY DEF Reviewed
        <4>3. Cardinality(Reviewed) \in Nat
          BY <4>1, <4>2, FS_Subset, FS_CardinalityType
        <4>4. loop.ceiling \in Int
          BY DEF TypeOK
        <4> QED BY <4>3, <4>4
      <3> HIDE DEF v
      <3> QED BY <1>1, <2>1, <2>5, <3>1, <3>2 DEF AfterRevise, Asked, Sources, v
    <2> QED BY <2>1, <2>2, <2>3, <2>4, <2>5
  <1> QED BY <1>2, <1>3

(***************************************************************************)
(* What a decision that is to be carried out is like.                      *)
(***************************************************************************)
LEMMA DecisionType ==
  ASSUME TypeOK, Decision.kind \notin {"wait", "approved"}, Decision.round \in Rounds
  PROVE  Decision \in Decisions /\ Decision.kind \in {"raise"} \cup Roles
PROOF
  <1>1. Guidance \in 0 .. MaxAsks /\ 0 \in 0 .. MaxAsks
    BY GuidanceType, LoopAssumption
  <1>2. Rounds \subseteq 0 .. MaxRounds
    BY DEF Rounds
  <1>3. \/ \E r \in 0 .. MaxRounds : Decision = RunProducer(r) \/ Decision = RunReviewer(r)
        \/ \E r \in 0 .. MaxRounds, source \in Sources : Decision = Raise(source, r)
    <2>1. \A r : Decision = RunProducer(r) \/ Decision = RunReviewer(r) => Decision.round = r
      BY DEF RunProducer, RunReviewer
    <2>2. \A r \in Rounds : r \in 0 .. MaxRounds
      BY <1>2
    <2> QED BY DecisionIs, <2>1, <2>2
  <1> QED BY <1>1, <1>3 DEF Decisions, RunProducer, RunReviewer, Raise, Roles, Sources

-----------------------------------------------------------------------------
(***************************************************************************)
(* Types                                                                   *)
(***************************************************************************)
LEMMA TypedIs == Typed => TypeOK
  BY DEF Typed, TypeOK, Loops, RoundStates, Questions, Guidances, Runners, Decisions, Sessions

LEMMA LoopInitTypes ==
  ASSUME Init PROVE Typed
PROOF
  <1> USE LoopAssumption DEF Init
  <1>1. loop \in Loops
    <2>1. MaxReviewRounds \in 1 .. Max({MaxReviewRounds, MaxCeiling})
      BY MaxOfTwo
    <2>2. EmptyRounds \in [Rounds -> RoundStates]
      BY DEF EmptyRounds, RoundStates, NoMark
    <2>3. 0 \in 0 .. MaxRounds
      OBVIOUS
    <2> QED BY <2>1, <2>2, <2>3 DEF Loops
  <1>2. guidance \in Guidances
    BY DEF Guidances
  <1>3. runner \in Runners
    BY DEF Runners, Decisions, Nothing, Sources
  <1>4. session \in Sessions
    BY DEF Sessions, NoSession, Roles
  <1>5. ghost \in Histories
    BY DEF Histories
  <1>6. used \in [asks : 0 .. MaxAsks, answers : Nat, mishaps : Nat]
    OBVIOUS
  <1>7. open \subseteq Questions /\ dismissed \subseteq Rounds /\ awaiting \in BOOLEAN
        /\ straggling \subseteq Rounds
    OBVIOUS
  <1> QED BY <1>1, <1>2, <1>3, <1>4, <1>5, <1>6, <1>7 DEF Typed

(***************************************************************************)
(* A round that is touched exists, and the newest stays the newest.        *)
(***************************************************************************)
Newest(r, n) == IF n >= r THEN n ELSE r

LEMMA TouchedIs ==
  ASSUME loop \in Loops, NEW r \in Rounds
  PROVE  /\ Touched(r) \in Loops
         /\ Touched(r).top = Newest(r, loop.top) /\ Touched(r).ever = Newest(r, loop.ever)
         /\ Touched(r).rounds = loop.rounds /\ Touched(r).raised = loop.raised
         /\ Touched(r).ceiling = loop.ceiling
PROOF
  <1> DEFINE top == Newest(r, loop.top)
             ever == Newest(r, loop.ever)
  <1>1. loop.top \in 0 .. MaxRounds /\ loop.ever \in 0 .. MaxRounds /\ r \in 1 .. MaxRounds
    BY DEF Loops, Rounds
  <1>2. Max({loop.top, r}) = top /\ Max({loop.ever, r}) = ever
    BY <1>1, MaxOfTwo DEF Newest
  <1>3. top \in 0 .. MaxRounds /\ ever \in 0 .. MaxRounds
    BY <1>1, LoopAssumption DEF Newest
  <1>4. Touched(r) = [loop EXCEPT !.top = top, !.ever = ever]
    BY <1>2 DEF Touched
  <1> HIDE DEF top, ever
  <1>5. Touched(r).top = top /\ Touched(r).ever = ever
    BY <1>4 DEF Loops
  <1>6. Touched(r).rounds = loop.rounds /\ Touched(r).raised = loop.raised
        /\ Touched(r).ceiling = loop.ceiling
    BY <1>4 DEF Loops
  <1>7. Touched(r) \in Loops
    BY <1>3, <1>4 DEF Loops
  <1> QED BY <1>5, <1>6, <1>7 DEF top, ever

LEMMA JudgedIs ==
  ASSUME loop \in Loops, NEW r \in Rounds, NEW verdict \in {"approve", "revise", "escalate"},
         NEW mark \in NoMark .. MaxRounds
  PROVE  /\ Judged(r, verdict, mark) \in Loops
         /\ Judged(r, verdict, mark).top = Newest(r, loop.top)
         /\ Judged(r, verdict, mark).ever = Newest(r, loop.ever)
         /\ Judged(r, verdict, mark).raised = {}
         /\ Judged(r, verdict, mark).ceiling = loop.ceiling
         /\ \A q \in Rounds : Judged(r, verdict, mark).rounds[q].verdict =
                                IF q = r THEN verdict ELSE loop.rounds[q].verdict
         /\ \A q \in Rounds : q # r => Judged(r, verdict, mark).rounds[q] = loop.rounds[q]
PROOF
  <1> DEFINE t == Touched(r)
             j == Judged(r, verdict, mark)
  <1>1. t \in Loops /\ t.rounds = loop.rounds
    BY TouchedIs
  <1>2. j = [t EXCEPT !.rounds[r].verdict = verdict, !.rounds[r].mark = mark, !.raised = {}]
    BY DEF Judged
  <1> HIDE DEF t, j
  <1>3. t.rounds \in [Rounds -> RoundStates]
    BY <1>1 DEF Loops
  <1>4. j.rounds = [t.rounds EXCEPT ![r].verdict = verdict, ![r].mark = mark]
    BY <1>1, <1>2 DEF Loops
  <1>5. j.rounds \in [Rounds -> RoundStates]
    BY <1>3, <1>4 DEF RoundStates
  <1>6. /\ \A q \in Rounds : j.rounds[q].verdict = IF q = r THEN verdict ELSE loop.rounds[q].verdict
        /\ \A q \in Rounds : q # r => j.rounds[q] = loop.rounds[q]
    BY <1>1, <1>3, <1>4 DEF RoundStates
  <1>7. j.top = t.top /\ j.ever = t.ever /\ j.raised = {} /\ j.ceiling = t.ceiling
    BY <1>1, <1>2 DEF Loops
  <1>8. j = [ever |-> t.ever, top |-> t.top, rounds |-> j.rounds, raised |-> {}, ceiling |-> t.ceiling]
    BY <1>1, <1>2 DEF Loops
  <1>9. j \in Loops
    BY <1>1, <1>5, <1>8 DEF Loops
  <1> QED BY <1>6, <1>7, <1>9, TouchedIs DEF t, j

(***************************************************************************)
(* An appended question, and one more answer.                              *)
(***************************************************************************)
LEMMA AskTypes ==
  ASSUME Typed, NEW stage \in Roles, NEW source \in Sources, NEW r \in Rounds,
         AppendAsk(stage, source, r)
  PROVE  /\ used' \in [asks : 0 .. MaxAsks, answers : Nat, mishaps : Nat]
         /\ open' \subseteq Questions /\ open' # {} /\ loop' \in Loops
         /\ loop'.ever = loop.ever /\ loop'.top = loop.top /\ loop'.rounds = loop.rounds
         /\ loop'.ceiling = loop.ceiling
         /\ loop'.raised = IF stage = "reviewer" THEN loop.raised \cup {source} ELSE loop.raised
PROOF
  <1> USE LoopAssumption
  <1>1. used.asks < MaxAsks /\ used' = [used EXCEPT !.asks = @ + 1]
        /\ used \in [asks : 0 .. MaxAsks, answers : Nat, mishaps : Nat]
    BY DEF AppendAsk, Typed
  <1>2. used' \in [asks : 0 .. MaxAsks, answers : Nat, mishaps : Nat] /\ used.asks + 1 \in Asks
    BY <1>1 DEF Asks
  <1>3. open' \subseteq Questions /\ open' # {}
    <2> DEFINE ask == [id |-> used.asks + 1, stage |-> stage, source |-> source, round |-> r]
    <2>1. ask \in Questions
      BY <1>2 DEF Questions
    <2>2. open' = open \cup {ask} /\ open \subseteq Questions
      BY DEF AppendAsk, Typed
    <2> HIDE DEF ask
    <2> QED BY <2>1, <2>2
  <1>4. loop \in Loops /\ loop' = IF stage = "reviewer" THEN [loop EXCEPT !.raised = @ \cup {source}] ELSE loop
    BY DEF AppendAsk, Typed
  <1>5. CASE stage = "reviewer"
    <2>1. loop' = [loop EXCEPT !.raised = @ \cup {source}]
      BY <1>4, <1>5
    <2> QED BY <1>2, <1>3, <1>4, <1>5, <2>1 DEF Loops
  <1> QED BY <1>2, <1>3, <1>4, <1>5

LEMMA RecordedTypes ==
  ASSUME Typed, NEW r \in Rounds, NEW source \in Sources, NEW by \in {"kernel", "agent"},
         AskRecorded(r, source, by)
  PROVE  /\ ghost' \in Histories /\ ghost'.asked = ghost.asked \cup {<<r, source, by>>}
         /\ ghost'.base = ghost.base /\ ghost'.granted = ghost.granted /\ ghost'.answers = ghost.answers
         /\ ghost'.heard = ghost.heard
  BY DEF Typed, Histories, AskRecorded, AskedBy

LEMMA AnswerTypes ==
  ASSUME Typed, NEW ask \in open, Answered(ask)
  PROVE  used' \in [asks : 0 .. MaxAsks, answers : Nat, mishaps : Nat] /\ open' \subseteq Questions
  BY DEF Typed, Answered

LEMMA CeilingTypes ==
  ASSUME Typed, NEW ask \in open, AnsweredWithCeiling(ask)
  PROVE  /\ loop' \in Loops /\ loop'.ever = loop.ever /\ loop'.top = loop.top
         /\ loop'.rounds = loop.rounds /\ loop'.raised = loop.raised
         /\ ghost' \in Histories /\ ghost'.asked = ghost.asked /\ ghost'.base = ghost.base
         /\ ghost'.answers = ghost.answers + 1 /\ ghost'.heard = ghost.heard
         /\ ghost'.granted >= ghost.granted
         /\ loop'.ceiling = loop.ceiling \/ loop'.ceiling <= ghost'.granted
PROOF
  <1> USE LoopAssumption
  <1>1. PICK ceiling \in Ceilings(ask) :
          /\ loop' = [loop EXCEPT !.ceiling = ceiling]
          /\ ghost' = [ghost EXCEPT !.answers = @ + 1, !.granted = Max({@, ceiling})]
    BY DEF AnsweredWithCeiling
  <1>2. ceiling \in 1 .. Max({MaxReviewRounds, MaxCeiling})
    <2>1. loop.ceiling \in 1 .. Max({MaxReviewRounds, MaxCeiling})
      BY DEF Typed, Loops
    <2>2. Max({MaxReviewRounds, MaxCeiling}) \in Int /\ Max({MaxReviewRounds, MaxCeiling}) >= MaxCeiling
      BY MaxOfTwo
    <2> QED BY <1>1, <2>1, <2>2 DEF Ceilings
  <1>3. loop \in Loops /\ ghost \in Histories
    BY DEF Typed
  <1>4. Max({ghost.granted, ceiling}) = Newest(ceiling, ghost.granted)
    BY <1>2, <1>3, MaxOfTwo DEF Histories, Newest
  <1>5. loop' \in Loops /\ loop'.ever = loop.ever /\ loop'.top = loop.top
        /\ loop'.rounds = loop.rounds /\ loop'.raised = loop.raised /\ loop'.ceiling = ceiling
    BY <1>1, <1>2, <1>3 DEF Loops
  <1> DEFINE granted == Newest(ceiling, ghost.granted)
  <1>6. granted \in Nat /\ granted >= ghost.granted /\ granted >= ceiling
    BY <1>2, <1>3 DEF Histories, Newest
  <1>7. ghost' = [ghost EXCEPT !.answers = @ + 1, !.granted = granted]
    BY <1>1, <1>4
  <1> HIDE DEF granted
  <1>8. ghost' = [base |-> ghost.base, granted |-> granted, answers |-> ghost.answers + 1,
                  asked |-> ghost.asked, heard |-> ghost.heard]
    BY <1>3, <1>7 DEF Histories
  <1>9. ghost' \in Histories /\ ghost'.asked = ghost.asked /\ ghost'.base = ghost.base
        /\ ghost'.answers = ghost.answers + 1 /\ ghost'.heard = ghost.heard /\ ghost'.granted = granted
    BY <1>3, <1>6, <1>8 DEF Histories
  <1> QED BY <1>5, <1>6, <1>9

LEMMA GotoTypes ==
  ASSUME Typed, NEW place \in {"decide", "act", "launch", "turn", "repair", "fail", "attach"}, Goto(place)
  PROVE  runner' \in Runners /\ runner'.pc = place /\ runner'.decision = runner.decision
  BY DEF Typed, Runners, Goto

(***************************************************************************)
(* The round of every position is a round.                                 *)
(***************************************************************************)
LEMMA RoundsOfPositions ==
  ASSUME AskInv
  PROVE  /\ Typed
         /\ runner.pc \in {"act", "launch", "repair"} => runner.decision.round \in Rounds
         /\ session.state = "live" => session.round \in Rounds
  BY DEF AskInv, Deciding, AtTurn, Unjudged, Judging

LEMMA RunnerTypes ==
  ASSUME AskInv, RunnerStep
  PROVE  Typed'
PROOF
  <1> USE LoopAssumption, RoundsOfPositions
  <1>1. CASE Decide
    <2>1. Decision \in Decisions
      BY <1>1, DecisionType, TypedIs DEF Decide, AskInv
    <2>2. runner' \in Runners
      BY <1>1, <2>1 DEF Decide, Runners
    <2> QED BY <1>1, <2>2 DEF Decide, Typed
  <1>2. CASE RaiseEscalation
    <2> DEFINE r == runner.decision.round
               source == runner.decision.source
    <2>1. r \in Rounds /\ source \in Sources
      BY <1>2 DEF RaiseEscalation, Typed, Runners, Decisions
    <2>2. AppendAsk("reviewer", source, r) /\ AskRecorded(r, source, "kernel") /\ Goto("decide")
          /\ UNCHANGED <<guidance, dismissed, awaiting, session, straggling>>
      BY <1>2 DEF RaiseEscalation
    <2> HIDE DEF r, source
    <2>3. ghost' \in Histories /\ runner' \in Runners
      BY <2>1, <2>2, RecordedTypes, GotoTypes
    <2>4. used' \in [asks : 0 .. MaxAsks, answers : Nat, mishaps : Nat]
          /\ open' \subseteq Questions /\ loop' \in Loops
      BY <2>1, <2>2, AskTypes DEF Roles
    <2> QED BY <2>2, <2>3, <2>4 DEF Typed
  <1>3. CASE StartProducer
    <2> DEFINE r == runner.decision.round
    <2>1. r \in Rounds /\ runner.decision.feedback \in 0 .. MaxAsks
      BY <1>3 DEF StartProducer, Typed, Runners, Decisions
    <2>2. guidance' \in Guidances
      BY <1>3, <2>1 DEF StartProducer, Typed, Guidances
    <2>3. loop' \in Loops /\ runner' \in Runners
      BY <1>3, <2>1, TouchedIs, GotoTypes DEF StartProducer, Typed
    <2> QED BY <1>3, <2>2, <2>3 DEF StartProducer, Typed
  <1>4. CASE StartReviewer
    <2>1. loop' \in Loops /\ runner' \in Runners
      BY <1>4, TouchedIs, GotoTypes DEF StartReviewer, Typed
    <2> QED BY <1>4, <2>1 DEF StartReviewer, Typed
  <1>5. CASE StartSession
    <2> DEFINE r == runner.decision.round
    <2>1. r \in Rounds /\ runner.decision.feedback \in 0 .. MaxAsks /\ runner.decision.kind \in Roles
      BY <1>5 DEF StartSession, Typed, Runners, Decisions, AskInv, AtTurn, Working
    <2>2. guidance' \in Guidances
      <3>1. guidance.carried[r] \in 0 .. MaxAsks /\ guidance \in Guidances
        BY <2>1 DEF Typed, Guidances
      <3>2. guidance.carried[r] \in Asks \cup {0} /\ 0 \in 0 .. MaxAsks
        BY <3>1 DEF Asks
      <3>3. \/ guidance' = guidance
            \/ guidance' = [guidance EXCEPT !.carried[r] = 0,
                                            !.delivered = @ \cup ({guidance.carried[r]} \ {0})]
        BY <1>5 DEF StartSession
      <3> DEFINE carried == [guidance.carried EXCEPT ![r] = 0]
                 delivered == guidance.delivered \cup ({guidance.carried[r]} \ {0})
      <3>4. carried \in [Rounds -> 0 .. MaxAsks] /\ delivered \in SUBSET Asks
        BY <3>1, <3>2 DEF Guidances
      <3>5. guidance' \in {guidance, [guidance EXCEPT !.carried = carried, !.delivered = delivered]}
        BY <3>3
      <3> HIDE DEF carried, delivered
      <3> QED BY <3>1, <3>4, <3>5 DEF Guidances
    <2>3. session' \in Sessions
      BY <1>5, <2>1 DEF StartSession, Sessions, Rounds
    <2>4. ghost' \in Histories
      <3>1. {runner.decision.feedback} \ {0} \subseteq Asks
        BY <2>1 DEF Asks
      <3> QED BY <1>5, <3>1 DEF StartSession, Typed, Histories
    <2>5. runner' \in Runners
      BY <1>5, GotoTypes DEF StartSession
    <2> QED BY <1>5, <2>2, <2>3, <2>4, <2>5 DEF StartSession, Typed
  <1>6. CASE TurnEnds
    <2>1. runner' \in Runners /\ session' \in Sessions
      BY <1>6, GotoTypes DEF TurnEnds, Typed, Sessions
    <2> QED BY <1>6, <2>1 DEF TurnEnds, Typed
  <1>7. CASE RepairEscalateGap
    <2> DEFINE r == runner.decision.round
    <2>1. r \in Rounds
      BY <1>7 DEF RepairEscalateGap
    <2>2. AppendAsk("reviewer", "agent", r) /\ AskRecorded(r, "agent", "kernel") /\ Goto("decide")
          /\ UNCHANGED <<guidance, dismissed, awaiting, session, straggling>>
      BY <1>7 DEF RepairEscalateGap
    <2> HIDE DEF r
    <2>3. ghost' \in Histories /\ runner' \in Runners
      BY <2>1, <2>2, RecordedTypes, GotoTypes DEF Sources
    <2>4. used' \in [asks : 0 .. MaxAsks, answers : Nat, mishaps : Nat]
          /\ open' \subseteq Questions /\ loop' \in Loops
      BY <2>1, <2>2, AskTypes DEF Roles, Sources
    <2> QED BY <2>2, <2>3, <2>4 DEF Typed
  <1>8. CASE FailPhase
    <2>1. runner' \in Runners /\ session' \in Sessions
      BY <1>8, GotoTypes DEF FailPhase, Typed, Sessions
    <2> QED BY <1>8, <2>1 DEF FailPhase, Typed
  <1>9. CASE EndOrphan
    <2>1. runner' \in Runners /\ session' \in Sessions
      BY <1>9 DEF EndOrphan, Typed, Sessions, Runners, Decisions, Nothing, Sources
    <2> QED BY <1>9, <2>1 DEF EndOrphan, Typed
  <1> QED BY <1>1, <1>2, <1>3, <1>4, <1>5, <1>6, <1>7, <1>8, <1>9 DEF RunnerStep

LEMMA OtherTypes ==
  ASSUME AskInv, [Next]_vars, ~RunnerStep
  PROVE  Typed'
PROOF
  <1> USE LoopAssumption, RoundsOfPositions
  <1>1. CASE UNCHANGED vars
    BY <1>1 DEF vars, Typed
  <1>2. CASE TurnEndsEmpty \/ RunnerDies
    <2>1. used' \in [asks : 0 .. MaxAsks, answers : Nat, mishaps : Nat] /\ runner' \in Runners
      BY <1>2, GotoTypes DEF TurnEndsEmpty, RunnerDies, Typed
    <2> QED BY <1>2, <2>1 DEF TurnEndsEmpty, RunnerDies, Typed
  <1>3. ASSUME NEW stage \in Roles, Deposits(stage) PROVE session' \in Sessions /\ session.round \in Rounds
    BY <1>3 DEF Deposits, Typed, Sessions
  <1>4. CASE Complete
    <2> DEFINE r == session.round
               t == Touched(r)
    <2>1. r \in Rounds /\ session' \in Sessions
      BY <1>3, <1>4 DEF Complete, Roles
    <2>2. t \in Loops
      BY <2>1, TouchedIs DEF Typed
    <2>3. loop' = [t EXCEPT !.rounds = [t.rounds EXCEPT ![r] = [t.rounds[r] EXCEPT !.completed = TRUE]]]
      BY <1>4, <2>1, <2>2 DEF Complete, Loops
    <2> HIDE DEF t, r
    <2>4. [t.rounds EXCEPT ![r] = [t.rounds[r] EXCEPT !.completed = TRUE]] \in [Rounds -> RoundStates]
      BY <2>1, <2>2 DEF Loops, RoundStates
    <2>5. loop' \in Loops
      BY <2>2, <2>3, <2>4 DEF Loops
    <2> QED BY <1>4, <2>1, <2>5 DEF Complete, Typed
  <1>5. CASE Approve
    <2>1. loop' \in Loops /\ session' \in Sessions
      BY <1>3, <1>5, JudgedIs DEF Approve, Roles, Typed, NoMark
    <2> QED BY <1>5, <2>1 DEF Approve, Typed
  <1>6. CASE Revise
    <2>1. PICK mark \in 0 .. session.round - 1 : loop' = Judged(session.round, "revise", mark)
      BY <1>6 DEF Revise
    <2>2. session.round \in Rounds /\ session' \in Sessions
      BY <1>3, <1>6 DEF Revise, Roles
    <2>3. mark \in NoMark .. MaxRounds
      BY <2>1, <2>2 DEF NoMark, Rounds
    <2>4. loop' \in Loops
      BY <2>1, <2>2, <2>3, JudgedIs DEF Typed
    <2> QED BY <1>6, <2>2, <2>4 DEF Revise, Typed
  <1>7. CASE VerdictEscalate
    <2>1. loop' \in Loops /\ session' \in Sessions /\ session.round \in Rounds
      BY <1>3, <1>7, JudgedIs DEF VerdictEscalate, Roles, Typed, NoMark
    <2> QED BY <1>7, <2>1 DEF VerdictEscalate, Typed
  <1>8. CASE Escalate
    <2>1. PICK stage \in Roles : Deposits(stage)
      BY <1>8 DEF Escalate
    <2>2. session' \in Sessions /\ session.round \in Rounds /\ session.stage \in Roles
      BY <1>3, <2>1 DEF Typed, Sessions
    <2>3. used' \in [asks : 0 .. MaxAsks, answers : Nat, mishaps : Nat]
          /\ open' \subseteq Questions /\ loop' \in Loops
      BY <1>8, <2>2, AskTypes DEF Escalate, Sources
    <2> QED BY <1>8, <2>2, <2>3 DEF Escalate, Typed
  <1>9. ASSUME NEW r \in Rounds, RaiseStraggling(r) PROVE Typed'
    <2>1. AppendAsk("reviewer", "agent", r) /\ AskRecorded(r, "agent", "agent")
          /\ straggling' = straggling \ {r} /\ UNCHANGED <<guidance, dismissed, awaiting, runner, session>>
      BY <1>9 DEF RaiseStraggling
    <2>2. ghost' \in Histories
      BY <2>1, RecordedTypes DEF Sources
    <2>3. used' \in [asks : 0 .. MaxAsks, answers : Nat, mishaps : Nat]
          /\ open' \subseteq Questions /\ loop' \in Loops
      BY <2>1, AskTypes DEF Roles, Sources
    <2> QED BY <2>1, <2>2, <2>3 DEF Typed
  <1>10. ASSUME NEW r \in Rounds, LoseStraggling(r) PROVE Typed'
    BY <1>10 DEF LoseStraggling, Typed
  <1>11. ASSUME NEW ask \in open, Guide(ask) \/ Retry(ask) PROVE Typed'
    <2>1. AnsweredWithCeiling(ask) /\ Answered(ask)
      BY <1>11 DEF Guide, Retry, AnsweredWithCeiling
    <2>2. loop' \in Loops /\ ghost' \in Histories
      BY <2>1, CeilingTypes
    <2>3. used' \in [asks : 0 .. MaxAsks, answers : Nat, mishaps : Nat] /\ open' \subseteq Questions
      BY <2>1, AnswerTypes
    <2>4. guidance' \in Guidances
      <3>1. ask.id \in 0 .. MaxAsks
        BY DEF Typed, Questions, Asks
      <3> QED BY <1>11, <3>1 DEF Guide, Retry, Typed, Guidances
    <2> QED BY <2>1, <2>2, <2>3, <2>4 DEF AnsweredWithCeiling, Typed
  <1>12. ASSUME NEW ask \in open, Dismiss(ask) PROVE Typed'
    <2>1. ghost' \in Histories
      BY <1>12 DEF Dismiss, Typed, Histories
    <2>2. used' \in [asks : 0 .. MaxAsks, answers : Nat, mishaps : Nat] /\ open' \subseteq Questions
      BY <1>12, AnswerTypes DEF Dismiss
    <2>3. dismissed' \subseteq Rounds
      <3>1. ask.round \in Rounds /\ 1 .. ask.round \subseteq Rounds
        BY DEF Typed, Questions, Rounds
      <3>2. PICK chain \in Reported(History(ask.round), DismissedIds) :
              dismissed' = dismissed \cup {id[1] : id \in chain}
        BY <1>12 DEF Dismiss
      <3>3. \A id \in chain : id[1] \in Rounds
        BY <3>1, <3>2, ReportedOfHistory
      <3> QED BY <3>2, <3>3 DEF Typed
    <2> QED BY <1>12, <2>1, <2>2, <2>3 DEF Dismiss, Typed
  <1>13. CASE ReviseSpec
    BY <1>13 DEF ReviseSpec, Typed
  <1>14. CASE SpecRevised
    <2>1. EmptyRounds \in [Rounds -> RoundStates] /\ 0 \in 0 .. MaxRounds
      BY DEF EmptyRounds, RoundStates, NoMark
    <2>2. MaxReviewRounds \in 1 .. Max({MaxReviewRounds, MaxCeiling}) /\ MaxReviewRounds \in Nat
      BY MaxOfTwo
    <2>3. loop' = [ever |-> loop.ever, top |-> 0, rounds |-> EmptyRounds, raised |-> {},
                   ceiling |-> MaxReviewRounds]
      BY <1>14 DEF SpecRevised, Typed, Loops
    <2>4. loop' \in Loops
      BY <2>1, <2>2, <2>3 DEF Typed, Loops
    <2>5. ghost' \in Histories
      BY <1>14, <2>2 DEF SpecRevised, Typed, Histories, Loops
    <2> QED BY <1>14, <2>4, <2>5 DEF SpecRevised, Typed
  <1> QED
    BY <1>1, <1>2, <1>4, <1>5, <1>6, <1>7, <1>8, <1>9, <1>10, <1>11, <1>12, <1>13, <1>14
    DEF Next, Terminal

-----------------------------------------------------------------------------
(***************************************************************************)
(* One verdict of a round                                                  *)
(***************************************************************************)
SameVerdicts == \A r \in Rounds : loop'.rounds[r].verdict = loop.rounds[r].verdict
SameAsked ==
  \A r \in Rounds, source \in Sources :
    <<r, source, "kernel">> \in ghost'.asked <=> <<r, source, "kernel">> \in ghost.asked
SameRouted ==
  loop'.ever = loop.ever /\ loop'.top = loop.top /\ SameVerdicts /\ SameAsked
  /\ loop.raised \subseteq loop'.raised
Given == session.state = "live" /\ session' = [session EXCEPT !.state = "deposited"]

LEMMA LoopFacts ==
  ASSUME Typed
  PROVE  /\ loop.ever \in 0 .. MaxRounds /\ loop.top \in 0 .. MaxRounds
         /\ \A r \in Rounds : r \in 1 .. MaxRounds
         /\ runner.decision.round \in 0 .. MaxRounds /\ runner.decision.source \in Sources
  BY DEF Typed, Loops, Rounds, Runners, Decisions

LEMMA DepositsIs ==
  ASSUME AskInv, NEW stage, Deposits(stage)
  PROVE  /\ Given /\ session.round = loop.ever /\ Unjudged(loop.ever)
         /\ session'.stage = session.stage /\ session'.round = session.round
         /\ session'.state = "deposited"
         /\ runner.pc \notin {"decide", "act", "launch", "repair"}
  BY RoundsOfPositions DEF AskInv, AtTurn, Deposits, Given, Typed, Sessions

LEMMA KeptRouted ==
  ASSUME AskInv, SameRouted
  PROVE  Routed'
PROOF
  <1> USE RoundsOfPositions, LoopFacts
  <1>1. ASSUME NEW r \in Rounds, NEW source \in Sources, <<r, source, "kernel">> \in ghost'.asked
        PROVE  r <= loop'.ever /\ (r = loop'.top => source \in loop'.raised /\ loop'.rounds[r].verdict # "none")
    BY <1>1 DEF AskInv, Routed, SameRouted, SameVerdicts, SameAsked
  <1> QED BY <1>1 DEF AskInv, Routed, SameRouted, SameVerdicts

LEMMA KeptAsk ==
  ASSUME AskInv, Typed', SameRouted, session' = session \/ Given,
         runner' = runner \/ runner'.pc \in {"fail", "attach"}
  PROVE  AskInv'
PROOF
  <1> USE RoundsOfPositions
  <1>1. \A r : Unjudged(r) => Unjudged(r)'
    BY DEF Unjudged, Unasked, SameRouted, SameVerdicts, SameAsked
  <1>2. \A r : Judging(r) => Judging(r)'
    BY DEF Judging, SameRouted, SameVerdicts
  <1>3. \A r \in Rounds : Unasked(r) => Unasked(r)'
    BY DEF Unasked, SameRouted, SameAsked
  <1>4. Deciding'
    <2>1. CASE runner' = runner
      <3>1. runner.decision.source \in Sources
        BY LoopFacts
      <3>2. \A r \in Rounds, source \in Sources :
              <<r, source, "kernel">> \notin ghost.asked => <<r, source, "kernel">> \notin ghost'.asked
        BY DEF SameRouted, SameAsked
      <3>3. loop'.ever = loop.ever /\ runner'.pc = runner.pc /\ runner'.decision = runner.decision
            /\ (Working' <=> Working)
        BY <2>1 DEF SameRouted, Working
      <3> QED BY <1>1, <1>2, <3>1, <3>2, <3>3 DEF AskInv, Deciding, Judging
    <2> QED BY <2>1 DEF Deciding
  <1>5. AtTurn'
    <2>1. session'.stage = session.stage /\ session'.round = session.round
          /\ (session'.state = "live" => session.state = "live")
          /\ (session.state = "ended" => session'.state = "ended")
          /\ (runner.pc \in {"decide", "act", "launch", "repair"} => session' = session)
      BY DEF Given, AskInv, AtTurn, Typed, Sessions
    <2>2. "agent" \in Sources /\ loop'.ever = loop.ever
      BY DEF Sources, SameRouted
    <2>3. \A r \in Rounds : <<r, "agent", "kernel">> \notin ghost.asked => <<r, "agent", "kernel">> \notin ghost'.asked
      BY <2>2 DEF SameRouted, SameAsked
    <2>4. session'.state = "live" => session'.round = loop'.ever /\ Unjudged(loop.ever)'
      BY <1>1, <2>1, <2>2 DEF AskInv, AtTurn
    <2>5. CASE runner' = runner
      BY <1>1, <1>2, <1>3, <2>1, <2>2, <2>3, <2>4, <2>5 DEF AskInv, AtTurn, Working, Judging
    <2> QED BY <2>2, <2>4, <2>5 DEF AtTurn
  <1> QED BY <1>4, <1>5, KeptRouted DEF AskInv

LEMMA IdleAsk ==
  ASSUME Typed', Routed', runner'.pc = "decide", session'.state = "ended"
  PROVE  AskInv'
  BY DEF AskInv, Deciding, AtTurn

LEMMA AskStarts ==
  ASSUME Init PROVE AskInv
PROOF
  <1>1. Typed
    BY LoopInitTypes
  <1>2. Routed
    BY DEF Init, Routed, EmptyRounds
  <1> QED BY <1>1, <1>2 DEF Init, AskInv, Deciding, AtTurn, NoSession

(***************************************************************************)
(* The steps that route nothing.                                           *)
(***************************************************************************)
LEMMA AskOfOthers ==
  ASSUME AskInv, Typed',
         \/ UNCHANGED vars \/ TurnEndsEmpty \/ RunnerDies \/ Escalate \/ ReviseSpec
         \/ \E r \in Rounds : RaiseStraggling(r) \/ LoseStraggling(r)
         \/ \E ask \in open : Guide(ask) \/ Retry(ask) \/ Dismiss(ask)
  PROVE  AskInv'
PROOF
  <1> USE RoundsOfPositions
  <1> SUFFICES SameRouted /\ (session' = session \/ Given) /\ (runner' = runner \/ runner'.pc \in {"fail", "attach"})
    BY KeptAsk
  <1>1. ASSUME loop' = loop, ghost'.asked = ghost.asked PROVE SameRouted
    BY <1>1 DEF SameRouted, SameVerdicts, SameAsked
  <1>2. CASE UNCHANGED vars
    BY <1>1, <1>2 DEF vars
  <1>3. CASE TurnEndsEmpty
    BY <1>1, <1>3, GotoTypes DEF TurnEndsEmpty
  <1>4. CASE RunnerDies
    BY <1>1, <1>4, GotoTypes DEF RunnerDies
  <1>5. CASE Escalate
    <2>1. PICK stage \in Roles : Deposits(stage)
      BY <1>5 DEF Escalate
    <2>2. session.stage \in Roles /\ session.round \in Rounds
      BY <2>1 DEF Deposits, Typed, Sessions
    <2>3. AppendAsk(session.stage, "agent", session.round) /\ runner' = runner /\ ghost' = ghost
      BY <1>5 DEF Escalate
    <2>4. loop'.ever = loop.ever /\ loop'.top = loop.top /\ loop'.rounds = loop.rounds
          /\ loop.raised \subseteq loop'.raised
      BY <2>2, <2>3, AskTypes DEF Sources
    <2>5. Given
      BY <2>1, DepositsIs
    <2> QED BY <2>3, <2>4, <2>5 DEF SameRouted, SameVerdicts, SameAsked
  <1>6. CASE ReviseSpec
    BY <1>1, <1>6 DEF ReviseSpec
  <1>7. ASSUME NEW r \in Rounds, RaiseStraggling(r)
        PROVE  SameRouted /\ session' = session /\ runner' = runner
    <2>1. AppendAsk("reviewer", "agent", r) /\ AskRecorded(r, "agent", "agent")
          /\ UNCHANGED <<runner, session>>
      BY <1>7 DEF RaiseStraggling
    <2>2. loop'.ever = loop.ever /\ loop'.top = loop.top /\ loop'.rounds = loop.rounds
          /\ loop.raised \subseteq loop'.raised
      BY <2>1, AskTypes DEF Sources, Roles
    <2>3. ghost'.asked = ghost.asked \cup {<<r, "agent", "agent">>}
      BY <2>1, RecordedTypes DEF Sources
    <2>4. SameAsked
      BY <2>3 DEF SameAsked
    <2> QED BY <2>1, <2>2, <2>4 DEF SameRouted, SameVerdicts
  <1>8. ASSUME NEW r \in Rounds, LoseStraggling(r)
        PROVE  SameRouted /\ session' = session /\ runner' = runner
    BY <1>1, <1>8 DEF LoseStraggling
  <1>9. ASSUME NEW ask \in open, Guide(ask) \/ Retry(ask)
        PROVE  SameRouted /\ session' = session /\ runner' = runner
    <2>1. AnsweredWithCeiling(ask)
      BY <1>9 DEF Guide, Retry
    <2>2. loop'.ever = loop.ever /\ loop'.top = loop.top /\ loop'.rounds = loop.rounds
          /\ loop'.raised = loop.raised /\ ghost'.asked = ghost.asked
      BY <2>1, CeilingTypes
    <2>3. UNCHANGED <<runner, session>>
      BY <2>1 DEF AnsweredWithCeiling
    <2> QED BY <2>2, <2>3 DEF SameRouted, SameVerdicts, SameAsked
  <1>10. ASSUME NEW ask \in open, Dismiss(ask)
         PROVE  SameRouted /\ session' = session /\ runner' = runner
    <2>1. UNCHANGED <<loop, runner, session>> /\ ghost'.asked = ghost.asked
      BY <1>10 DEF Dismiss, Typed, Histories
    <2> QED BY <1>1, <2>1
  <1> QED BY <1>2, <1>3, <1>4, <1>5, <1>6, <1>7, <1>8, <1>9, <1>10

(***************************************************************************)
(* A decision concerns a round without a verdict, or asks what the kernel  *)
(* has not asked of a verdict: raised holds what was asked since.          *)
(***************************************************************************)
LEMMA AskOfDecide ==
  ASSUME AskInv, Typed', Decide
  PROVE  AskInv'
PROOF
  <1> USE RoundsOfPositions
  <1>1. /\ Decision.kind \notin {"wait", "approved"} /\ Decision.round \in Rounds
        /\ runner.pc = "decide" /\ runner'.pc = "act" /\ runner'.decision = Decision
        /\ UNCHANGED <<loop, session, ghost>>
    BY DEF Decide
  <1>2. TypeOK /\ Routed /\ session.state = "ended"
    BY <1>1, TypedIs DEF AskInv, AtTurn
  <1>3. loop.ever \in 0 .. MaxRounds
    BY LoopFacts
  <1>4. loop.ever + 1 \in Rounds => Unjudged(loop.ever + 1)
    BY <1>2, <1>3 DEF Unjudged, Unasked, Routed
  <1>5. CASE Decision \in {RunProducer(loop.ever + 1)}
    <2>1. Decision.kind = "producer" /\ Decision.round = loop.ever + 1
      BY <1>5 DEF RunProducer
    <2>2. Deciding'
      BY <1>1, <1>4, <2>1 DEF Deciding, Working, Roles, Unjudged, Unasked
    <2> QED BY <1>1, <1>2, <2>2 DEF AskInv, AtTurn, Routed
  <1>6. CASE /\ loop.top \in Rounds /\ loop.rounds[loop.top].verdict = "none"
             /\ Decision \in {RunReviewer(loop.top), RunProducer(loop.top)}
    <2>1. loop.top = loop.ever
      BY <1>2, <1>6 DEF Routed, Rounds
    <2>2. Unjudged(loop.ever)
      BY <1>2, <1>6, <2>1 DEF Unjudged, Unasked, Routed
    <2>3. Decision.kind \in Roles /\ Decision.round = loop.ever
      BY <1>6, <2>1 DEF RunProducer, RunReviewer, Roles
    <2>4. Deciding'
      BY <1>1, <2>2, <2>3 DEF Deciding, Working, Unjudged, Unasked
    <2> QED BY <1>1, <1>2, <2>4 DEF AskInv, AtTurn, Routed
  <1>7. CASE /\ loop.top \in Rounds /\ loop.rounds[loop.top].verdict # "none"
             /\ \E source \in Sources \ loop.raised : Decision = Raise(source, loop.top)
    <2>1. PICK source \in Sources \ loop.raised : Decision = Raise(source, loop.top)
      BY <1>7
    <2>2. loop.top = loop.ever
      BY <1>2, <1>7 DEF Routed, Rounds
    <2>3. Decision.kind = "raise" /\ Decision.round = loop.ever /\ Decision.source = source
      BY <2>1, <2>2 DEF Raise
    <2>4. <<loop.ever, source, "kernel">> \notin ghost.asked
      BY <1>2, <1>7, <2>1, <2>2 DEF Routed
    <2>5. Judging(loop.ever)
      BY <1>7, <2>2 DEF Judging
    <2>6. Deciding'
      BY <1>1, <2>3, <2>4, <2>5 DEF Deciding, Working, Roles, Judging
    <2> QED BY <1>1, <1>2, <2>6 DEF AskInv, AtTurn, Routed
  <1>8. CASE loop.top \in Rounds /\ Decision = RunProducer(loop.top + 1)
    <2>1. loop.top = loop.ever
      BY <1>2, <1>8 DEF Routed, Rounds
    <2> QED BY <1>5, <1>8, <2>1
  <1> QED BY <1>1, <1>2, <1>5, <1>6, <1>7, <1>8, DecisionIs

(***************************************************************************)
(* Carrying it out: a question, a start, a session.                        *)
(***************************************************************************)
LEMMA AskOfRaise ==
  ASSUME AskInv, Typed', NEW source \in Sources,
         Judging(loop.ever), <<loop.ever, source, "kernel">> \notin ghost.asked,
         AppendAsk("reviewer", source, loop.ever), AskRecorded(loop.ever, source, "kernel"),
         session.state = "ended", session' = session, runner'.pc = "decide"
  PROVE  AskInv' /\ ghost'.asked # ghost.asked
PROOF
  <1>1. loop.ever \in Rounds /\ Typed
    BY RoundsOfPositions DEF Judging
  <1>2. loop'.ever = loop.ever /\ loop'.top = loop.top /\ loop'.rounds = loop.rounds
        /\ loop'.raised = loop.raised \cup {source}
    BY <1>1, AskTypes DEF Roles
  <1>3. ghost'.asked = ghost.asked \cup {<<loop.ever, source, "kernel">>}
    BY <1>1, RecordedTypes
  <1>4. loop.ever <= loop.ever
    BY <1>1 DEF Rounds
  <1>5. Routed'
    BY <1>2, <1>3, <1>4 DEF AskInv, Routed, Judging
  <1> QED BY <1>3, <1>5, IdleAsk

LEMMA AskOfStart ==
  ASSUME AskInv, Typed', runner.pc = "act", Working, loop' = Touched(runner.decision.round),
         Goto("launch"), UNCHANGED <<session, ghost>>
  PROVE  AskInv'
PROOF
  <1> DEFINE r == runner.decision.round
  <1>1. r \in Rounds /\ Unjudged(r) /\ r \in {loop.ever, loop.ever + 1} /\ session.state = "ended" /\ Routed
    BY RoundsOfPositions DEF AskInv, Deciding, AtTurn
  <1>2. loop.ever \in 0 .. MaxRounds /\ loop.top \in {0, loop.ever} /\ r \in 1 .. MaxRounds
    BY <1>1, RoundsOfPositions, LoopFacts DEF Routed
  <1>3. loop'.top = Newest(r, loop.top) /\ loop'.ever = Newest(r, loop.ever) /\ loop'.rounds = loop.rounds
    BY <1>1, RoundsOfPositions, TouchedIs DEF Typed
  <1>4. runner'.pc = "launch" /\ runner'.decision = runner.decision
    BY RoundsOfPositions, GotoTypes
  <1> HIDE DEF r
  <1>5. loop'.top = r /\ loop'.ever = r
    BY <1>1, <1>2, <1>3 DEF Newest
  <1>6. Unjudged(r)'
    BY <1>1, <1>3, <1>4 DEF Unjudged, Unasked, r
  <1>7. Routed'
    <2>1. \A q \in Rounds : q > r => q > loop.ever
      BY <1>1, <1>2 DEF Rounds
    <2>2. \A q \in Rounds : q <= loop.ever => q <= r
      BY <1>1, <1>2 DEF Rounds
    <2>3. \A source \in Sources : <<r, source, "kernel">> \notin ghost.asked
      BY <1>1 DEF Unjudged, Unasked
    <2> QED BY <1>1, <1>3, <1>5, <2>1, <2>2, <2>3 DEF Routed
  <1>8. AtTurn'
    <2>1. Working' /\ runner'.decision.round = loop'.ever /\ Unjudged(loop.ever)'
      BY <1>4, <1>5, <1>6 DEF Working, r, Unjudged, Unasked
    <2> QED BY <1>1, <1>4, <2>1 DEF AtTurn
  <1> QED BY <1>4, <1>7, <1>8 DEF AskInv, Deciding

LEMMA AskOfSession ==
  ASSUME AskInv, Typed', StartSession
  PROVE  AskInv'
PROOF
  <1> USE RoundsOfPositions
  <1>1. /\ runner.pc = "launch" /\ runner'.pc = "turn" /\ runner'.decision = runner.decision
        /\ session'.stage = runner.decision.kind /\ session'.round = runner.decision.round
        /\ session'.state = "live" /\ loop' = loop
    BY GotoTypes DEF StartSession
  <1>2. ghost'.asked = ghost.asked
    BY DEF StartSession, Typed, Histories
  <1>3. Working /\ runner.decision.round = loop.ever /\ Unjudged(loop.ever)
    BY <1>1 DEF AskInv, AtTurn
  <1>4. Unjudged(loop.ever)' /\ Unasked(loop.ever)' /\ Working' /\ loop.ever \in Rounds
    BY <1>1, <1>2, <1>3 DEF Unjudged, Unasked, Working
  <1>5. AtTurn'
    BY <1>1, <1>3, <1>4 DEF AtTurn
  <1>6. Routed'
    BY <1>1, <1>2 DEF AskInv, Routed
  <1> QED BY <1>1, <1>5, <1>6 DEF AskInv, Deciding

(***************************************************************************)
(* A session is over, or has given its terminal.                           *)
(***************************************************************************)
LEMMA AskOfEnds ==
  ASSUME AskInv, Typed', TurnEnds \/ FailPhase \/ EndOrphan
  PROVE  AskInv'
PROOF
  <1> USE RoundsOfPositions
  <1>1. session'.state = "ended" /\ loop' = loop /\ ghost' = ghost
    BY DEF TurnEnds, FailPhase, EndOrphan, Typed, Sessions
  <1>2. Routed'
    BY <1>1 DEF AskInv, Routed
  <1>3. CASE runner'.pc = "decide"
    BY <1>1, <1>2, <1>3, IdleAsk
  <1>4. CASE runner'.pc # "decide"
    <2>1. TurnEnds
      BY <1>4, GotoTypes DEF FailPhase, EndOrphan
    <2>2. /\ runner.pc = "turn" /\ runner'.pc = "repair" /\ runner'.decision = runner.decision
          /\ loop.rounds[session.round].verdict = "escalate"
      BY <1>4, <2>1, GotoTypes DEF TurnEnds
    <2>3. Working /\ runner.decision.round = loop.ever /\ session.round = loop.ever
          /\ loop.ever \in Rounds /\ Unasked(loop.ever)
      BY <2>2 DEF AskInv, AtTurn
    <2>4. Judging(loop.ever)' /\ <<loop.ever, "agent", "kernel">> \notin ghost.asked
      BY <1>1, <2>2, <2>3 DEF Judging, Unasked, Sources
    <2>5. AtTurn'
      BY <1>1, <2>2, <2>3, <2>4 DEF AtTurn, Working
    <2> QED BY <1>2, <2>2, <2>5 DEF AskInv, Deciding
  <1> QED BY <1>3, <1>4

LEMMA AskOfDeposit ==
  ASSUME AskInv, Typed', NEW stage, Deposits(stage),
         loop'.ever = loop.ever, loop'.top = loop.ever,
         \A r \in Rounds : r # loop.ever => loop'.rounds[r].verdict = loop.rounds[r].verdict,
         runner' = runner, ghost' = ghost
  PROVE  AskInv'
PROOF
  <1>1. /\ session.round = loop.ever /\ Unjudged(loop.ever)
        /\ session'.stage = session.stage /\ session'.round = session.round
        /\ session'.state = "deposited" /\ runner.pc \notin {"decide", "act", "launch", "repair"}
    BY DepositsIs
  <1>2. loop.ever \in Rounds /\ Unasked(loop.ever) /\ Routed /\ Typed
    BY <1>1 DEF Unjudged, AskInv
  <1>3. Routed'
    <2>1. \A r \in Rounds : r > loop.ever => r # loop.ever
      BY <1>2 DEF Rounds
    <2> QED BY <1>2, <2>1 DEF Routed, Unasked
  <1>4. AtTurn'
    BY <1>1, <1>2 DEF AskInv, AtTurn, Working, Unasked
  <1> QED BY <1>1, <1>3, <1>4 DEF AskInv, Deciding

LEMMA TerminalIs ==
  ASSUME AskInv, Terminal
  PROVE  /\ \E stage : Deposits(stage)
         /\ loop'.ever = loop.ever /\ loop'.top = loop.ever /\ loop'.ceiling = loop.ceiling
         /\ \A r \in Rounds : r # loop.ever => loop'.rounds[r] = loop.rounds[r]
         /\ \/ loop'.raised = {}
            \/ loop'.rounds[loop.ever].verdict = "none" /\ loop'.raised = loop.raised
         /\ UNCHANGED <<open, guidance, dismissed, awaiting, runner, used, ghost>>
PROOF
  <1> DEFINE r == session.round
  <1>1. PICK stage : Deposits(stage)
    BY DEF Terminal, Complete, Approve, Revise, VerdictEscalate
  <1>2. r = loop.ever /\ Unjudged(r) /\ loop \in Loops /\ loop.top \in {0, loop.ever}
    BY <1>1, DepositsIs, RoundsOfPositions DEF AskInv, Typed, Routed
  <1>3. r \in Rounds /\ loop.rounds[r].verdict = "none"
    BY <1>2 DEF Unjudged
  <1>4. Newest(r, loop.top) = loop.ever /\ Newest(r, loop.ever) = loop.ever
    BY <1>2, <1>3 DEF Newest, Rounds
  <1>5. CASE Complete
    <2> DEFINE t == Touched(r)
    <2>1. t \in Loops /\ t.top = loop.ever /\ t.ever = loop.ever /\ t.rounds = loop.rounds
          /\ t.ceiling = loop.ceiling /\ t.raised = loop.raised
      BY <1>2, <1>3, <1>4, TouchedIs
    <2>2. loop' = [t EXCEPT !.rounds[r].completed = TRUE]
      BY <1>5 DEF Complete
    <2> HIDE DEF t, r
    <2>3. loop'.top = loop.ever /\ loop'.ever = loop.ever /\ loop'.ceiling = loop.ceiling
          /\ loop'.raised = loop.raised
          /\ loop'.rounds = [t.rounds EXCEPT ![r].completed = TRUE]
      BY <2>1, <2>2 DEF Loops
    <2>4. /\ \A q \in Rounds : q # r => loop'.rounds[q] = loop.rounds[q]
          /\ loop'.rounds[r].verdict = loop.rounds[r].verdict
      BY <1>3, <2>1, <2>3 DEF Loops, RoundStates
    <2> QED BY <1>1, <1>2, <1>3, <1>5, <2>3, <2>4 DEF Complete
  <1>6. CASE ~Complete
    <2>1. PICK verdict \in {"approve", "revise", "escalate"}, mark \in NoMark .. MaxRounds :
            loop' = Judged(r, verdict, mark)
      <3>1. CASE Approve \/ VerdictEscalate
        BY <3>1, LoopAssumption DEF Approve, VerdictEscalate, NoMark
      <3>2. CASE Revise
        <4>1. 0 .. r - 1 \subseteq NoMark .. MaxRounds
          BY <1>3, LoopAssumption DEF NoMark, Rounds
        <4> QED BY <3>2, <4>1 DEF Revise
      <3> QED BY <1>6, <3>1, <3>2 DEF Terminal
    <2>2. UNCHANGED <<open, guidance, dismissed, awaiting, runner, used, ghost>>
      BY <1>6 DEF Terminal, Approve, Revise, VerdictEscalate
    <2> HIDE DEF r
    <2>3. loop'.top = loop.ever /\ loop'.ever = loop.ever /\ loop'.raised = {} /\ loop'.ceiling = loop.ceiling
          /\ \A q \in Rounds : q # r => loop'.rounds[q] = loop.rounds[q]
      BY <1>2, <1>3, <1>4, <2>1, JudgedIs
    <2> QED BY <1>1, <1>2, <2>2, <2>3
  <1> QED BY <1>5, <1>6

LEMMA RevisedIs ==
  ASSUME Typed, SpecRevised
  PROVE  /\ loop' = [ever |-> loop.ever, top |-> 0, rounds |-> EmptyRounds, raised |-> {},
                     ceiling |-> MaxReviewRounds]
         /\ ghost' = [base |-> loop.ever, granted |-> MaxReviewRounds, answers |-> 0,
                      asked |-> ghost.asked, heard |-> ghost.heard]
         /\ UNCHANGED <<open, guidance, runner, session>>
  BY DEF SpecRevised, Typed, Loops, Histories

LEMMA AskOfRevised ==
  ASSUME AskInv, Typed', SpecRevised
  PROVE  AskInv'
PROOF
  <1> USE RoundsOfPositions
  <1>1. /\ loop'.ever = loop.ever /\ loop'.top = 0 /\ loop'.rounds = EmptyRounds
        /\ ghost'.asked = ghost.asked /\ runner' = runner /\ session' = session
    BY RevisedIs
  <1>2. \A r : Unjudged(r) => Unjudged(r)'
    BY <1>1 DEF Unjudged, Unasked, EmptyRounds
  <1>3. \A r : Judging(r) => Judging(r)'
    BY <1>1 DEF Judging, Rounds
  <1>4. Deciding'
    BY <1>1, <1>2, <1>3 DEF AskInv, Deciding, Working, Judging
  <1>5. AtTurn'
    BY <1>1, <1>2, <1>3 DEF AskInv, AtTurn, Working, Unasked, Judging
  <1>6. Routed'
    <2>1. \A r \in Rounds : r # 0
      BY DEF Rounds
    <2> QED BY <1>1, <2>1 DEF AskInv, Routed, EmptyRounds
  <1> QED BY <1>4, <1>5, <1>6 DEF AskInv

LEMMA AskSteps == AskInv /\ [Next]_vars => AskInv'
PROOF
  <1> SUFFICES ASSUME AskInv, [Next]_vars PROVE AskInv' OBVIOUS
  <1> USE RoundsOfPositions
  <1>1. Typed'
    BY RunnerTypes, OtherTypes
  <1>2. CASE Decide
    BY <1>1, <1>2, AskOfDecide
  <1>3. CASE RaiseEscalation
    <2>1. Judging(loop.ever) /\ <<loop.ever, runner.decision.source, "kernel">> \notin ghost.asked
          /\ runner.decision.round = loop.ever /\ session.state = "ended" /\ runner.decision.source \in Sources
      BY <1>3, LoopFacts DEF RaiseEscalation, AskInv, Deciding, AtTurn, Working, Roles
    <2>2. AppendAsk("reviewer", runner.decision.source, loop.ever)
          /\ AskRecorded(loop.ever, runner.decision.source, "kernel")
          /\ session' = session /\ runner'.pc = "decide"
      BY <1>3, <2>1, GotoTypes DEF RaiseEscalation
    <2> QED BY <1>1, <2>1, <2>2, AskOfRaise
  <1>4. CASE StartProducer \/ StartReviewer
    BY <1>1, <1>4, AskOfStart DEF StartProducer, StartReviewer, Working, Roles
  <1>5. CASE StartSession
    BY <1>1, <1>5, AskOfSession
  <1>6. CASE RepairEscalateGap
    <2>1. Judging(loop.ever) /\ <<loop.ever, "agent", "kernel">> \notin ghost.asked
          /\ runner.decision.round = loop.ever /\ session.state = "ended" /\ "agent" \in Sources
      BY <1>6 DEF RepairEscalateGap, AskInv, AtTurn, Sources
    <2>2. AppendAsk("reviewer", "agent", loop.ever) /\ AskRecorded(loop.ever, "agent", "kernel")
          /\ session' = session /\ runner'.pc = "decide"
      BY <1>6, <2>1, GotoTypes DEF RepairEscalateGap
    <2> QED BY <1>1, <2>1, <2>2, AskOfRaise
  <1>7. CASE TurnEnds \/ FailPhase \/ EndOrphan
    BY <1>1, <1>7, AskOfEnds
  <1>8. CASE Terminal
    BY <1>1, <1>8, TerminalIs, AskOfDeposit
  <1>9. CASE SpecRevised
    BY <1>1, <1>9, AskOfRevised
  <1> QED
    BY <1>1, <1>2, <1>3, <1>4, <1>5, <1>6, <1>7, <1>8, <1>9, AskOfOthers DEF Next, RunnerStep

(***************************************************************************)
(* The inductive invariant of the review loop: at every position of the    *)
(* runner, what the kernel has asked of which round, and of which rounds   *)
(* it has a verdict.                                                       *)
(***************************************************************************)
THEOREM LoopInductive == Spec => []AskInv
PROOF
  <1>1. Init => AskInv BY AskStarts
  <1> QED BY <1>1, AskSteps, PTL DEF Spec

(***************************************************************************)
(* Types: among them that every round the runner decides, starts or asks   *)
(* about exists, and that a ceiling leaves a round to spend.               *)
(***************************************************************************)
THEOREM LoopTypeCorrect == Spec => []TypeOK
PROOF
  <1>1. AskInv => TypeOK BY TypedIs DEF AskInv
  <1> QED BY <1>1, LoopInductive, PTL

(***************************************************************************)
(* decideLoop raises an escalation, and the runner repairs the one that a  *)
(* verdict lacks, only when the kernel has not asked that of that round:   *)
(* no death of the runner, no answer and no late append of an agent makes  *)
(* it ask a human the same question twice.                                 *)
(***************************************************************************)
THEOREM AsksOncePerVerdict == Spec => KernelAsksOnce
PROOF
  <1>1. AskInv /\ [Next]_vars => [RaiseEscalation \/ RepairEscalateGap => ghost'.asked # ghost.asked]_vars
    <2> SUFFICES ASSUME AskInv, [Next]_vars, RaiseEscalation \/ RepairEscalateGap
                 PROVE  ghost'.asked # ghost.asked
      OBVIOUS
    <2> USE RoundsOfPositions
    <2>1. AskInv'
      BY AskSteps
    <2>2. ASSUME RaiseEscalation PROVE ghost'.asked # ghost.asked
      <3>1. Judging(loop.ever) /\ <<loop.ever, runner.decision.source, "kernel">> \notin ghost.asked
            /\ runner.decision.round = loop.ever /\ runner.decision.source \in Sources
        BY <2>2, LoopFacts DEF RaiseEscalation, AskInv, Deciding, Working, Roles
      <3>2. AskRecorded(loop.ever, runner.decision.source, "kernel")
        BY <2>2, <3>1 DEF RaiseEscalation
      <3> QED BY <3>1, <3>2, RecordedTypes DEF Judging
    <2>3. ASSUME RepairEscalateGap PROVE ghost'.asked # ghost.asked
      <3>1. Judging(loop.ever) /\ <<loop.ever, "agent", "kernel">> \notin ghost.asked
            /\ runner.decision.round = loop.ever
        BY <2>3 DEF RepairEscalateGap, AskInv, AtTurn
      <3>2. AskRecorded(loop.ever, "agent", "kernel")
        BY <2>3, <3>1 DEF RepairEscalateGap
      <3> QED BY <3>1, <3>2, RecordedTypes DEF Judging, Sources
    <2> QED BY <2>2, <2>3
  <1> QED BY <1>1, LoopInductive, PTL DEF Spec, KernelAsksOnce

-----------------------------------------------------------------------------
(***************************************************************************)
(* Rounds                                                                  *)
(***************************************************************************)
LEMMA GhostFacts ==
  ASSUME Typed
  PROVE  /\ ghost.base \in 0 .. MaxRounds /\ ghost.granted \in Nat /\ ghost.answers \in Nat
         /\ loop.ceiling \in Int /\ loop.ceiling >= 1
PROOF
  <1>1. Max({MaxReviewRounds, MaxCeiling}) \in Int
    BY LoopAssumption, MaxOfTwo
  <1> QED BY <1>1 DEF Typed, Histories, Loops

LEMMA RoundsStart ==
  ASSUME Init PROVE RoundInv
  BY LoopAssumption DEF Init, RoundInv, Counts, Paid, Rounds

(***************************************************************************)
(* The verdicts since the last revision are at least the rounds since.     *)
(***************************************************************************)
LEMMA ReviewedSince ==
  ASSUME AskInv, Counts, loop.ever \in Rounds, loop.rounds[loop.ever].verdict # "none"
  PROVE  loop.ever - ghost.base <= Cardinality(Reviewed)
PROOF
  <1> DEFINE since == ghost.base + 1 .. loop.ever
  <1>1. loop.ever \in 0 .. MaxRounds /\ ghost.base \in 0 .. MaxRounds /\ MaxRounds \in Nat
        /\ ghost.base <= loop.ever
    BY RoundsOfPositions, LoopFacts, GhostFacts, LoopAssumption DEF Counts
  <1>2. since \subseteq Reviewed
    <2> SUFFICES ASSUME NEW r \in since PROVE r \in Reviewed OBVIOUS
    <2>1. r \in Rounds /\ ghost.base < r /\ (r < loop.ever \/ r = loop.ever)
      BY <1>1 DEF Rounds
    <2> QED BY <2>1 DEF Counts, Reviewed
  <1>3. IsFiniteSet(since) /\ Cardinality(since) = loop.ever - ghost.base
    <2>1. IsFiniteSet(ghost.base + 1 .. loop.ever)
          /\ Cardinality(ghost.base + 1 .. loop.ever) =
               IF ghost.base + 1 > loop.ever THEN 0 ELSE loop.ever - (ghost.base + 1) + 1
      <3> DEFINE first == ghost.base + 1
                 last == loop.ever
      <3>1. first \in Int /\ last \in Int
        BY <1>1
      <3> HIDE DEF first, last
      <3>2. IsFiniteSet(first .. last)
            /\ Cardinality(first .. last) = IF first > last THEN 0 ELSE last - first + 1
        BY <3>1, FS_Interval
      <3> QED BY <3>2 DEF first, last
    <2> QED BY <1>1, <2>1
  <1>4. IsFiniteSet(Reviewed)
    <2>1. IsFiniteSet(Rounds)
      BY LoopAssumption, FS_Interval DEF Rounds
    <2>2. Reviewed \subseteq Rounds
      BY DEF Reviewed
    <2> QED BY <2>1, <2>2, FS_Subset
  <1> HIDE DEF since
  <1>5. Cardinality(since) <= Cardinality(Reviewed)
    BY <1>2, <1>3, <1>4, FS_Subset
  <1> QED BY <1>3, <1>5

LEMMA KeptRounds ==
  ASSUME Typed, Typed', RoundInv,
         loop'.ever = loop.ever, loop'.top = 0 => loop.top = 0,
         \A r \in Rounds : loop.rounds[r].verdict # "none" => loop'.rounds[r].verdict # "none",
         ghost'.base = ghost.base, ghost'.granted >= ghost.granted, ghost'.answers >= ghost.answers,
         loop'.ceiling <= ghost'.granted,
         loop.ever \in Rounds /\ loop'.rounds[loop.ever].verdict # "none" /\ loop'.raised # {} =>
           open' # {} \/ awaiting' \/ Spare',
         runner' = runner \/ runner'.pc # "act"
  PROVE  RoundInv'
PROOF
  <1>1. /\ ghost.base \in Int /\ ghost.granted \in Int /\ ghost.answers \in Int
        /\ ghost'.granted \in Int /\ ghost'.answers \in Int /\ loop.ever \in Int
    BY GhostFacts, LoopFacts DEF Typed, Histories
  <1>2. loop.ever - ghost.base <= ghost.granted + ghost.answers
    BY DEF RoundInv, Paid
  <1>3. loop'.ever - ghost'.base <= ghost'.granted + ghost'.answers
    BY <1>1, <1>2
  <1>4. Spare => Spare'
    BY <1>1 DEF Spare
  <1>5. Counts'
    BY DEF RoundInv, Counts
  <1>6. runner'.pc = "act" /\ runner'.decision.kind = "producer" /\ runner'.decision.round > loop'.ever =>
          /\ Spare'
          /\ loop'.ever > ghost'.base => loop'.rounds[loop'.ever].verdict # "none"
    <2>1. loop.ever \in Rounds \/ ~(loop.ever > ghost.base)
      BY GhostFacts, LoopFacts DEF Rounds
    <2> QED BY <1>4, <2>1 DEF RoundInv, Paid
  <1> QED BY <1>3, <1>5, <1>6 DEF RoundInv, Paid

(***************************************************************************)
(* A round is decided on while the cap, counting the verdicts since the    *)
(* last revision, still allows it, or on an answer to what was raised      *)
(* after the newest verdict.                                               *)
(***************************************************************************)
LEMMA RoundsOfDecide ==
  ASSUME AskInv, RoundInv, Typed', Decide
  PROVE  RoundInv'
PROOF
  <1> USE RoundsOfPositions, LoopFacts, GhostFacts
  <1>1. /\ Decision.kind \notin {"wait", "approved"} /\ runner'.pc = "act" /\ runner'.decision = Decision
        /\ UNCHANGED <<loop, open, awaiting, ghost>>
    BY DEF Decide
  <1>2. loop.top \in {0, loop.ever} /\ TypeOK
    BY TypedIs DEF AskInv, Routed
  <1>3. ASSUME Decision.kind = "producer", Decision.round > loop.ever
        PROVE  Spare /\ (loop.ever > ghost.base => loop.rounds[loop.ever].verdict # "none")
    <2>1. CASE loop.top = 0
      BY <2>1, <1>2 DEF RoundInv, Counts, Spare
    <2>2. CASE /\ loop.top \in Rounds
               /\ Decision \in {RunReviewer(loop.top), RunProducer(loop.top)}
      <3>1. loop.top = loop.ever /\ Decision.round = loop.ever
        BY <1>2, <2>2 DEF Rounds, RunReviewer, RunProducer
      <3> QED BY <1>3, <3>1
    <2>3. CASE /\ loop.top \in Rounds /\ loop.rounds[loop.top].verdict # "none"
               /\ loop.raised # {} \/ Cardinality(Reviewed) < loop.ceiling
      <3>1. loop.top = loop.ever
        BY <1>2, <2>3 DEF Rounds
      <3>2. open = {} /\ ~awaiting
        BY <1>1, <1>2, DecisionIs
      <3>3. CASE loop.raised # {}
        BY <2>3, <3>1, <3>2, <3>3 DEF RoundInv, Paid
      <3>4. CASE Cardinality(Reviewed) < loop.ceiling
        <4>1. loop.ever - ghost.base <= Cardinality(Reviewed) /\ loop.ceiling <= ghost.granted
          BY <2>3, <3>1, ReviewedSince DEF RoundInv, Counts
        <4>2. Cardinality(Reviewed) \in Int
          <5>1. IsFiniteSet(Rounds)
            BY LoopAssumption, FS_Interval DEF Rounds
          <5>2. Reviewed \subseteq Rounds
            BY DEF Reviewed
          <5> QED BY <5>1, <5>2, FS_Subset, FS_CardinalityType
        <4>3. Spare
          <5>1. loop.ever \in Int /\ ghost.base \in Int /\ ghost.granted \in Int
                /\ ghost.answers \in Nat /\ loop.ceiling \in Int
            OBVIOUS
          <5> QED BY <3>4, <4>1, <4>2, <5>1 DEF Spare
        <4> QED BY <2>3, <3>1, <4>3
      <3> QED BY <2>3, <3>3, <3>4
    <2>4. CASE \E source \in Sources \ loop.raised : Decision = Raise(source, loop.top)
      BY <1>3, <2>4 DEF Raise
    <2> QED BY <1>1, <1>2, <2>1, <2>2, <2>3, <2>4, DecisionIs
  <1>4. Counts'
    BY <1>1 DEF RoundInv, Counts
  <1>5. Paid'
    BY <1>1, <1>3 DEF RoundInv, Paid, Spare
  <1> QED BY <1>4, <1>5 DEF RoundInv

LEMMA RoundsOfStart ==
  ASSUME AskInv, RoundInv, Typed', runner.pc = "act", Working,
         loop' = Touched(runner.decision.round), Goto("launch"), UNCHANGED ghost
  PROVE  RoundInv'
PROOF
  <1> DEFINE r == runner.decision.round
  <1> USE RoundsOfPositions, LoopFacts, GhostFacts
  <1>1. r \in Rounds /\ Unjudged(r) /\ r \in {loop.ever, loop.ever + 1}
        /\ (r = loop.ever + 1 => runner.decision.kind = "producer")
    BY DEF AskInv, Deciding, Working
  <1>2. /\ loop'.top = Newest(r, loop.top) /\ loop'.ever = Newest(r, loop.ever)
        /\ loop'.rounds = loop.rounds /\ loop'.ceiling = loop.ceiling
    BY <1>1, TouchedIs DEF Typed
  <1>3. loop.top \in {0, loop.ever} /\ runner'.pc = "launch"
    BY GotoTypes DEF AskInv, Routed
  <1>4. loop'.top = r /\ loop'.ever = r
    BY <1>1, <1>2, <1>3 DEF Newest, Rounds
  <1>5. r \in Int /\ r # 0 /\ loop.rounds[r].verdict = "none"
    BY <1>1 DEF Unjudged, Rounds
  <1>6. CASE r = loop.ever
    <2>1. Counts'
      BY <1>2, <1>4, <1>5, <1>6 DEF RoundInv, Counts
    <2>2. Paid'
      BY <1>2, <1>3, <1>4, <1>5, <1>6 DEF RoundInv, Paid
    <2> QED BY <2>1, <2>2 DEF RoundInv
  <1>7. CASE r = loop.ever + 1
    <2>1. Spare /\ (loop.ever > ghost.base => loop.rounds[loop.ever].verdict # "none")
      <3>1. r > loop.ever /\ runner.decision.kind = "producer"
        BY <1>1, <1>7
      <3> QED BY <3>1 DEF RoundInv, Paid
    <2>2. \A q \in Rounds : q < r => q < loop.ever \/ q = loop.ever
      BY <1>7 DEF Rounds
    <2>3. \A q \in Rounds : ghost.base < q /\ q < r => loop.rounds[q].verdict # "none"
      <3> SUFFICES ASSUME NEW q \in Rounds, ghost.base < q, q < r PROVE loop.rounds[q].verdict # "none"
        OBVIOUS
      <3> QED BY <2>1, <2>2 DEF RoundInv, Counts
    <2>4. Counts'
      <3>1. ghost.base <= loop.ever /\ loop.ceiling <= ghost.granted /\ ghost.base <= r
        BY <1>7 DEF RoundInv, Counts
      <3> QED BY <1>2, <1>4, <1>5, <2>3, <3>1 DEF Counts
    <2>5. r - ghost.base <= ghost.granted + ghost.answers
      BY <1>7, <2>1 DEF Spare
    <2>6. Paid'
      BY <1>2, <1>3, <1>4, <1>5, <2>5 DEF Paid
    <2> QED BY <2>4, <2>6 DEF RoundInv
  <1> QED BY <1>1, <1>6, <1>7

(***************************************************************************)
(* A question is open until it is answered, and an answer pays a round.    *)
(***************************************************************************)
LEMMA RoundsOfAsk ==
  ASSUME AskInv, RoundInv, Typed', NEW stage \in Roles, NEW source \in Sources, NEW r \in Rounds,
         AppendAsk(stage, source, r), ghost'.base = ghost.base, ghost'.granted = ghost.granted,
         ghost'.answers = ghost.answers, runner' = runner \/ runner'.pc # "act"
  PROVE  RoundInv'
PROOF
  <1>1. Typed
    BY RoundsOfPositions
  <1>2. loop'.ever = loop.ever /\ loop'.top = loop.top /\ loop'.rounds = loop.rounds
        /\ loop'.ceiling = loop.ceiling /\ open' # {}
    BY <1>1, AskTypes
  <1>3. ghost.granted \in Nat /\ ghost.answers \in Nat /\ loop.ceiling <= ghost.granted
    BY <1>1, GhostFacts DEF RoundInv, Counts
  <1> QED BY <1>1, <1>2, <1>3, KeptRounds

LEMMA RoundsOfAnswer ==
  ASSUME AskInv, RoundInv, Typed', NEW ask \in open, Guide(ask) \/ Retry(ask) \/ Dismiss(ask)
  PROVE  RoundInv'
PROOF
  <1> USE RoundsOfPositions, GhostFacts
  <1>1. /\ loop'.ever = loop.ever /\ loop'.top = loop.top /\ loop'.rounds = loop.rounds
        /\ ghost'.base = ghost.base /\ ghost'.granted >= ghost.granted
        /\ ghost'.answers = ghost.answers + 1 /\ loop'.ceiling <= ghost'.granted /\ runner' = runner
    <2>1. CASE Dismiss(ask)
      <3>1. loop' = loop /\ runner' = runner /\ ghost' = [ghost EXCEPT !.answers = @ + 1]
        BY <2>1 DEF Dismiss
      <3>2. ghost'.base = ghost.base /\ ghost'.granted = ghost.granted /\ ghost'.answers = ghost.answers + 1
        BY <3>1 DEF Typed, Histories
      <3> QED BY <3>1, <3>2 DEF RoundInv, Counts
    <2>2. CASE Guide(ask) \/ Retry(ask)
      <3>1. AnsweredWithCeiling(ask) /\ runner' = runner
        BY <2>2 DEF Guide, Retry, AnsweredWithCeiling
      <3>2. ghost'.granted \in Nat
        BY DEF Typed, Histories
      <3> QED BY <3>1, <3>2, CeilingTypes DEF RoundInv, Counts
    <2> QED BY <2>1, <2>2
  <1>2. Spare'
    <2>1. loop.ever - ghost.base <= ghost.granted + ghost.answers
      BY DEF RoundInv, Paid
    <2>2. loop.ever \in Int /\ ghost'.granted \in Nat /\ ghost.base \in Int
      BY LoopFacts DEF Typed, Histories
    <2> QED BY <1>1, <2>1, <2>2 DEF Spare
  <1>3. ghost'.answers >= ghost.answers
    BY <1>1
  <1> QED BY <1>1, <1>2, <1>3, KeptRounds

LEMMA RoundsOfRevised ==
  ASSUME AskInv, RoundInv, Typed', SpecRevised
  PROVE  RoundInv'
PROOF
  <1> USE RoundsOfPositions, LoopFacts, LoopAssumption
  <1>1. /\ loop'.ever = loop.ever /\ loop'.raised = {} /\ loop'.ceiling = MaxReviewRounds
        /\ ghost'.base = loop.ever /\ ghost'.granted = MaxReviewRounds /\ ghost'.answers = 0
    BY RevisedIs
  <1>2. loop.ever \in Int
    OBVIOUS
  <1>3. Spare'
    BY <1>1, <1>2 DEF Spare
  <1>4. Counts'
    <2>1. \A r \in Rounds : ~(loop.ever < r /\ r < loop.ever)
      BY DEF Rounds
    <2> QED BY <1>1, <1>2, <2>1 DEF Counts
  <1>5. Paid'
    BY <1>1, <1>2, <1>3 DEF Paid
  <1> QED BY <1>4, <1>5 DEF RoundInv

LEMMA RoundSteps == AskInv /\ RoundInv /\ [Next]_vars => RoundInv'
PROOF
  <1> SUFFICES ASSUME AskInv, RoundInv, [Next]_vars PROVE RoundInv' OBVIOUS
  <1> USE RoundsOfPositions, GhostFacts
  <1>1. Typed'
    BY AskSteps DEF AskInv
  <1>2. ASSUME loop' = loop, open' = open, awaiting' = awaiting, ghost'.base = ghost.base,
               ghost'.granted = ghost.granted, ghost'.answers = ghost.answers,
               runner' = runner \/ runner'.pc # "act"
        PROVE  RoundInv'
    <2>1. loop.ever \in Rounds /\ loop'.rounds[loop.ever].verdict # "none" /\ loop'.raised # {} =>
            open' # {} \/ awaiting' \/ Spare'
      BY <1>2 DEF RoundInv, Paid, Spare
    <2> QED BY <1>1, <1>2, <2>1, KeptRounds DEF RoundInv, Counts
  <1>3. CASE UNCHANGED vars
    BY <1>2, <1>3 DEF vars
  <1>4. CASE Decide
    BY <1>1, <1>4, RoundsOfDecide
  <1>5. CASE StartProducer \/ StartReviewer
    BY <1>1, <1>5, RoundsOfStart DEF StartProducer, StartReviewer, Working, Roles
  <1>6. CASE RaiseEscalation
    <2>1. runner.decision.source \in Sources /\ runner.decision.round \in Rounds
      BY <1>6, LoopFacts DEF RaiseEscalation
    <2>2. AppendAsk("reviewer", runner.decision.source, runner.decision.round)
          /\ AskRecorded(runner.decision.round, runner.decision.source, "kernel") /\ runner'.pc # "act"
      BY <1>6, GotoTypes DEF RaiseEscalation
    <2>3. ghost'.base = ghost.base /\ ghost'.granted = ghost.granted /\ ghost'.answers = ghost.answers
      BY <2>1, <2>2, RecordedTypes
    <2> QED BY <1>1, <2>1, <2>2, <2>3, RoundsOfAsk DEF Roles
  <1>7. CASE RepairEscalateGap
    <2>1. "agent" \in Sources /\ runner.decision.round \in Rounds
      BY <1>7 DEF RepairEscalateGap, Sources
    <2>2. AppendAsk("reviewer", "agent", runner.decision.round)
          /\ AskRecorded(runner.decision.round, "agent", "kernel") /\ runner'.pc # "act"
      BY <1>7, GotoTypes DEF RepairEscalateGap
    <2>3. ghost'.base = ghost.base /\ ghost'.granted = ghost.granted /\ ghost'.answers = ghost.answers
      BY <2>1, <2>2, RecordedTypes
    <2> QED BY <1>1, <2>1, <2>2, <2>3, RoundsOfAsk DEF Roles
  <1>8. ASSUME NEW r \in Rounds, RaiseStraggling(r) PROVE RoundInv'
    <2>1. AppendAsk("reviewer", "agent", r) /\ AskRecorded(r, "agent", "agent") /\ runner' = runner
      BY <1>8 DEF RaiseStraggling
    <2>2. ghost'.base = ghost.base /\ ghost'.granted = ghost.granted /\ ghost'.answers = ghost.answers
      BY <2>1, RecordedTypes DEF Sources
    <2> QED BY <1>1, <2>1, <2>2, RoundsOfAsk DEF Roles, Sources
  <1>9. CASE Escalate
    <2>1. PICK stage \in Roles : Deposits(stage)
      BY <1>9 DEF Escalate
    <2>2. session.stage \in Roles /\ session.round \in Rounds
      BY <2>1 DEF Deposits, Typed, Sessions
    <2>3. AppendAsk(session.stage, "agent", session.round) /\ runner' = runner /\ ghost' = ghost
      BY <1>9 DEF Escalate
    <2> QED BY <1>1, <2>2, <2>3, RoundsOfAsk DEF Sources
  <1>10. CASE StartSession
    <2>1. loop' = loop /\ open' = open /\ awaiting' = awaiting /\ runner'.pc # "act"
      BY <1>10, GotoTypes DEF StartSession
    <2>2. ghost'.base = ghost.base /\ ghost'.granted = ghost.granted /\ ghost'.answers = ghost.answers
      BY <1>10 DEF StartSession, Typed, Histories
    <2> QED BY <1>2, <2>1, <2>2
  <1>11. CASE TurnEnds
    BY <1>2, <1>11, GotoTypes DEF TurnEnds
  <1>12. CASE FailPhase \/ TurnEndsEmpty \/ RunnerDies
    BY <1>2, <1>12, GotoTypes DEF FailPhase, TurnEndsEmpty, RunnerDies
  <1>13. CASE EndOrphan
    BY <1>2, <1>13 DEF EndOrphan
  <1>14. ASSUME NEW r \in Rounds, LoseStraggling(r) PROVE RoundInv'
    BY <1>2, <1>14 DEF LoseStraggling
  <1>15. CASE ReviseSpec
    <2>1. awaiting' /\ loop' = loop /\ ghost' = ghost /\ runner' = runner
      BY <1>15 DEF ReviseSpec
    <2> QED BY <1>1, <2>1, KeptRounds DEF RoundInv, Counts
  <1>16. CASE Terminal
    <2>1. /\ \E stage : Deposits(stage)
          /\ loop'.ever = loop.ever /\ loop'.top = loop.ever /\ loop'.ceiling = loop.ceiling
          /\ \A r \in Rounds : r # loop.ever => loop'.rounds[r].verdict = loop.rounds[r].verdict
          /\ loop'.rounds[loop.ever].verdict = "none" \/ loop'.raised = {}
          /\ runner' = runner /\ ghost' = ghost
      BY <1>16, TerminalIs
    <2>2. loop.ever \in Rounds /\ loop.rounds[loop.ever].verdict = "none"
      BY <2>1, DepositsIs DEF Unjudged
    <2>3. loop.ever # 0
      BY <2>2 DEF Rounds
    <2> QED BY <1>1, <2>1, <2>2, <2>3, KeptRounds DEF RoundInv, Counts
  <1>17. CASE SpecRevised
    BY <1>1, <1>17, RoundsOfRevised
  <1> QED
    BY <1>1, <1>3, <1>4, <1>5, <1>6, <1>7, <1>8, <1>9, <1>10, <1>11, <1>12, <1>13, <1>14, <1>15,
       <1>16, <1>17, RoundsOfAnswer DEF Next, RunnerStep

(***************************************************************************)
(* The kernel opens a round beyond the last one only while the cap allows  *)
(* it or after a human's answer, and an answer pays for one: since the     *)
(* last revision of the spec there are at most the rounds the largest      *)
(* granted ceiling allows, and one for every answer.                       *)
(***************************************************************************)
THEOREM RoundsSpentAreGranted == Spec => []RoundsAreAuthorized
PROOF
  <1>1. Init => RoundInv BY RoundsStart
  <1>2. AskInv /\ RoundInv => RoundsAreAuthorized
    <2> SUFFICES ASSUME AskInv, RoundInv PROVE RoundsAreAuthorized OBVIOUS
    <2>1. /\ loop.ever - ghost.base <= ghost.granted + ghost.answers
          /\ loop.top \in {0, loop.ever} /\ ghost.base <= loop.ever
          /\ loop.top = 0 => ghost.base = loop.ever
      BY DEF RoundInv, Counts, Paid, AskInv, Routed
    <2>2. loop.ever \in Int /\ ghost.base \in Nat /\ ghost.granted \in Nat /\ ghost.answers \in Nat
      BY RoundsOfPositions, LoopFacts, GhostFacts
    <2> QED BY <2>1, <2>2 DEF RoundsAreAuthorized
  <1> QED BY <1>1, <1>2, RoundSteps, LoopInductive, PTL DEF Spec

-----------------------------------------------------------------------------
(***************************************************************************)
(* Guidance                                                                *)
(***************************************************************************)
LEMMA GuidanceStarts ==
  ASSUME Init PROVE GuidanceInv
  BY DEF Init, GuidanceInv, Cited, DeliveredIsHeard

(***************************************************************************)
(* Only a start and a session touch what a round carries and what counts   *)
(* as delivered, and nothing heard is forgotten.                           *)
(***************************************************************************)
LEMMA KeptGuidance ==
  ASSUME AskInv, [Next]_vars, ~StartProducer, ~StartSession
  PROVE  /\ guidance'.carried = guidance.carried /\ guidance'.delivered = guidance.delivered
         /\ ghost'.heard = ghost.heard
         /\ runner' = runner \/ runner'.pc # "launch" \/ runner'.decision.kind # "producer"
PROOF
  <1> USE RoundsOfPositions
  <1>1. CASE UNCHANGED vars
    BY <1>1 DEF vars
  <1>2. CASE RaiseEscalation
    <2>1. runner.decision.source \in Sources /\ runner.decision.round \in Rounds
      BY <1>2, LoopFacts DEF RaiseEscalation
    <2> QED BY <1>2, <2>1, GotoTypes, RecordedTypes DEF RaiseEscalation
  <1>3. CASE RepairEscalateGap
    <2>1. "agent" \in Sources /\ runner.decision.round \in Rounds
      BY <1>3 DEF RepairEscalateGap, Sources
    <2> QED BY <1>3, <2>1, GotoTypes, RecordedTypes DEF RepairEscalateGap
  <1>4. ASSUME NEW r \in Rounds, RaiseStraggling(r)
        PROVE  guidance' = guidance /\ ghost'.heard = ghost.heard /\ runner' = runner
    BY <1>4, RecordedTypes DEF RaiseStraggling, Sources
  <1>5. CASE StartReviewer
    <2>1. runner'.decision.kind = "reviewer"
      BY <1>5, GotoTypes DEF StartReviewer
    <2> QED BY <1>5, <2>1 DEF StartReviewer
  <1>6. CASE Decide
    BY <1>6 DEF Decide
  <1>7. CASE TurnEnds
    BY <1>7, GotoTypes DEF TurnEnds
  <1>8. CASE FailPhase \/ EndOrphan \/ TurnEndsEmpty \/ RunnerDies
    BY <1>8, GotoTypes DEF FailPhase, EndOrphan, TurnEndsEmpty, RunnerDies
  <1>9. CASE Terminal
    BY <1>9, TerminalIs
  <1>10. CASE Escalate \/ ReviseSpec
    BY <1>10 DEF Escalate, ReviseSpec
  <1>11. ASSUME NEW r \in Rounds, LoseStraggling(r)
         PROVE  guidance' = guidance /\ ghost' = ghost /\ runner' = runner
    BY <1>11 DEF LoseStraggling
  <1>12. ASSUME NEW ask \in open, Guide(ask) \/ Retry(ask)
         PROVE  /\ guidance'.carried = guidance.carried /\ guidance'.delivered = guidance.delivered
                /\ ghost'.heard = ghost.heard /\ runner' = runner
    <2>1. AnsweredWithCeiling(ask) /\ runner' = runner
      BY <1>12 DEF Guide, Retry, AnsweredWithCeiling
    <2>2. ghost'.heard = ghost.heard
      BY <2>1, CeilingTypes
    <2>3. guidance'.carried = guidance.carried /\ guidance'.delivered = guidance.delivered
      BY <1>12 DEF Guide, Retry, Typed, Guidances
    <2> QED BY <2>1, <2>2, <2>3
  <1>13. ASSUME NEW ask \in open, Dismiss(ask)
         PROVE  guidance' = guidance /\ ghost'.heard = ghost.heard /\ runner' = runner
    BY <1>13 DEF Dismiss, Typed, Histories
  <1>14. CASE SpecRevised
    BY <1>14, RevisedIs
  <1> QED
    BY <1>1, <1>2, <1>3, <1>4, <1>5, <1>6, <1>7, <1>8, <1>9, <1>10, <1>11, <1>12, <1>13, <1>14
    DEF Next, RunnerStep

LEMMA GuidanceSteps == AskInv /\ GuidanceInv /\ [Next]_vars => GuidanceInv'
PROOF
  <1> SUFFICES ASSUME AskInv, GuidanceInv, [Next]_vars PROVE GuidanceInv' OBVIOUS
  <1> USE RoundsOfPositions
  <1> DEFINE r == runner.decision.round
  <1>1. CASE StartProducer
    <2>1. r \in Rounds /\ runner'.decision = runner.decision /\ ghost' = ghost
          /\ guidance' = [guidance EXCEPT !.carried[r] = runner.decision.feedback]
      BY <1>1, GotoTypes DEF StartProducer
    <2>2. guidance'.carried[r] = runner.decision.feedback /\ guidance'.delivered = guidance.delivered
      BY <2>1 DEF Typed, Guidances
    <2> QED BY <2>1, <2>2 DEF GuidanceInv, Cited, DeliveredIsHeard
  <1>2. CASE StartSession
    <2>1. runner'.pc = "turn" /\ runner.pc = "launch"
      BY <1>2, GotoTypes DEF StartSession
    <2>2. ghost'.heard = ghost.heard \cup ({runner.decision.feedback} \ {0})
      BY <1>2 DEF StartSession, Typed, Histories
    <2>3. CASE runner.decision.kind = "producer"
      <3>1. guidance' = [guidance EXCEPT !.carried[r] = 0,
                                         !.delivered = @ \cup ({guidance.carried[r]} \ {0})]
        BY <1>2, <2>3 DEF StartSession
      <3>2. guidance'.delivered = guidance.delivered \cup ({guidance.carried[r]} \ {0})
        BY <3>1 DEF Typed, Guidances
      <3>3. guidance.carried[r] = runner.decision.feedback
        BY <2>1, <2>3 DEF GuidanceInv, Cited
      <3> QED BY <2>1, <2>2, <3>2, <3>3 DEF GuidanceInv, Cited, DeliveredIsHeard
    <2>4. CASE runner.decision.kind # "producer"
      <3>1. guidance' = guidance
        BY <1>2, <2>4 DEF StartSession
      <3> QED BY <2>1, <2>2, <3>1 DEF GuidanceInv, Cited, DeliveredIsHeard
    <2> QED BY <2>3, <2>4
  <1>3. CASE ~StartProducer /\ ~StartSession
    BY <1>3, KeptGuidance DEF GuidanceInv, Cited, DeliveredIsHeard
  <1> QED BY <1>1, <1>2, <1>3

(***************************************************************************)
(* A human's guidance counts as delivered only once a session was launched *)
(* on a decision that cites it: a start that a death of the runner leaves  *)
(* without a session has delivered nothing, and the next decision cites    *)
(* the guidance again.                                                     *)
(***************************************************************************)
THEOREM DeliveredGuidanceIsHeard == Spec => []DeliveredIsHeard
PROOF
  <1>1. Init => GuidanceInv BY GuidanceStarts
  <1>2. GuidanceInv => DeliveredIsHeard BY DEF GuidanceInv
  <1> QED BY <1>1, <1>2, GuidanceSteps, LoopInductive, PTL DEF Spec

-----------------------------------------------------------------------------
(***************************************************************************)
(* Sets of naturals have a least element, bounded ones a greatest: the     *)
(* initial segments below the elements of a set are finite sets, among     *)
(* which inclusion is well founded.                                        *)
(***************************************************************************)
LEMMA Least ==
  ASSUME NEW S \in SUBSET Nat, S # {}
  PROVE  \E n \in S : \A m \in S : n <= m
PROOF
  <1> DEFINE Segments == {0 .. n : n \in S}
             R == StrictSubsetOrdering(Nat)
  <1>1. Segments \subseteq FiniteSubsetsOf(Nat) /\ Segments # {}
    <2>1. \A n \in S : n \in Nat /\ 0 .. n \in SUBSET Nat
      OBVIOUS
    <2>2. \A n \in S : IsFiniteSet(0 .. n)
      BY FS_Interval
    <2> QED BY <2>1, <2>2 DEF FiniteSubsetsOf
  <1>2. IsWellFoundedOn(R, FiniteSubsetsOf(Nat))
    BY FS_StrictSubsetOrderingWellFounded
  <1> HIDE DEF R
  <1>3. PICK least \in Segments : \A other \in Segments : <<other, least>> \notin R
    <2> HIDE DEF Segments
    <2> QED BY <1>1, <1>2, WFMin
  <1>4. PICK n \in S : least = 0 .. n
    BY <1>3
  <1>5. ASSUME NEW m \in S, m < n PROVE FALSE
    <2>1. n \in Nat /\ m \in Nat
      OBVIOUS
    <2>2. 0 .. m \subseteq 0 .. n /\ n \in 0 .. n /\ n \notin 0 .. m
      BY <1>5, <2>1
    <2>3. <<0 .. m, 0 .. n>> \in R
      BY <2>1, <2>2 DEF R, StrictSubsetOrdering
    <2> QED BY <1>3, <1>4, <2>3
  <1> QED BY <1>5

LEMMA Greatest ==
  ASSUME NEW N \in Nat, NEW S \in SUBSET (0 .. N), S # {}
  PROVE  \E n \in S : \A m \in S : n >= m
PROOF
  <1> DEFINE T == {N - i : i \in S}
  <1>1. T \in SUBSET Nat /\ T # {}
    <2>1. \A i \in S : N - i \in Nat
      OBVIOUS
    <2> QED BY <2>1
  <1>2. PICK t \in T : \A m \in T : t <= m
    BY <1>1, Least
  <1>3. PICK n \in S : t = N - n
    BY <1>2
  <1>4. \A m \in S : N - m \in T
    OBVIOUS
  <1>5. \A m \in S : N - n <= N - m
    BY <1>2, <1>3, <1>4
  <1> QED BY <1>3, <1>5

-----------------------------------------------------------------------------
(***************************************************************************)
(* Chains of findings                                                      *)
(*                                                                         *)
(* The walk is a recursive function, which TLA+ defines as some function   *)
(* that satisfies its equation.  That there is one is shown for the        *)
(* findings up to a round, whose least counterexample there is none of.    *)
(***************************************************************************)
Stamps == Nat \X Nat

\* A history as deposits make it: ids are unique and name the round they were stamped in.
Stamped(h) ==
  /\ h \in Seq(SUBSET [id : Stamps, persists : SUBSET Stamps])
  /\ \A r \in DOMAIN h : \A f \in h[r] : RoundOf(f.id) = r
  /\ \A f \in Findings(h), g \in Findings(h) : f.id = g.id => f = g

FindingOf(h, id) == CHOOSE f \in Findings(h) : f.id = id
ParentsOf(h, id) == Parents(Ids(h), FindingOf(h, id))

\* What the walk makes of one finding, given what it made of its parents.
RootsBy(h, roots, id) ==
  IF ParentsOf(h, id) = {} THEN {id} ELSE UNION {roots[p] : p \in ParentsOf(h, id)}

IsRoots(ids, h, roots) == roots = [id \in ids |-> RootsBy(h, roots, id)]

LEMMA StampedFindings ==
  ASSUME NEW h, Stamped(h)
  PROVE  /\ \A f \in Findings(h) : /\ f.id \in Ids(h) /\ FindingOf(h, f.id) = f
                                   /\ f.persists \subseteq Stamps
         /\ \A id \in Ids(h) : /\ FindingOf(h, id) \in Findings(h) /\ FindingOf(h, id).id = id
                               /\ RoundOf(id) \in 1 .. Len(h) /\ RoundOf(id) \in Nat
         /\ \A id \in Ids(h) : \A p \in ParentsOf(h, id) : p \in Ids(h) /\ RoundOf(p) < RoundOf(id)
PROOF
  <1>1. ASSUME NEW f \in Findings(h)
        PROVE  f.id \in Ids(h) /\ f.persists \subseteq Stamps /\ RoundOf(f.id) \in 1 .. Len(h)
    <2>1. PICK r \in DOMAIN h : f \in h[r]
      BY DEF Findings
    <2>2. f \in [id : Stamps, persists : SUBSET Stamps] /\ DOMAIN h = 1 .. Len(h)
      BY <2>1 DEF Stamped
    <2> QED BY <2>1, <2>2 DEF Stamped, Ids
  <1>2. ASSUME NEW id \in Ids(h)
        PROVE  FindingOf(h, id) \in Findings(h) /\ FindingOf(h, id).id = id
    <2>1. \E f \in Findings(h) : f.id = id
      BY DEF Ids
    <2> QED BY <2>1 DEF FindingOf
  <1>3. \A f \in Findings(h) : FindingOf(h, f.id) = f
    BY <1>1, <1>2 DEF Stamped
  <1>4. \A id \in Ids(h) : RoundOf(id) \in 1 .. Len(h)
    BY <1>1, <1>2
  <1>5. Len(h) \in Nat
    BY DEF Stamped
  <1>6. \A id \in Ids(h) : \A p \in ParentsOf(h, id) : p \in Ids(h) /\ RoundOf(p) < RoundOf(id)
    BY <1>2 DEF ParentsOf, Parents
  <1> QED BY <1>1, <1>2, <1>3, <1>4, <1>5, <1>6

LEMMA RootsExist ==
  ASSUME NEW h, Stamped(h)
  PROVE  \E roots : IsRoots(Ids(h), h, roots)
PROOF
  <1> DEFINE Upto(n) == {id \in Ids(h) : RoundOf(id) <= n}
             Missing == {n \in Nat : ~\E roots : IsRoots(Upto(n), h, roots)}
  <1>1. ASSUME Missing # {} PROVE FALSE
    <2>1. PICK n \in Missing : \A m \in Missing : n <= m
      BY <1>1, Least
    <2>2. n \in Nat
      OBVIOUS
    <2>3. PICK earlier : n # 0 => IsRoots(Upto(n - 1), h, earlier)
      <3>1. CASE n = 0
        BY <3>1
      <3>2. CASE n # 0
        <4>1. n - 1 \in Nat /\ ~(n <= n - 1)
          BY <2>2, <3>2
        <4>2. n - 1 \notin Missing
          <5> HIDE DEF Missing
          <5> QED BY <2>1, <4>1
        <4> QED BY <4>1, <4>2
      <3> QED BY <3>1, <3>2
    <2> DEFINE roots == [id \in Upto(n) |-> RootsBy(h, earlier, id)]
    <2>4. ASSUME NEW id \in Upto(n) PROVE RootsBy(h, earlier, id) = RootsBy(h, roots, id)
      <3>1. ASSUME NEW p \in ParentsOf(h, id) PROVE roots[p] = earlier[p]
        <4>1. id \in Ids(h) /\ RoundOf(id) <= n /\ p \in Ids(h) /\ RoundOf(p) < RoundOf(id)
              /\ RoundOf(p) \in Nat /\ RoundOf(id) \in Nat
          BY <2>4, <3>1, StampedFindings
        <4>2. n # 0 /\ RoundOf(p) <= n /\ RoundOf(p) <= n - 1
          BY <2>2, <4>1
        <4>3. p \in Upto(n) /\ p \in Upto(n - 1)
          BY <4>1, <4>2
        <4> HIDE DEF Upto
        <4>4. earlier[p] = RootsBy(h, earlier, p)
          BY <2>3, <4>2, <4>3 DEF IsRoots
        <4> QED BY <4>3, <4>4
      <3> HIDE DEF roots
      <3> QED BY <3>1 DEF RootsBy
    <2>5. IsRoots(Upto(n), h, roots)
      <3> HIDE DEF Upto
      <3> QED BY <2>4 DEF IsRoots
    <2> QED BY <2>1, <2>5
  <1>2. Len(h) \in Nat
    BY DEF Stamped
  <1>3. Len(h) \notin Missing
    <2> HIDE DEF Missing
    <2> QED BY <1>1
  <1>4. Upto(Len(h)) = Ids(h)
    BY <1>2, StampedFindings
  <1> HIDE DEF Upto
  <1> QED BY <1>2, <1>3, <1>4

\* The walk satisfies its equation.
LEMMA RootsOfIs ==
  ASSUME NEW h, Stamped(h)
  PROVE  \A id \in Ids(h) : RootsOf(h)[id] = RootsBy(h, RootsOf(h), id)
PROOF
  <1>1. RootsOf(h) = CHOOSE roots : IsRoots(Ids(h), h, roots)
    BY DEF RootsOf, RootsBy, ParentsOf, FindingOf, IsRoots
  <1>2. PICK some : IsRoots(Ids(h), h, some)
    BY RootsExist
  <1>3. IsRoots(Ids(h), h, CHOOSE roots : IsRoots(Ids(h), h, roots))
    BY <1>2
  <1>4. IsRoots(Ids(h), h, RootsOf(h))
    BY <1>1, <1>3
  <1> QED BY <1>4 DEF IsRoots

\* The members of a root, and the findings that start a chain.
Members(h, root) == {id \in Ids(h) : root \in RootsOf(h)[id]}
Origins(h) == {f.id : f \in {f \in Findings(h) : ~Continues(f, Ids(h))}}

LEMMA ParentsAre ==
  ASSUME NEW h, Stamped(h), NEW f \in Findings(h)
  PROVE  /\ ParentsOf(h, f.id) = {} <=> ~Continues(f, Ids(h))
         /\ \A chain \in SUBSET Ids(h) : Continues(f, chain) <=> ParentsOf(h, f.id) \cap chain # {}
  BY StampedFindings DEF ParentsOf, Parents, Continues

\* A walk ends at findings that continue none.
LEMMA WalksEnd ==
  ASSUME NEW h, Stamped(h), NEW id \in Ids(h), NEW root \in RootsOf(h)[id]
  PROVE  root \in Origins(h)
PROOF
  <1> DEFINE Stray(i) == \E s \in RootsOf(h)[i] : s \notin Origins(h)
             Bad == {n \in Nat : \E i \in Ids(h) : RoundOf(i) = n /\ Stray(i)}
  <1>1. ASSUME Bad # {} PROVE FALSE
    <2>1. PICK n \in Bad : \A m \in Bad : n <= m
      BY <1>1, Least
    <2>2. PICK i \in Ids(h) : RoundOf(i) = n /\ Stray(i)
      BY <2>1
    <2>3. PICK s \in RootsOf(h)[i] : s \notin Origins(h)
      BY <2>2
    <2>4. RootsOf(h)[i] = RootsBy(h, RootsOf(h), i)
      BY RootsOfIs
    <2>5. CASE ParentsOf(h, i) = {}
      <3>1. s = i
        BY <2>3, <2>4, <2>5 DEF RootsBy
      <3>2. FindingOf(h, i) \in Findings(h) /\ FindingOf(h, i).id = i
        BY StampedFindings
      <3>3. ~Continues(FindingOf(h, i), Ids(h))
        BY <2>5, <3>2, ParentsAre
      <3> QED BY <2>3, <3>1, <3>2, <3>3 DEF Origins
    <2>6. CASE ParentsOf(h, i) # {}
      <3>1. PICK p \in ParentsOf(h, i) : s \in RootsOf(h)[p]
        BY <2>3, <2>4, <2>6 DEF RootsBy
      <3>2. p \in Ids(h) /\ RoundOf(p) < RoundOf(i) /\ RoundOf(p) \in Nat /\ RoundOf(i) \in Nat
        BY StampedFindings
      <3>3. RoundOf(p) \in Bad
        BY <2>3, <3>1, <3>2
      <3> HIDE DEF Bad
      <3> QED BY <2>1, <2>2, <3>2, <3>3
    <2> QED BY <2>5, <2>6
  <1>2. RoundOf(id) \in Nat
    BY StampedFindings
  <1>3. root \notin Origins(h) => RoundOf(id) \in Bad
    BY <1>2
  <1> HIDE DEF Bad
  <1> QED BY <1>1, <1>3

LEMMA OriginsAre ==
  ASSUME NEW h, Stamped(h), NEW root \in Origins(h)
  PROVE  root \in Ids(h) /\ ParentsOf(h, root) = {} /\ RootsOf(h)[root] = {root}
PROOF
  <1>1. PICK f \in Findings(h) : f.id = root /\ ~Continues(f, Ids(h))
    BY DEF Origins
  <1>2. root \in Ids(h) /\ ParentsOf(h, root) = {}
    BY <1>1, ParentsAre, StampedFindings
  <1> QED BY <1>2, RootsOfIs DEF RootsBy

\* The members of a root are a chain as the reference has it,
LEMMA MembersAreChain ==
  ASSUME NEW h, Stamped(h), NEW root \in Origins(h)
  PROVE  IsChain(h, root, Members(h, root))
PROOF
  <1> SUFFICES ASSUME NEW f \in Findings(h)
               PROVE  f.id \in Members(h, root) <=> f.id = root \/ Continues(f, Members(h, root))
    BY DEF IsChain
  <1>1. f.id \in Ids(h) /\ RootsOf(h)[f.id] = RootsBy(h, RootsOf(h), f.id)
    BY StampedFindings, RootsOfIs
  <1>2. Members(h, root) \in SUBSET Ids(h)
    BY DEF Members
  <1>3. Continues(f, Members(h, root)) <=> ParentsOf(h, f.id) \cap Members(h, root) # {}
    BY <1>2, ParentsAre
  <1>4. CASE ParentsOf(h, f.id) = {}
    <2>1. RootsOf(h)[f.id] = {f.id}
      BY <1>1, <1>4 DEF RootsBy
    <2>2. f.id \in Members(h, root) <=> root = f.id
      BY <1>1, <2>1 DEF Members
    <2> QED BY <1>3, <1>4, <2>2
  <1>5. CASE ParentsOf(h, f.id) # {}
    <2>1. f.id # root
      BY <1>5, OriginsAre
    <2>2. f.id \in Members(h, root) <=> \E p \in ParentsOf(h, f.id) : root \in RootsOf(h)[p]
      BY <1>1, <1>5 DEF Members, RootsBy
    <2>3. \A p \in ParentsOf(h, f.id) : p \in Ids(h)
      BY <1>1, StampedFindings
    <2>4. f.id \in Members(h, root) <=> ParentsOf(h, f.id) \cap Members(h, root) # {}
      BY <2>2, <2>3 DEF Members
    <2> QED BY <1>3, <2>1, <2>4
  <1> QED BY <1>4, <1>5

\* ... of which there is one: two would differ first in some round.
LEMMA OneChain ==
  ASSUME NEW h, Stamped(h), NEW root,
         NEW c \in SUBSET Ids(h), NEW d \in SUBSET Ids(h), IsChain(h, root, c), IsChain(h, root, d)
  PROVE  c = d
PROOF
  <1> DEFINE Apart(i) == ~(i \in c <=> i \in d)
             Bad == {n \in Nat : \E i \in Ids(h) : RoundOf(i) = n /\ Apart(i)}
  <1>1. ASSUME Bad # {} PROVE FALSE
    <2>1. PICK n \in Bad : \A m \in Bad : n <= m
      BY <1>1, Least
    <2>2. PICK i \in Ids(h) : RoundOf(i) = n /\ Apart(i)
      BY <2>1
    <2>3. PICK f \in Findings(h) : f.id = i
      BY DEF Ids
    <2>4. ParentsOf(h, i) \cap c = ParentsOf(h, i) \cap d
      <3> SUFFICES ASSUME NEW p \in ParentsOf(h, i) PROVE p \in c <=> p \in d
        OBVIOUS
      <3>1. p \in Ids(h) /\ RoundOf(p) < RoundOf(i) /\ RoundOf(p) \in Nat /\ RoundOf(i) \in Nat
        BY StampedFindings
      <3>2. Apart(p) => RoundOf(p) \in Bad
        BY <3>1
      <3>3. ~Apart(p)
        <4> HIDE DEF Bad, Apart
        <4> QED BY <2>1, <2>2, <3>1, <3>2
      <3> QED BY <3>3
    <2>5. Continues(f, c) <=> Continues(f, d)
      BY <2>3, <2>4, ParentsAre
    <2>6. i \in c <=> i \in d
      BY <2>3, <2>5 DEF IsChain
    <2> QED BY <2>2, <2>6
  <1>2. ASSUME NEW i \in Ids(h) PROVE ~Apart(i)
    <2>1. RoundOf(i) \in Nat
      BY StampedFindings
    <2>2. Apart(i) => RoundOf(i) \in Bad
      BY <2>1
    <2> HIDE DEF Bad, Apart
    <2> QED BY <1>1, <2>2
  <1> QED BY <1>2

LEMMA ChainsAreMembers ==
  ASSUME NEW h, Stamped(h)
  PROVE  ChainsOf(h) = {Members(h, root) : root \in Origins(h)}
PROOF
  <1> DEFINE joined == {m \in {<<root, id>> : id \in Ids(h), root \in Ids(h)} : m[1] \in RootsOf(h)[m[2]]}
             of(root) == {m[2] : m \in {m \in joined : m[1] = root}}
  <1>1. ChainsOf(h) = {of(root) : root \in {m[1] : m \in joined}}
    BY DEF ChainsOf
  <1>2. {m[1] : m \in joined} = Origins(h)
    <2>1. ASSUME NEW m \in joined PROVE m[1] \in Origins(h)
      BY WalksEnd
    <2>2. ASSUME NEW root \in Origins(h) PROVE \E m \in joined : m[1] = root
      <3>1. root \in Ids(h) /\ root \in RootsOf(h)[root]
        BY OriginsAre
      <3>2. <<root, root>> \in joined
        BY <3>1
      <3> QED BY <3>2
    <2> HIDE DEF joined
    <2> QED BY <2>1, <2>2
  <1>3. ASSUME NEW root \in Origins(h) PROVE of(root) = Members(h, root)
    <2>1. root \in Ids(h)
      BY OriginsAre
    <2>2. ASSUME NEW id \in Members(h, root) PROVE id \in of(root)
      <3>1. <<root, id>> \in joined
        BY <2>1 DEF Members
      <3> HIDE DEF joined
      <3> QED BY <3>1
    <2>3. ASSUME NEW id \in of(root) PROVE id \in Members(h, root)
      BY DEF Members
    <2> QED BY <2>2, <2>3
  <1> HIDE DEF joined, of
  <1> QED BY <1>1, <1>2, <1>3

LEMMA WalkFindsClosures ==
  ASSUME NEW h, Stamped(h)
  PROVE  ChainsOf(h) = ReferenceChains(h)
PROOF
  <1> DEFINE Chosen(root) == CHOOSE chain \in SUBSET Ids(h) : IsChain(h, root, chain)
  <1>1. ReferenceChains(h) = {Chosen(root) : root \in Origins(h)}
    BY DEF ReferenceChains, Origins
  <1>2. ASSUME NEW root \in Origins(h) PROVE Members(h, root) = Chosen(root)
    <2>1. Members(h, root) \in SUBSET Ids(h) /\ IsChain(h, root, Members(h, root))
      BY MembersAreChain DEF Members
    <2>2. Chosen(root) \in SUBSET Ids(h) /\ IsChain(h, root, Chosen(root))
      BY <2>1
    <2> HIDE DEF Chosen
    <2> QED BY <2>1, <2>2, OneChain
  <1> HIDE DEF Chosen
  <1> QED BY <1>1, <1>2, ChainsAreMembers

(***************************************************************************)
(* The longest run of consecutive rounds                                   *)
(***************************************************************************)
LEMMA RoundsAreFinite ==
  ASSUME NEW N \in Nat, NEW rounds \in SUBSET (1 .. N)
  PROVE  IsFiniteSet(rounds) /\ Cardinality(rounds) \in Nat /\ rounds \in SUBSET Nat
PROOF
  <1>1. IsFiniteSet(1 .. N)
    BY FS_Interval
  <1>2. IsFiniteSet(rounds)
    BY <1>1, FS_Subset
  <1>3. rounds \in SUBSET Nat
    OBVIOUS
  <1> QED BY <1>2, <1>3, FS_CardinalityType

\* From a round, a run ends before as many rounds are over as there are.
LEMMA RunsEnd ==
  ASSUME NEW N \in Nat, NEW rounds \in SUBSET (1 .. N), NEW r \in Nat
  PROVE  \E n \in 1 .. Cardinality(rounds) + 1 : r + n \notin rounds
PROOF
  <1>1. IsFiniteSet(rounds) /\ Cardinality(rounds) \in Nat
    BY RoundsAreFinite
  <1> DEFINE C == Cardinality(rounds)
             next == [n \in 1 .. C + 1 |-> r + n]
  <1>2. IsFiniteSet(1 .. C + 1) /\ Cardinality(1 .. C + 1) = C + 1
    <2> HIDE DEF C
    <2>1. C \in Nat
      BY <1>1 DEF C
    <2> QED BY <2>1, FS_Interval
  <1>3. ASSUME \A n \in 1 .. C + 1 : r + n \in rounds PROVE FALSE
    <2>1. next \in [1 .. C + 1 -> rounds]
      BY <1>3
    <2>2. Cardinality(1 .. C + 1) > Cardinality(rounds)
      <3> HIDE DEF C
      <3>1. C \in Nat /\ Cardinality(rounds) = C
        BY <1>1 DEF C
      <3> QED BY <1>2, <3>1
    <2>3. \E x, y \in 1 .. C + 1 : x # y /\ next[x] = next[y]
      <3> HIDE DEF C, next
      <3> QED BY <1>1, <1>2, <2>1, <2>2, FS_PigeonHole
    <2>4. \A x, y \in 1 .. C + 1 : r + x = r + y => x = y
      <3> HIDE DEF C
      <3> QED BY <1>1
    <2> QED BY <2>3, <2>4
  <1> QED BY <1>1, <1>3

\* How many consecutive rounds start with a round (the walk of longestConsecutiveRun).
LengthFrom(rounds, r) == Min({n \in 1 .. Cardinality(rounds) + 1 : r + n \notin rounds})

LEMMA LengthFromIs ==
  ASSUME NEW N \in Nat, NEW rounds \in SUBSET (1 .. N), NEW r \in Nat
  PROVE  /\ LengthFrom(rounds, r) \in 1 .. Cardinality(rounds) + 1
         /\ r + LengthFrom(rounds, r) \notin rounds
         /\ \A n \in 1 .. LengthFrom(rounds, r) - 1 : r + n \in rounds
PROOF
  <1> DEFINE C == Cardinality(rounds)
             Ends == {n \in 1 .. C + 1 : r + n \notin rounds}
             length == LengthFrom(rounds, r)
  <1>1. C \in Nat /\ Ends # {}
    BY RunsEnd, RoundsAreFinite
  <1>2. Ends \in SUBSET Nat
    <2> HIDE DEF C
    <2> QED BY <1>1
  <1>3. PICK n \in Ends : \A m \in Ends : n <= m
    <2> HIDE DEF Ends
    <2> QED BY <1>1, <1>2, Least
  <1>4. length = Min(Ends)
    BY DEF LengthFrom
  <1> HIDE DEF Ends, length, C
  <1>5. length \in Ends /\ \A m \in Ends : length <= m
    BY <1>3, <1>4 DEF Min
  <1>6. length \in 1 .. C + 1 /\ r + length \notin rounds
    BY <1>5 DEF Ends
  <1>7. ASSUME NEW m \in 1 .. length - 1 PROVE r + m \in rounds
    <2>1. m \in 1 .. C + 1 /\ ~(length <= m)
      BY <1>1, <1>6
    <2>2. m \notin Ends
      BY <1>5, <2>1
    <2> QED BY <2>1, <2>2 DEF Ends
  <1> QED BY <1>6, <1>7 DEF length, C

\* A longest run is long enough exactly when so many rounds in a row are there.
LEMMA LongestRunIs ==
  ASSUME NEW N \in Nat, NEW rounds \in SUBSET (1 .. N), NEW limit \in Nat \ {0}
  PROVE  LongestRun(rounds) >= limit <=>
           \E first \in 1 .. N : \A r \in first .. first + limit - 1 : r \in rounds
PROOF
  <1> DEFINE opens == {r \in rounds : r - 1 \notin rounds}
             lengths == {LengthFrom(rounds, r) : r \in opens}
  <1>1. CASE rounds = {}
    <2>1. LongestRun(rounds) = 0
      BY <1>1 DEF LongestRun
    <2>2. \A first \in 1 .. N : first \in first .. first + limit - 1
      OBVIOUS
    <2> QED BY <1>1, <2>1, <2>2
  <1>2. CASE rounds # {}
    <2>1. LongestRun(rounds) = Max(lengths)
      BY <1>2 DEF LongestRun, LengthFrom
    <2>2. rounds \in SUBSET Nat /\ Cardinality(rounds) \in Nat
      BY RoundsAreFinite
    <2>3. lengths \in SUBSET (0 .. Cardinality(rounds) + 1)
      <3>1. \A r \in opens : LengthFrom(rounds, r) \in 1 .. Cardinality(rounds) + 1
        BY LengthFromIs, <2>2
      <3> QED BY <2>2, <3>1
    <2>4. opens # {}
      <3>1. PICK r \in rounds : \A q \in rounds : r <= q
        BY <1>2, <2>2, Least
      <3>2. r - 1 \notin rounds
        BY <2>2, <3>1
      <3> QED BY <3>2
    <2>5. Max(lengths) \in lengths /\ \A l \in lengths : Max(lengths) >= l
      <3>1. lengths # {}
        BY <2>4
      <3> HIDE DEF lengths
      <3>2. Cardinality(rounds) + 1 \in Nat
        BY <2>2
      <3>3. PICK n \in lengths : \A l \in lengths : n >= l
        BY <2>3, <3>1, <3>2, Greatest
      <3> QED BY <3>3 DEF Max
    <2>6. ASSUME Max(lengths) >= limit
          PROVE  \E first \in 1 .. N : \A r \in first .. first + limit - 1 : r \in rounds
      <3>1. PICK o \in opens : Max(lengths) = LengthFrom(rounds, o)
        BY <2>5
      <3> DEFINE length == LengthFrom(rounds, o)
      <3>2. o \in rounds /\ o \in 1 .. N /\ length \in Nat /\ length >= limit
            /\ \A n \in 1 .. length - 1 : o + n \in rounds
        <4>1. o \in rounds /\ o \in Nat /\ o \in 1 .. N
          OBVIOUS
        <4>2. length \in 1 .. Cardinality(rounds) + 1 /\ \A n \in 1 .. length - 1 : o + n \in rounds
          BY <4>1, LengthFromIs
        <4>3. length >= limit
          BY <2>6, <3>1
        <4> HIDE DEF length
        <4>4. length \in Nat
          BY <2>2, <4>2
        <4> QED BY <4>1, <4>2, <4>3, <4>4
      <3> HIDE DEF length
      <3>3. ASSUME NEW r \in o .. o + limit - 1 PROVE r \in rounds
        <4>1. r = o \/ r - o \in 1 .. length - 1
          BY <3>2
        <4>2. o + (r - o) = r
          BY <3>2
        <4> QED BY <3>2, <4>1, <4>2
      <3> QED BY <3>2, <3>3
    <2>7. ASSUME NEW first \in 1 .. N, \A r \in first .. first + limit - 1 : r \in rounds
          PROVE  Max(lengths) >= limit
      <3> DEFINE Back == {o \in Nat : o <= first /\ \A q \in o .. first : q \in rounds}
      <3>1. first \in Back
        BY <2>7
      <3>2. PICK o \in Back : \A q \in Back : o <= q
        BY <3>1, Least
      <3>3. o \in rounds /\ o \in Nat /\ o <= first /\ \A q \in o .. first : q \in rounds
        BY <3>2
      <3>4. o - 1 \notin rounds
        <4>1. ASSUME o - 1 \in rounds PROVE FALSE
          <5>1. o - 1 \in Nat /\ o - 1 <= first /\ ~(o <= o - 1)
            BY <2>2, <3>3, <4>1
          <5>2. \A q \in o - 1 .. first : q = o - 1 \/ q \in o .. first
            BY <3>3
          <5>3. o - 1 \in Back
            BY <3>3, <4>1, <5>1, <5>2
          <5> HIDE DEF Back
          <5> QED BY <3>2, <5>1, <5>3
        <4> QED BY <4>1
      <3> DEFINE length == LengthFrom(rounds, o)
      <3>5. length \in Nat \ {0} /\ o + length \notin rounds
        <4>1. length \in 1 .. Cardinality(rounds) + 1 /\ o + length \notin rounds
          BY <3>3, LengthFromIs
        <4> HIDE DEF length
        <4> QED BY <2>2, <4>1
      <3> HIDE DEF length, Back
      <3>6. length >= limit
        <4>1. ASSUME length < limit PROVE FALSE
          <5>1. o + length \in o .. first \/ o + length \in first .. first + limit - 1
            BY <3>3, <3>5, <4>1
          <5> QED BY <2>7, <3>3, <3>5, <5>1
        <4> QED BY <3>5, <4>1
      <3>7. length \in lengths
        BY <3>3, <3>4 DEF length
      <3> HIDE DEF lengths
      <3>8. Max(lengths) >= length /\ Max(lengths) \in Int
        <4>1. Max(lengths) \in 0 .. Cardinality(rounds) + 1
          BY <2>3, <2>5
        <4> QED BY <2>2, <2>5, <3>7, <4>1
      <3> QED BY <3>5, <3>6, <3>8
    <2> QED BY <2>1, <2>6, <2>7
  <1> QED BY <1>1, <1>2

(***************************************************************************)
(* What reaches a human                                                    *)
(***************************************************************************)
LEMMA StreakIs ==
  ASSUME NEW h, Stamped(h), NEW chain \in SUBSET Ids(h), NEW limit \in Nat \ {0}
  PROVE  Streak(chain) >= limit <=>
           \E first \in 1 .. Len(h) : \A r \in first .. first + limit - 1 :
             \E id \in chain : RoundOf(id) = r
PROOF
  <1> DEFINE rounds == {RoundOf(id) : id \in chain}
  <1>1. rounds \in SUBSET (1 .. Len(h)) /\ Len(h) \in Nat
    BY StampedFindings DEF Stamped
  <1>2. \A r : r \in rounds <=> \E id \in chain : RoundOf(id) = r
    OBVIOUS
  <1>3. Streak(chain) = LongestRun(rounds)
    BY DEF Streak
  <1> HIDE DEF rounds
  <1>4. LongestRun(rounds) >= limit <=>
          \E first \in 1 .. Len(h) : \A r \in first .. first + limit - 1 : r \in rounds
    BY <1>1, LongestRunIs
  <1> QED BY <1>2, <1>3, <1>4

\* A chain of the newest round has its tip there.
LEMMA NewestTip ==
  ASSUME NEW h, Stamped(h), NEW chain \in SUBSET Ids(h), NEW id \in chain, RoundOf(id) = Len(h)
  PROVE  Tip(chain) = {i \in chain : RoundOf(i) = Len(h)}
PROOF
  <1> DEFINE rounds == {RoundOf(i) : i \in chain}
  <1>1. Len(h) \in rounds /\ \A r \in rounds : r \in Nat /\ r <= Len(h)
    BY StampedFindings
  <1>2. Len(h) \in Nat
    BY DEF Stamped
  <1>3. Max(rounds) = Len(h)
    <2> HIDE DEF rounds
    <2>1. \E x \in rounds : \A y \in rounds : x >= y
      BY <1>1, <1>2
    <2>2. Max(rounds) \in rounds /\ \A y \in rounds : Max(rounds) >= y
      BY <2>1 DEF Max
    <2> QED BY <1>1, <1>2, <2>2
  <1> QED BY <1>3 DEF Tip

LEMMA RaisableIs ==
  ASSUME NEW h, Stamped(h), h # << >>, NEW ids
  PROVE  Raisable(h, ids) # {} <=>
           \E chain \in ChainsOf(h) : /\ Streak(chain) >= StallRounds
                                      /\ \E id \in chain \ ids : RoundOf(id) = Len(h)
PROOF
  <1>1. \A chain \in ChainsOf(h) : chain \in SUBSET Ids(h)
    BY ChainsAreMembers DEF Members
  <1>2. ASSUME NEW chain \in SUBSET Ids(h)
        PROVE  chain \cap {f.id : f \in h[Len(h)]} # {} <=> \E id \in chain : RoundOf(id) = Len(h)
    <2>1. Len(h) \in DOMAIN h
      BY DEF Stamped
    <2>2. \A f \in h[Len(h)] : RoundOf(f.id) = Len(h)
      BY <2>1 DEF Stamped
    <2>3. ASSUME NEW id \in chain, RoundOf(id) = Len(h) PROVE \E f \in h[Len(h)] : f.id = id
      <3>1. PICK r \in DOMAIN h : \E f \in h[r] : f.id = id
        BY DEF Ids, Findings
      <3> QED BY <2>3, <3>1 DEF Stamped
    <2> QED BY <2>2, <2>3
  <1>3. ASSUME NEW chain \in ChainsOf(h)
        PROVE  ~TipDismissed(chain, ids) /\ chain \cap {f.id : f \in h[Len(h)]} # {}
                 <=> \E id \in chain \ ids : RoundOf(id) = Len(h)
    <2>1. chain \in SUBSET Ids(h)
      BY <1>1
    <2>2. ASSUME NEW id \in chain, RoundOf(id) = Len(h)
          PROVE  ~TipDismissed(chain, ids) <=> \E i \in chain \ ids : RoundOf(i) = Len(h)
      BY <2>1, <2>2, NewestTip DEF TipDismissed
    <2> QED BY <1>2, <2>1, <2>2
  <1>4. Raisable(h, ids) = {c \in {c \in ChainsOf(h) : Streak(c) >= StallRounds /\ ~TipDismissed(c, ids)} :
                              c \cap {f.id : f \in h[Len(h)]} # {}}
    BY DEF Raisable, LiveChains, StalledChains
  <1> QED BY <1>3, <1>4

LEMMA ContestedIs ==
  ASSUME NEW h, Stamped(h), h # << >>, NEW ids
  PROVE  Raisable(h, ids) # {} <=>
           \E chain \in ReferenceChains(h) :
             /\ \E first \in 1 .. Len(h) : \A r \in first .. first + StallRounds - 1 :
                  \E id \in chain : RoundOf(id) = r
             /\ \E id \in chain \ ids : RoundOf(id) = Len(h)
PROOF
  <1>1. ChainsOf(h) = ReferenceChains(h)
    BY WalkFindsClosures
  <1>2. \A chain \in ChainsOf(h) : chain \in SUBSET Ids(h)
    BY ChainsAreMembers DEF Members
  <1>3. \A chain \in ChainsOf(h) :
          Streak(chain) >= StallRounds <=>
            \E first \in 1 .. Len(h) : \A r \in first .. first + StallRounds - 1 :
              \E id \in chain : RoundOf(id) = r
    BY <1>2, StreakIs, StallAssumption
  <1> QED BY <1>1, <1>3, RaisableIs

-----------------------------------------------------------------------------
(***************************************************************************)
(* The histories that reviews make                                         *)
(***************************************************************************)
HistoryInv == Stamped(history) /\ HistoryTypeOK /\ Len(history) <= MaxHistory

LEMMA LongerIsStamped ==
  ASSUME NEW h, Stamped(h), NEW round \in SUBSET [id : Stamps, persists : SUBSET Stamps],
         \A f \in round : RoundOf(f.id) = Len(h) + 1,
         \A f \in round, g \in round : f.id = g.id => f = g
  PROVE  Stamped(Append(h, round)) /\ Ids(h) \subseteq Ids(Append(h, round))
PROOF
  <1> DEFINE longer == Append(h, round)
  <1>1. /\ Len(h) \in Nat /\ DOMAIN h = 1 .. Len(h) /\ DOMAIN longer = 1 .. Len(h) + 1
        /\ longer[Len(h) + 1] = round /\ \A r \in 1 .. Len(h) : longer[r] = h[r]
        /\ longer \in Seq(SUBSET [id : Stamps, persists : SUBSET Stamps])
    BY DEF Stamped
  <1> HIDE DEF longer
  <1>2. \A r \in DOMAIN longer : r \in DOMAIN h \/ r = Len(h) + 1
    BY <1>1
  <1>3. \A r \in DOMAIN h : r \in DOMAIN longer
    BY <1>1
  <1>4. Len(h) + 1 \in DOMAIN longer
    BY <1>1
  <1>5. Findings(longer) = Findings(h) \cup round
    BY <1>1, <1>2, <1>3, <1>4 DEF Findings
  <1>6. \A r \in DOMAIN longer : \A f \in longer[r] : RoundOf(f.id) = r
    BY <1>1, <1>2 DEF Stamped
  <1>7. ASSUME NEW f \in Findings(longer), NEW g \in Findings(longer), f.id = g.id PROVE f = g
    <2>1. \A e \in Findings(h) : RoundOf(e.id) \in 1 .. Len(h)
      BY StampedFindings
    <2>2. \A e \in Findings(h) : RoundOf(e.id) # Len(h) + 1
      BY <1>1, <2>1
    <2>3. CASE f \in Findings(h) /\ g \in Findings(h)
      BY <1>7, <2>3 DEF Stamped
    <2>4. CASE f \in round /\ g \in round
      BY <1>7, <2>4
    <2> QED BY <1>5, <1>7, <2>2, <2>3, <2>4
  <1>8. Ids(h) \subseteq Ids(longer)
    BY <1>5 DEF Ids
  <1> QED BY <1>1, <1>6, <1>7, <1>8 DEF Stamped, longer

LEMMA ReviewRoundKeeps ==
  ASSUME HistoryInv, ReviewRound
  PROVE  HistoryInv'
PROOF
  <1> DEFINE ids == (0 .. MaxHistory) \X (1 .. MaxFindings)
  <1>1. /\ Stamped(history) /\ history \in Seq(SUBSET [id : ids, persists : SUBSET ids])
        /\ silenced \subseteq Ids(history) /\ Len(history) \in Nat
        /\ MaxHistory \in Nat /\ MaxFindings \in Nat
    BY HistoryAssumption DEF HistoryInv, HistoryTypeOK
  <1>2. PICK n \in 0 .. MaxFindings : \E marks \in [1 .. n -> Marks(history)] :
          history' = Append(history, {[id |-> Id(Len(history) + 1, k), persists |-> marks[k]] : k \in 1 .. n})
    BY DEF ReviewRound
  <1>3. PICK marks \in [1 .. n -> Marks(history)] :
          history' = Append(history, {[id |-> Id(Len(history) + 1, k), persists |-> marks[k]] : k \in 1 .. n})
    BY <1>2
  <1>4. Len(history) < MaxHistory /\ silenced' = silenced
    BY DEF ReviewRound
  <1> DEFINE round == {[id |-> Id(Len(history) + 1, k), persists |-> marks[k]] : k \in 1 .. n}
  <1>5. Ids(history) \subseteq ids
    <2>1. ASSUME NEW f \in Findings(history) PROVE f.id \in ids
      <3>1. PICK r \in DOMAIN history : f \in history[r]
        BY DEF Findings
      <3>2. f \in [id : ids, persists : SUBSET ids]
        BY <1>1, <3>1
      <3> QED BY <3>2
    <2> QED BY <2>1 DEF Ids
  <1>6. ids \subseteq Stamps
    BY <1>1 DEF Stamps
  <1>7. ASSUME NEW k \in 1 .. n PROVE marks[k] \subseteq ids /\ Id(Len(history) + 1, k) \in ids
    <2>1. k \in 1 .. MaxFindings /\ 1 \in 1 .. MaxFindings /\ 0 \in 0 .. MaxHistory
          /\ Len(history) + 1 \in 0 .. MaxHistory
      BY <1>1, <1>4
    <2>2. BeforeRestart \in ids /\ Id(Len(history) + 1, k) \in ids
      BY <2>1 DEF BeforeRestart, Id
    <2>3. marks[k] \subseteq Ids(history) \cup {BeforeRestart}
      BY DEF Marks
    <2> QED BY <1>5, <2>2, <2>3
  <1>8. round \in SUBSET [id : ids, persists : SUBSET ids]
    BY <1>7
  <1>9. \A f \in round : RoundOf(f.id) = Len(history) + 1
    BY DEF Id, RoundOf
  <1>10. \A f \in round, g \in round : f.id = g.id => f = g
    BY DEF Id
  <1>11. history' = Append(history, round)
    BY <1>3
  <1> HIDE DEF round, ids
  <1>12. round \in SUBSET [id : Stamps, persists : SUBSET Stamps]
    BY <1>6, <1>8
  <1>13. Stamped(history') /\ Ids(history) \subseteq Ids(history')
    BY <1>1, <1>9, <1>10, <1>11, <1>12, LongerIsStamped
  <1>14. history' \in Seq(SUBSET [id : ids, persists : SUBSET ids]) /\ Len(history') = Len(history) + 1
    BY <1>1, <1>8, <1>11
  <1>15. HistoryTypeOK'
    BY <1>1, <1>4, <1>13, <1>14 DEF HistoryTypeOK, ids
  <1> QED BY <1>1, <1>4, <1>13, <1>14, <1>15 DEF HistoryInv

LEMMA HistoryInductive == HistorySpec => []HistoryInv
PROOF
  <1>1. HistoryInit => HistoryInv
    BY HistoryAssumption DEF HistoryInit, HistoryInv, HistoryTypeOK, Stamped, Findings
  <1>2. HistoryInv /\ [HistoryNext]_historyVars => HistoryInv'
    <2> SUFFICES ASSUME HistoryInv, [HistoryNext]_historyVars PROVE HistoryInv'
      OBVIOUS
    <2>1. CASE ReviewRound
      BY <2>1, ReviewRoundKeeps
    <2>2. CASE DismissFinding
      <3>1. PICK chain \in Reported(history, silenced) :
              silenced' = silenced \cup chain /\ history' = history
        BY <2>2 DEF DismissFinding
      <3>2. chain \in ChainsOf(history)
        BY DEF Reported, Raisable, LiveChains, StalledChains
      <3>3. chain \subseteq Ids(history)
        BY <3>2, ChainsAreMembers DEF Members, HistoryInv
      <3> QED BY <3>1, <3>3 DEF HistoryInv, HistoryTypeOK
    <2>3. CASE UNCHANGED historyVars
      BY <2>3 DEF historyVars, HistoryInv, HistoryTypeOK
    <2> QED BY <2>1, <2>2, <2>3 DEF HistoryNext
  <1> QED BY <1>1, <1>2, PTL DEF HistorySpec

(***************************************************************************)
(* Histories and what was dismissed keep their shape, and a human can only *)
(* dismiss what a review found.                                            *)
(***************************************************************************)
THEOREM HistoryTypeCorrect == HistorySpec => []HistoryTypeOK
  BY HistoryInductive, PTL DEF HistoryInv

(***************************************************************************)
(* For every history, of any length, with any number of findings and       *)
(* marks, the memoized walk of buildChains finds exactly the closures      *)
(* under persists, whatever ancestors chains share and whatever marks lead *)
(* out of the history.                                                     *)
(***************************************************************************)
THEOREM WalkIsExact == HistorySpec => []ChainsAreClosures
PROOF
  <1>1. HistoryInv => ChainsAreClosures
    BY WalkFindsClosures DEF HistoryInv, ChainsAreClosures
  <1> QED BY <1>1, HistoryInductive, PTL

(***************************************************************************)
(* Chains, streaks, tips and live chains together (stalledChains,          *)
(* longestConsecutiveRun, tipDismissed, liveChains) put a round to a human *)
(* exactly when a disagreement lasted StallRounds rounds in a row and the  *)
(* newest round still holds an undismissed finding of it.                  *)
(***************************************************************************)
THEOREM HumansSeeWhatIsContested == HistorySpec => []ContestedIsRaised
PROOF
  <1>1. HistoryInv => ContestedIsRaised
    <2> SUFFICES ASSUME HistoryInv, history # << >>
                 PROVE  Raisable(history, silenced) # {} <=>
                          \E chain \in ReferenceChains(history) :
                            /\ \E first \in 1 .. Len(history) : \A r \in first .. first + StallRounds - 1 :
                                 \E id \in chain : RoundOf(id) = r
                            /\ \E id \in chain \ silenced : RoundOf(id) = Len(history)
      BY DEF ContestedIsRaised
    <2>1. Stamped(history)
      BY DEF HistoryInv
    <2> QED BY <2>1, ContestedIs
  <1> QED BY <1>1, HistoryInductive, PTL

-----------------------------------------------------------------------------
(***************************************************************************)
(* Agreement with the in-process loop                                      *)
(*                                                                         *)
(* The engine asks whether a chain can be raised, converge whether one is  *)
(* stalled.  They differ about chains that are not in the newest round,    *)
(* which had stalled a round before, so that neither loop came this far.   *)
(***************************************************************************)
LEMMA EmptyHistory == Stamped(<< >>) /\ ChainsOf(<< >>) = {}
PROOF
  <1>1. Findings(<< >>) = {} /\ Ids(<< >>) = {}
    BY DEF Findings, Ids
  <1>2. Stamped(<< >>)
    BY <1>1 DEF Stamped
  <1>3. Origins(<< >>) = {}
    BY <1>1 DEF Origins
  <1> QED BY <1>2, <1>3, ChainsAreMembers

\* A chain that is not in the newest round was one a round before.
LEMMA OldChain ==
  ASSUME NEW h, NEW g, Stamped(h), Stamped(g), Len(g) = Len(h) + 1, \A r \in 1 .. Len(h) : g[r] = h[r],
         NEW chain \in ChainsOf(g), \A id \in chain : RoundOf(id) # Len(g)
  PROVE  chain \in ChainsOf(h)
PROOF
  <1>1. Len(h) \in Nat /\ DOMAIN h = 1 .. Len(h) /\ DOMAIN g = 1 .. Len(g)
    BY DEF Stamped
  <1>2. \A f : f \in Findings(h) <=> f \in Findings(g) /\ RoundOf(f.id) # Len(g)
    <2>1. ASSUME NEW f \in Findings(h) PROVE f \in Findings(g) /\ RoundOf(f.id) # Len(g)
      <3>1. PICK r \in DOMAIN h : f \in h[r]
        BY DEF Findings
      <3>2. r \in DOMAIN g /\ f \in g[r] /\ r # Len(g)
        BY <1>1, <3>1
      <3> QED BY <3>1, <3>2 DEF Findings, Stamped
    <2>2. ASSUME NEW f \in Findings(g), RoundOf(f.id) # Len(g) PROVE f \in Findings(h)
      <3>1. PICK r \in DOMAIN g : f \in g[r]
        BY DEF Findings
      <3>2. RoundOf(f.id) = r
        BY <3>1 DEF Stamped
      <3>3. r \in DOMAIN h /\ f \in h[r]
        BY <1>1, <2>2, <3>1, <3>2
      <3> QED BY <3>3 DEF Findings
    <2> QED BY <2>1, <2>2
  <1>3. Ids(h) \subseteq Ids(g)
    BY <1>2 DEF Ids
  <1>4. PICK root \in Origins(g) : chain = Members(g, root)
    BY ChainsAreMembers
  <1>5. chain \subseteq Ids(h)
    <2> SUFFICES ASSUME NEW id \in chain PROVE id \in Ids(h)
      OBVIOUS
    <2>1. PICK f \in Findings(g) : f.id = id
      BY <1>4 DEF Members, Ids
    <2> QED BY <1>2, <2>1 DEF Ids
  <1>6. root \in chain
    BY <1>4, OriginsAre DEF Members
  <1>7. root \in Origins(h)
    <2>1. PICK f \in Findings(g) : f.id = root /\ ~Continues(f, Ids(g))
      BY DEF Origins
    <2>2. f \in Findings(h)
      BY <1>2, <1>6, <2>1
    <2>3. ~Continues(f, Ids(h))
      BY <1>3, <2>1 DEF Continues
    <2> QED BY <2>1, <2>2, <2>3 DEF Origins
  <1>8. IsChain(h, root, chain)
    BY <1>2, <1>4, MembersAreChain DEF IsChain
  <1>9. chain = Members(h, root)
    <2>1. Members(h, root) \in SUBSET Ids(h) /\ IsChain(h, root, Members(h, root))
      BY <1>7, MembersAreChain DEF Members
    <2> QED BY <1>5, <1>8, <2>1, OneChain
  <1> QED BY <1>7, <1>9, ChainsAreMembers

LEMMA NoStallWithoutNews ==
  ASSUME NEW h, NEW g, Stamped(h), Stamped(g), Len(g) = Len(h) + 1, \A r \in 1 .. Len(h) : g[r] = h[r],
         StalledChains(h, StallRounds, {}) = {}, Raisable(g, {}) = {}
  PROVE  StalledChains(g, StallRounds, {}) = {}
PROOF
  <1> SUFFICES ASSUME NEW chain \in StalledChains(g, StallRounds, {}) PROVE FALSE
    OBVIOUS
  <1>1. chain \in ChainsOf(g) /\ Streak(chain) >= StallRounds /\ ~TipDismissed(chain, {})
    BY DEF StalledChains
  <1>2. g # << >>
    BY DEF Stamped
  <1>3. \A id \in chain : RoundOf(id) # Len(g)
    BY <1>1, <1>2, RaisableIs
  <1>4. chain \in ChainsOf(h)
    BY <1>1, <1>3, OldChain
  <1> QED BY <1>1, <1>4 DEF StalledChains

(***************************************************************************)
(* The rounds of the loop as a history                                     *)
(***************************************************************************)
LEMMA HistoryIs ==
  ASSUME Typed, NEW n \in 0 .. MaxRounds
  PROVE  Stamped(History(n)) /\ Len(History(n)) = n /\ (n = 0 => History(n) = << >>)
PROOF
  <1>1. n \in Nat /\ 1 .. n \subseteq Rounds /\ 1 .. n \subseteq Nat
    BY LoopAssumption DEF Rounds
  <1>2. DOMAIN History(n) = 1 .. n
    BY DEF History
  <1> DEFINE finding(r) == [id |-> <<r, 1>>, persists |-> {<<loop.rounds[r].mark, 1>>}]
  <1>3. \A r \in 1 .. n : History(n)[r] = IF loop.rounds[r].mark = NoMark THEN {} ELSE {finding(r)}
    BY DEF History
  <1>4. ASSUME NEW r \in 1 .. n
        PROVE  History(n)[r] \in SUBSET [id : Stamps, persists : SUBSET Stamps]
    <2>1. loop.rounds[r].mark \in NoMark .. MaxRounds /\ r \in Nat /\ r \in Rounds
      BY <1>1 DEF Typed, Loops, RoundStates
    <2>2. loop.rounds[r].mark # NoMark => loop.rounds[r].mark \in Nat
      BY <2>1, LoopAssumption DEF NoMark
    <2>3. <<r, 1>> \in Stamps /\ (loop.rounds[r].mark # NoMark => <<loop.rounds[r].mark, 1>> \in Stamps)
      BY <2>1, <2>2 DEF Stamps
    <2>4. loop.rounds[r].mark # NoMark => finding(r) \in [id : Stamps, persists : SUBSET Stamps]
      BY <2>3
    <2> HIDE DEF finding
    <2> QED BY <1>3, <2>4
  <1>5. History(n) \in Seq(SUBSET [id : Stamps, persists : SUBSET Stamps]) /\ Len(History(n)) = n
    <2>1. History(n) \in [1 .. n -> SUBSET [id : Stamps, persists : SUBSET Stamps]]
      BY <1>4 DEF History
    <2> QED BY <1>1, <2>1
  <1>6. \A r \in 1 .. n : \A f \in History(n)[r] : f = finding(r) /\ f.id = <<r, 1>>
    <2>1. \A r : finding(r).id = <<r, 1>>
      OBVIOUS
    <2> HIDE DEF finding
    <2> QED BY <1>3, <2>1
  <1>7. \A f \in Findings(History(n)) : \E r \in 1 .. n : f \in History(n)[r]
    BY <1>2 DEF Findings
  <1>8. ASSUME NEW f \in Findings(History(n)), NEW g \in Findings(History(n)), f.id = g.id
        PROVE  f = g
    <2>1. PICK r \in 1 .. n : f \in History(n)[r]
      BY <1>7
    <2>2. PICK q \in 1 .. n : g \in History(n)[q]
      BY <1>7
    <2>3. r = q
      BY <1>6, <1>8, <2>1, <2>2
    <2> QED BY <1>6, <2>1, <2>2, <2>3
  <1>9. n = 0 => History(n) = << >>
    BY <1>5
  <1> QED BY <1>2, <1>5, <1>6, <1>8, <1>9 DEF Stamped, RoundOf

(***************************************************************************)
(* What a verdict leads to is settled by the rounds up to it.              *)
(***************************************************************************)
LEMMA OutcomeKept ==
  ASSUME NEW r \in Rounds, \A q \in Rounds : q <= r => loop'.rounds[q] = loop.rounds[q]
  PROVE  Outcome(r)' = Outcome(r)
PROOF
  <1>1. \A q \in 1 .. r : loop'.rounds[q] = loop.rounds[q]
    BY LoopAssumption DEF Rounds
  <1>2. History(r)' = History(r)
    BY <1>1 DEF History
  <1>3. loop'.rounds[r] = loop.rounds[r]
    BY DEF Rounds
  <1> QED BY <1>2, <1>3 DEF Outcome

(***************************************************************************)
(* Until a human answers: the rounds before the newest went on, what the   *)
(* kernel asked is what converge would ask, and what the runner has in     *)
(* hand agrees with it too.                                                *)
(***************************************************************************)
Untouched ==
  /\ ~awaiting /\ dismissed = {} /\ loop.ceiling = MaxReviewRounds /\ ghost.base = 0
  /\ loop.top = loop.ever
  /\ loop.raised # {} => open # {}

Followed ==
  /\ \A r \in Rounds : r < loop.ever => Outcome(r) = "next"
  /\ \A r \in Rounds, source \in Sources :
       <<r, source, "kernel">> \in ghost.asked => Outcome(r) = source

InHand ==
  /\ runner.pc = "act" /\ runner.decision.kind = "raise" => Outcome(loop.ever) = runner.decision.source
  /\ /\ runner.pc = "act" /\ runner.decision.kind = "producer"
     /\ runner.decision.round > loop.ever /\ loop.ever \in Rounds
     => Outcome(loop.ever) = "next"
  /\ runner.pc = "repair" => Outcome(loop.ever) = "agent"

ConvergeInv == used.answers = 0 => Untouched /\ Followed /\ InHand

LEMMA ConvergeStarts ==
  ASSUME Init PROVE ConvergeInv
PROOF
  <1>1. \A r \in Rounds : ~(r < 0)
    BY DEF Rounds
  <1> QED BY <1>1 DEF Init, ConvergeInv, Untouched, Followed, InHand

LEMMA ConvergeAgrees ==
  ASSUME AskInv, ConvergeInv PROVE AgreesWithConverge
  BY DEF ConvergeInv, Untouched, Followed, AgreesWithConverge

(***************************************************************************)
(* After a revise: nothing had stalled a round before, and the verdicts    *)
(* are as many as the rounds.                                              *)
(***************************************************************************)
LEMMA AllReviewed ==
  ASSUME AskInv, Counts, ghost.base = 0, loop.ever \in Rounds, loop.rounds[loop.ever].verdict # "none"
  PROVE  Cardinality(Reviewed) = loop.ever
PROOF
  <1>1. loop.ever \in Nat /\ MaxRounds \in Nat
    BY LoopAssumption DEF Rounds
  <1>2. Reviewed \subseteq 1 .. loop.ever
    <2>1. \A r \in Rounds : r > loop.ever => loop.rounds[r].verdict = "none"
      BY DEF AskInv, Routed
    <2> QED BY <1>1, <2>1 DEF Reviewed, Rounds
  <1>3. IsFiniteSet(1 .. loop.ever) /\ Cardinality(1 .. loop.ever) = loop.ever
    <2> DEFINE n == loop.ever
    <2>1. n \in Nat
      BY <1>1
    <2> HIDE DEF n
    <2>2. IsFiniteSet(1 .. n) /\ Cardinality(1 .. n) = n
      BY <2>1, FS_Interval
    <2> QED BY <2>2 DEF n
  <1>4. Cardinality(Reviewed) <= loop.ever /\ Cardinality(Reviewed) \in Nat
    BY <1>2, <1>3, FS_Subset, FS_CardinalityType
  <1>5. loop.ever - ghost.base <= Cardinality(Reviewed)
    BY ReviewedSince
  <1> QED BY <1>1, <1>4, <1>5

LEMMA StalledBefore ==
  ASSUME Typed, Followed, loop.ever \in Rounds
  PROVE  StalledChains(History(loop.ever - 1), StallRounds, {}) = {}
PROOF
  <1> DEFINE n == loop.ever - 1
  <1>1. n \in 0 .. MaxRounds /\ n < loop.ever /\ (n # 0 => n \in Rounds)
    BY LoopAssumption DEF Rounds
  <1> HIDE DEF n
  <1>2. CASE n = 0
    <2>1. History(n) = << >>
      BY <1>1, <1>2, HistoryIs
    <2> QED BY <2>1, EmptyHistory DEF StalledChains, n
  <1>3. CASE n # 0
    <2>1. Outcome(n) = "next" /\ n \in Rounds
      BY <1>1, <1>3 DEF Followed
    <2>2. loop.rounds[n].verdict \in {"none", "approve", "revise", "escalate"}
      BY <2>1 DEF Typed, Loops, RoundStates
    <2>3. StalledChains(History(n), StallRounds, {}) = {}
      BY <2>1, <2>2 DEF Outcome
    <2> QED BY <2>3 DEF n
  <1> QED BY <1>2, <1>3

LEMMA DecisionAgrees ==
  ASSUME AskInv, RoundInv, Untouched, Followed, Decision.kind \notin {"wait", "approved"}
  PROVE  /\ Decision.kind = "raise" => Outcome(loop.ever) = Decision.source
         /\ Decision.kind = "producer" /\ Decision.round > loop.ever /\ loop.ever \in Rounds
              => Outcome(loop.ever) = "next"
PROOF
  <1> USE RoundsOfPositions DEF RunProducer, RunReviewer, Raise
  <1> DEFINE n == loop.ever
             v == loop.rounds[n].verdict
  <1>1. open = {} /\ ~awaiting /\ Decision = LoopDecision
    BY DEF Decision, Nothing
  <1>2. loop.top = n /\ loop.raised = {} /\ n \in 0 .. MaxRounds
    BY <1>1, LoopFacts DEF Untouched
  <1>3. \A source : ~Asked(source)
    BY <1>2 DEF Asked
  <1>4. CASE n = 0
    <2>1. Decision = RunProducer(n + 1) /\ n \notin Rounds
      BY <1>1, <1>2, <1>4 DEF LoopDecision, Rounds
    <2> QED BY <2>1
  <1>5. CASE n # 0
    <2>1. /\ n \in Rounds /\ v \in {"none", "approve", "revise", "escalate"}
          /\ loop.rounds[n].completed \in BOOLEAN
      <3>1. n \in Rounds
        BY <1>2, <1>5 DEF Rounds
      <3>2. loop.rounds[n] \in RoundStates
        BY <3>1 DEF Typed, Loops
      <3> QED BY <3>1, <3>2 DEF RoundStates
    <2>2. CASE v = "none"
      <3>1. Decision \in {RunReviewer(n), RunProducer(n)}
        BY <1>1, <1>2, <1>5, <2>1, <2>2 DEF LoopDecision
      <3>2. Decision.round = n /\ Decision.kind # "raise"
        BY <3>1
      <3> QED BY <1>2, <3>2
    <2>3. CASE v = "approve"
      <3>1. Decision = [Nothing EXCEPT !.kind = "approved"]
        BY <1>1, <1>2, <1>5, <2>1, <2>3 DEF LoopDecision
      <3> QED BY <3>1 DEF Nothing
    <2>4. CASE v = "escalate"
      <3>1. Decision = AfterEscalate
        BY <1>1, <1>2, <1>5, <2>1, <2>4 DEF LoopDecision
      <3>2. Decision = Raise("agent", n)
        BY <1>2, <1>3, <3>1 DEF AfterEscalate
      <3>3. Outcome(n) = "agent"
        BY <2>4 DEF Outcome
      <3> QED BY <3>2, <3>3
    <2>5. CASE v = "revise"
      <3>1. Decision = AfterRevise
        BY <1>1, <1>2, <1>5, <2>1, <2>5 DEF LoopDecision
      <3>2. DismissedIds = {}
        BY DEF Untouched, DismissedIds
      <3>3. Cardinality(Reviewed) = n /\ loop.ceiling = MaxReviewRounds
        BY <2>1, <2>5, AllReviewed DEF Untouched, RoundInv
      <3>4. Outcome(n) = IF StalledChains(History(n), StallRounds, {}) # {} THEN "stall"
                         ELSE IF n + 1 > MaxReviewRounds THEN "policy" ELSE "next"
        BY <2>5 DEF Outcome
      <3>5. Decision = IF Raisable(History(n), {}) # {} THEN Raise("stall", n)
                       ELSE IF n >= MaxReviewRounds THEN Raise("policy", n) ELSE RunProducer(n + 1)
        BY <1>2, <1>3, <3>1, <3>2, <3>3 DEF AfterRevise
      <3>6. Raisable(History(n), {}) # {} <=> StalledChains(History(n), StallRounds, {}) # {}
        <4>1. Raisable(History(n), {}) \subseteq StalledChains(History(n), StallRounds, {})
          BY DEF Raisable, LiveChains
        <4>2. Raisable(History(n), {}) = {} => StalledChains(History(n), StallRounds, {}) = {}
          <5> DEFINE m == n - 1
          <5>1. m \in 0 .. MaxRounds /\ n = m + 1 /\ n \in 0 .. MaxRounds /\ MaxRounds \in Nat
            BY <1>2, <2>1, LoopAssumption DEF Rounds
          <5>2. StalledChains(History(m), StallRounds, {}) = {}
            BY <2>1, StalledBefore
          <5> HIDE DEF m, n
          <5>3. Stamped(History(m)) /\ Stamped(History(n)) /\ Len(History(n)) = Len(History(m)) + 1
                /\ Len(History(m)) = m
            BY <5>1, HistoryIs
          <5>4. \A r \in 1 .. m : History(n)[r] = History(m)[r]
            BY <5>1 DEF History
          <5> QED BY <5>2, <5>3, <5>4, NoStallWithoutNews
        <4> QED BY <4>1, <4>2
      <3>7. n + 1 > MaxReviewRounds <=> n >= MaxReviewRounds
        BY <1>2, LoopAssumption
      <3> HIDE DEF n
      <3> QED BY <3>4, <3>5, <3>6, <3>7 DEF n
    <2> QED BY <2>1, <2>2, <2>3, <2>4, <2>5
  <1> QED BY <1>4, <1>5

(***************************************************************************)
(* The steps                                                               *)
(***************************************************************************)
LEMMA ConvergeOfDecide ==
  ASSUME AskInv, RoundInv, ConvergeInv, Decide
  PROVE  ConvergeInv'
PROOF
  <1> SUFFICES ASSUME used'.answers = 0 PROVE Untouched' /\ Followed' /\ InHand'
    BY DEF ConvergeInv
  <1>1. /\ Decision.kind \notin {"wait", "approved"}
        /\ runner'.pc = "act" /\ runner'.decision = Decision
        /\ UNCHANGED <<loop, open, awaiting, dismissed, ghost, used>>
    BY DEF Decide
  <1>2. Untouched /\ Followed
    BY <1>1 DEF ConvergeInv
  <1>3. Untouched'
    BY <1>1, <1>2 DEF Untouched
  <1>4. \A r : Outcome(r)' = Outcome(r)
    BY <1>1 DEF Outcome, History
  <1>5. Followed'
    BY <1>1, <1>2, <1>4 DEF Followed
  <1>6. InHand'
    BY <1>1, <1>2, <1>4, DecisionAgrees DEF InHand
  <1> QED BY <1>3, <1>5, <1>6

\* The steps that open no round, give no verdict and ask nothing new.
SameRounds ==
  /\ loop'.rounds = loop.rounds /\ loop'.top = loop.top /\ loop'.ever = loop.ever
  /\ loop'.ceiling = loop.ceiling

LEMMA KeptConverge ==
  ASSUME ConvergeInv, used'.answers = used.answers, SameRounds, UNCHANGED <<awaiting, dismissed>>,
         ghost'.base = ghost.base, open \subseteq open', loop'.raised = loop.raised \/ open' # {},
         \A r \in Rounds, source \in Sources :
           <<r, source, "kernel">> \in ghost'.asked =>
             <<r, source, "kernel">> \in ghost.asked \/ (used.answers = 0 => Outcome(r) = source),
         runner' = runner \/ runner'.pc \notin {"act", "repair"}
  PROVE  ConvergeInv'
PROOF
  <1> SUFFICES ASSUME used'.answers = 0 PROVE Untouched' /\ Followed' /\ InHand'
    BY DEF ConvergeInv
  <1>1. Untouched /\ Followed /\ InHand /\ used.answers = 0
    BY DEF ConvergeInv
  <1>2. \A r : Outcome(r)' = Outcome(r)
    BY DEF Outcome, History, SameRounds
  <1>3. Untouched'
    BY <1>1 DEF Untouched, SameRounds
  <1>4. Followed'
    BY <1>1, <1>2 DEF Followed, SameRounds
  <1>5. InHand'
    BY <1>1, <1>2 DEF InHand, SameRounds
  <1> QED BY <1>3, <1>4, <1>5

LEMMA ConvergeOfAsk ==
  ASSUME AskInv, ConvergeInv, RaiseEscalation \/ RepairEscalateGap
  PROVE  ConvergeInv'
PROOF
  <1> USE RoundsOfPositions
  <1> DEFINE n == loop.ever
             asked == IF RaiseEscalation THEN runner.decision.source ELSE "agent"
  <1>1. runner.pc \in {"act", "repair"} /\ n \in Rounds /\ runner.decision.round = n
        /\ (RaiseEscalation => runner.pc = "act" /\ runner.decision.kind = "raise")
        /\ (~RaiseEscalation => runner.pc = "repair") /\ asked \in Sources
    <2>1. runner.decision.source \in Sources
      BY LoopFacts
    <2>2. CASE RaiseEscalation
      BY <2>1, <2>2 DEF RaiseEscalation, AskInv, Deciding, Judging, Working, Roles
    <2>3. CASE RepairEscalateGap /\ ~RaiseEscalation
      BY <2>3 DEF RepairEscalateGap, AskInv, AtTurn, Sources
    <2> QED BY <2>2, <2>3
  <1>2. used.answers = 0 => Outcome(n) = asked
    BY <1>1 DEF ConvergeInv, InHand
  <1>3. AppendAsk("reviewer", asked, n) /\ AskRecorded(n, asked, "kernel") /\ Goto("decide")
        /\ UNCHANGED <<awaiting, dismissed>>
    BY <1>1 DEF RaiseEscalation, RepairEscalateGap
  <1> HIDE DEF n, asked
  <1>4. SameRounds /\ open' # {} /\ open \subseteq open' /\ used'.answers = used.answers
    BY <1>1, <1>3, AskTypes DEF SameRounds, Roles, AppendAsk, Typed
  <1>5. ghost'.asked = ghost.asked \cup {<<n, asked, "kernel">>} /\ ghost'.base = ghost.base
    BY <1>1, <1>3, RecordedTypes
  <1>6. runner'.pc = "decide"
    BY <1>3, GotoTypes
  <1>7. \A r \in Rounds, source \in Sources :
          <<r, source, "kernel">> \in ghost'.asked =>
            <<r, source, "kernel">> \in ghost.asked \/ (used.answers = 0 => Outcome(r) = source)
    BY <1>2, <1>5
  <1> QED BY <1>3, <1>4, <1>5, <1>6, <1>7, KeptConverge

\* A round is opened only after one that leads to the next.
LEMMA ConvergeOfStart ==
  ASSUME AskInv, ConvergeInv, StartProducer \/ StartReviewer
  PROVE  ConvergeInv'
PROOF
  <1> USE RoundsOfPositions
  <1> SUFFICES ASSUME used'.answers = 0 PROVE Untouched' /\ Followed' /\ InHand'
    BY DEF ConvergeInv
  <1> DEFINE n == runner.decision.round
  <1>1. /\ loop' = Touched(n) /\ runner.pc = "act" /\ runner.decision.kind \in Roles
        /\ Goto("launch") /\ UNCHANGED <<open, dismissed, awaiting, used, ghost>>
    BY DEF StartProducer, StartReviewer, Roles
  <1>2. Untouched /\ Followed /\ InHand
    BY <1>1 DEF ConvergeInv
  <1>3. n \in Rounds /\ n \in {loop.ever, loop.ever + 1} /\ loop.ever \in 0 .. MaxRounds
        /\ (n # loop.ever => runner.decision.kind = "producer") /\ loop.top = loop.ever
    BY <1>1, <1>2, LoopFacts DEF AskInv, Deciding, Roles, Untouched
  <1>4. /\ loop'.top = n /\ loop'.ever = n /\ loop'.rounds = loop.rounds
        /\ loop'.raised = loop.raised /\ loop'.ceiling = loop.ceiling
    <2>1. Newest(n, loop.ever) = n
      BY <1>3 DEF Newest, Rounds
    <2> HIDE DEF n
    <2> QED BY <1>1, <1>3, <2>1, TouchedIs DEF Typed
  <1>5. \A r : Outcome(r)' = Outcome(r)
    BY <1>4 DEF Outcome, History
  <1>6. ASSUME NEW r \in Rounds, r < n PROVE Outcome(r) = "next"
    <2>1. r < loop.ever \/ (r = loop.ever /\ n > loop.ever /\ n # loop.ever)
      BY <1>3, <1>6 DEF Rounds
    <2> QED BY <1>1, <1>2, <1>3, <2>1 DEF Followed, InHand
  <1>7. Untouched'
    BY <1>1, <1>2, <1>4 DEF Untouched
  <1>8. Followed'
    BY <1>1, <1>2, <1>4, <1>5, <1>6 DEF Followed
  <1>9. runner'.pc = "launch"
    BY <1>1, GotoTypes
  <1> QED BY <1>7, <1>8, <1>9 DEF InHand

\* A verdict is of the newest round, of which nothing has been asked.
LEMMA ConvergeOfTerminal ==
  ASSUME AskInv, ConvergeInv, Terminal
  PROVE  ConvergeInv'
PROOF
  <1> USE RoundsOfPositions
  <1> SUFFICES ASSUME used'.answers = 0 PROVE Untouched' /\ Followed' /\ InHand'
    BY DEF ConvergeInv
  <1>1. /\ loop'.ever = loop.ever /\ loop'.top = loop.ever /\ loop'.ceiling = loop.ceiling
        /\ \A r \in Rounds : r # loop.ever => loop'.rounds[r] = loop.rounds[r]
        /\ UNCHANGED <<open, dismissed, awaiting, runner, used, ghost>>
    BY TerminalIs
  <1>2. Untouched /\ Followed
    BY <1>1 DEF ConvergeInv
  <1>3. Unjudged(loop.ever) /\ runner.pc \notin {"act", "repair"}
    <2>1. PICK stage : Deposits(stage)
      BY TerminalIs
    <2> QED BY <2>1, DepositsIs
  <1>4. \A r \in Rounds, source \in Sources : <<r, source, "kernel">> \in ghost.asked => r < loop.ever
    <2>1. ASSUME NEW r \in Rounds, NEW source \in Sources, <<r, source, "kernel">> \in ghost.asked
          PROVE  r < loop.ever
      <3>1. r <= loop.ever /\ r # loop.ever
        BY <1>3, <2>1 DEF AskInv, Routed, Unjudged, Unasked
      <3> QED BY <3>1, LoopFacts
    <2> QED BY <2>1
  <1>5. ASSUME NEW r \in Rounds, r < loop.ever PROVE Outcome(r)' = Outcome(r)
    <2>1. \A q \in Rounds : q <= r => q # loop.ever
      BY <1>5, LoopFacts
    <2> QED BY <1>1, <2>1, OutcomeKept
  <1>6. Followed'
    BY <1>1, <1>2, <1>4, <1>5 DEF Followed
  <1>7. loop'.raised # {} => loop.raised # {}
    BY TerminalIs
  <1>8. Untouched'
    BY <1>1, <1>2, <1>7 DEF Untouched
  <1> QED BY <1>1, <1>3, <1>6, <1>8 DEF InHand

LEMMA ConvergeOfOthers ==
  ASSUME AskInv, ConvergeInv,
         \/ UNCHANGED vars \/ StartSession \/ TurnEndsEmpty \/ FailPhase \/ RunnerDies \/ EndOrphan
         \/ Escalate \/ \E r \in Rounds : RaiseStraggling(r) \/ LoseStraggling(r)
  PROVE  ConvergeInv'
PROOF
  <1> USE RoundsOfPositions
  <1>1. ASSUME UNCHANGED <<loop, open, awaiting, dismissed>>, used'.answers = used.answers,
               ghost'.base = ghost.base, ghost'.asked = ghost.asked,
               runner' = runner \/ runner'.pc \notin {"act", "repair"}
        PROVE  ConvergeInv'
    BY <1>1, KeptConverge DEF SameRounds
  <1>2. ASSUME NEW stage \in Roles, NEW r \in Rounds, AppendAsk(stage, "agent", r),
               UNCHANGED <<awaiting, dismissed, runner>>,
               ghost' = ghost \/ AskRecorded(r, "agent", "agent")
        PROVE  ConvergeInv'
    <2>1. SameRounds /\ open' # {} /\ open \subseteq open' /\ used'.answers = used.answers
      BY <1>2, AskTypes DEF SameRounds, AppendAsk, Typed, Sources
    <2>2. ghost'.base = ghost.base /\ ghost'.asked \subseteq ghost.asked \cup {<<r, "agent", "agent">>}
      BY <1>2, RecordedTypes DEF Sources
    <2>3. \A q \in Rounds, source \in Sources :
            <<q, source, "kernel">> \in ghost'.asked => <<q, source, "kernel">> \in ghost.asked
      BY <2>2
    <2> QED BY <1>2, <2>1, <2>2, <2>3, KeptConverge
  <1>3. CASE UNCHANGED vars
    BY <1>1, <1>3 DEF vars
  <1>4. CASE StartSession
    <2>1. ghost'.base = ghost.base /\ ghost'.asked = ghost.asked
      BY <1>4 DEF StartSession, Typed, Histories
    <2> QED BY <1>1, <1>4, <2>1, GotoTypes DEF StartSession
  <1>5. CASE TurnEndsEmpty \/ RunnerDies
    <2>1. used' = [used EXCEPT !.mishaps = @ + 1]
      BY <1>5 DEF TurnEndsEmpty, RunnerDies
    <2>2. used'.answers = used.answers
      BY <2>1 DEF Typed
    <2> QED BY <1>1, <1>5, <2>2, GotoTypes DEF TurnEndsEmpty, RunnerDies
  <1>6. CASE FailPhase \/ EndOrphan
    BY <1>1, <1>6, GotoTypes DEF FailPhase, EndOrphan
  <1>7. CASE Escalate
    <2>1. session.stage \in Roles /\ session.round \in Rounds
      BY <1>7 DEF Escalate, Deposits, Typed, Sessions
    <2> QED BY <1>2, <1>7, <2>1 DEF Escalate
  <1>8. ASSUME NEW r \in Rounds, RaiseStraggling(r) PROVE ConvergeInv'
    BY <1>2, <1>8 DEF RaiseStraggling, Roles
  <1>9. ASSUME NEW r \in Rounds, LoseStraggling(r) PROVE ConvergeInv'
    BY <1>1, <1>9 DEF LoseStraggling
  <1> QED BY <1>3, <1>4, <1>5, <1>6, <1>7, <1>8, <1>9

\* The answers, and the revision that one of them asked for.
LEMMA ConvergeOfAnswers ==
  ASSUME AskInv, ConvergeInv,
         \/ \E ask \in open : Guide(ask) \/ Retry(ask) \/ Dismiss(ask)
         \/ ReviseSpec \/ SpecRevised
  PROVE  ConvergeInv'
PROOF
  <1> USE RoundsOfPositions
  <1>1. ASSUME used' = [used EXCEPT !.answers = @ + 1] PROVE ConvergeInv'
    <2>1. used'.answers = used.answers + 1 /\ used.answers \in Nat
      BY <1>1 DEF Typed
    <2>2. used'.answers # 0
      BY <2>1
    <2> QED BY <2>2 DEF ConvergeInv
  <1>2. CASE SpecRevised
    BY <1>2 DEF SpecRevised, ConvergeInv, Untouched
  <1>3. CASE \E ask \in open : Guide(ask) \/ Retry(ask) \/ Dismiss(ask)
    BY <1>1, <1>3 DEF Guide, Retry, Dismiss, AnsweredWithCeiling, Answered
  <1>4. CASE ReviseSpec
    BY <1>1, <1>4 DEF ReviseSpec
  <1> QED BY <1>2, <1>3, <1>4

LEMMA ConvergeOfEnds ==
  ASSUME AskInv, ConvergeInv, TurnEnds
  PROVE  ConvergeInv'
PROOF
  <1> USE RoundsOfPositions
  <1> SUFFICES ASSUME used'.answers = 0 PROVE Untouched' /\ Followed' /\ InHand'
    BY DEF ConvergeInv
  <1>1. UNCHANGED <<loop, open, dismissed, awaiting, used, ghost>> /\ runner.pc = "turn"
        /\ session.round = loop.ever
    BY DEF TurnEnds, AskInv, AtTurn
  <1>2. Untouched /\ Followed
    BY <1>1 DEF ConvergeInv
  <1>3. \A r : Outcome(r)' = Outcome(r)
    BY <1>1 DEF Outcome, History
  <1>4. runner'.pc \in {"repair", "decide"}
        /\ (runner'.pc = "repair" => loop.rounds[loop.ever].verdict = "escalate")
    BY <1>1, GotoTypes DEF TurnEnds
  <1>5. loop.rounds[loop.ever].verdict = "escalate" => Outcome(loop.ever) = "agent"
    BY DEF Outcome
  <1>6. Untouched' /\ Followed'
    BY <1>1, <1>2, <1>3 DEF Untouched, Followed
  <1> QED BY <1>1, <1>3, <1>4, <1>5, <1>6 DEF InHand

LEMMA ConvergeSteps == AskInv /\ RoundInv /\ ConvergeInv /\ [Next]_vars => ConvergeInv'
  BY ConvergeOfDecide, ConvergeOfAsk, ConvergeOfStart, ConvergeOfTerminal, ConvergeOfOthers,
     ConvergeOfAnswers, ConvergeOfEnds
  DEF Next, RunnerStep

(***************************************************************************)
(* Until a human answers, what the engine re-derives from the log after    *)
(* every crash, failed turn and late append is what converge decides in    *)
(* one process (kernel/converge.ts): for any cap, any stall threshold and  *)
(* any verdicts a round was followed by another only where converge goes   *)
(* on, and the kernel asked only what converge would escalate.             *)
(***************************************************************************)
THEOREM DurableLoopConverges == Spec => []AgreesWithConverge
PROOF
  <1>1. Init => RoundInv /\ ConvergeInv
    BY RoundsStart, ConvergeStarts
  <1>2. AskInv /\ ConvergeInv => AgreesWithConverge
    BY ConvergeAgrees
  <1>3. AskInv /\ AskInv' /\ RoundInv /\ [Next]_vars => RoundInv'
    BY RoundSteps
  <1> QED BY <1>1, <1>2, <1>3, ConvergeSteps, LoopInductive, PTL DEF Spec

=============================================================================
