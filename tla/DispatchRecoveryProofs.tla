----------------------- MODULE DispatchRecoveryProofs -----------------------
(***************************************************************************)
(* One provisioner, founded launches and the failure budget, for any       *)
(* number of dispatchers, attempts, faults and mishaps.                    *)
(***************************************************************************)
EXTENDS DispatchRecovery, FiniteSetTheorems, TLAPS

-----------------------------------------------------------------------------
(* Types                                                                   *)

LEMMA NoFactsType == NoFacts \in FactSets
  BY DEF NoFacts, FactSets

LEMMA IdleType == Idle \in Jobs
  BY NoFactsType DEF Idle, Jobs, Places

LEMMA SeenType == ASSUME log \in FactSets PROVE Seen \in FactSets
  BY NoFactsType DEF Seen, NoFacts, FactSets

LEMMA MissingPlace ==
  /\ \A f : Missing(f) \in {"spec", "comment", "launch"}
  /\ \A f : Missing(f) = "comment" => f.spec
  /\ \A f : Missing(f) = "launch" => f.spec /\ f.comment
  BY DEF Missing

\* How a dispatcher's job changes.
LEMMA Jobwise ==
  ASSUME doing \in [Dispatchers -> Jobs], log \in FactSets, NEW d \in Dispatchers
  PROVE  /\ \A pc \in Places : Go(d, pc) =>
              doing' = [doing EXCEPT ![d] = [doing[d] EXCEPT !.at = pc]]
         /\ \A pc \in Places : GoSeen(d, pc) =>
              doing' = [doing EXCEPT ![d] = [doing[d] EXCEPT !.at = pc, !.seen = Seen]]
         /\ \A then : Check(d, then) =>
              doing' = [doing EXCEPT ![d] = [doing[d] EXCEPT !.at = "budget", !.next = then,
                                                             !.seen = NoFacts]]
         /\ End(d) => doing' = [doing EXCEPT ![d] = Idle]
  BY DEF Go, GoSeen, Check, End, Jobs

\* A step of one dispatcher: its job becomes j.
Becomes(d, j) == j \in Jobs /\ doing' = [doing EXCEPT ![d] = j]

LEMMA BecomesType ==
  ASSUME doing \in [Dispatchers -> Jobs], NEW d \in Dispatchers, NEW j, Becomes(d, j)
  PROVE  doing' \in [Dispatchers -> Jobs] /\ doing'[d] = j
         /\ \A e \in Dispatchers \ {d} : doing'[e] = doing[e]
  BY DEF Becomes

At(d, pc) == [doing[d] EXCEPT !.at = pc]
Checking(d, then) == [doing[d] EXCEPT !.at = "budget", !.next = then, !.seen = NoFacts]
Looked(d, pc) == [doing[d] EXCEPT !.at = pc, !.seen = Seen]
Onward(d) == [doing[d] EXCEPT !.at = doing[d].next, !.next = "end"]
Kicked == [Idle EXCEPT !.at = "start", !.cont = TRUE]

LEMMA JobTypes ==
  ASSUME doing \in [Dispatchers -> Jobs], log \in FactSets, NEW d \in Dispatchers
  PROVE  /\ \A pc \in Places : At(d, pc) \in Jobs /\ Looked(d, pc) \in Jobs
         /\ \A then \in {"facts", "boundaries", "end"} : Checking(d, then) \in Jobs
         /\ doing[d].next # "end" => Onward(d) \in Jobs
         /\ Kicked \in Jobs /\ Idle \in Jobs
<1>1. doing[d] \in Jobs
  OBVIOUS
<1>2. \A pc \in Places : At(d, pc) \in Jobs /\ Looked(d, pc) \in Jobs
  BY <1>1, SeenType DEF At, Looked, Jobs
<1>3. \A then \in {"facts", "boundaries", "end"} : Checking(d, then) \in Jobs
  BY <1>1, NoFactsType DEF Checking, Jobs, Places
<1>4. doing[d].next # "end" => Onward(d) \in Jobs
  BY <1>1 DEF Onward, Jobs, Places
<1>5. Kicked \in Jobs /\ Idle \in Jobs
  BY IdleType DEF Kicked, Jobs, Places
<1> QED BY <1>2, <1>3, <1>4, <1>5

LEMMA Steps ==
  ASSUME doing \in [Dispatchers -> Jobs], log \in FactSets, NEW d \in Dispatchers
  PROVE  /\ \A pc \in Places : Go(d, pc) => Becomes(d, At(d, pc))
         /\ \A pc \in Places : GoSeen(d, pc) => Becomes(d, Looked(d, pc))
         /\ \A then \in {"facts", "boundaries", "end"} : Check(d, then) => Becomes(d, Checking(d, then))
         /\ End(d) => Becomes(d, Idle)
  BY JobTypes, Jobwise DEF Becomes, At, Looked, Checking

\* A tick's attempt with its budget; the continuation; the boundaries.
Attempt(d) == Tick(d) \/ Budget(d) \/ Raise(d) \/ Facts(d) \/ Marker(d) \/ Mark(d)
Continuation(d) ==
  Start(d) \/ Claimed(d) \/ Provisioned(d) \/ ProvisionFails(d) \/ Release(d) \/ Finally(d)
Boundary(d) ==
  \/ Boundaries(d) \/ ImportSpec(d) \/ Comment(d) \/ RecordComment(d) \/ Launch(d)
  \/ Reserve(d) \/ StartRunner(d) \/ BoundaryFails(d) \/ RecordFailure(d)
Process(d) == Signal(d) \/ StopRecords(d) \/ StopReleases(d) \/ Exit(d) \/ Crash(d)
Around(d) == Beat(d) \/ Lead(d) \/ Supersede(d) \/ Lapse(d)
Elsewhere == LateBeatLands \/ Expire \/ Age \/ RunnerStarts \/ RunnerDies \/ Answer

LEMMA NextSplits ==
  Next => \/ \E d \in Dispatchers : Attempt(d) \/ Continuation(d) \/ Boundary(d)
                                   \/ Process(d) \/ Around(d)
          \/ Elsewhere
  BY DEF Next, Work, Teardown, Attempt, Continuation, Boundary, Process, Around, Elsewhere

\* Facts are appended as the log's types allow.
LEMMA AppendType ==
  ASSUME NEW f \in FactSets, Append(f)
  PROVE  log' \in FactSets /\ log' = f /\ current' \in [Dispatchers -> BOOLEAN]
  BY DEF Append

LEMMA FactUpdates ==
  ASSUME log \in FactSets
  PROVE  /\ [log EXCEPT !.open = @ + 1] \in FactSets
         /\ [log EXCEPT !.marker = "fresh", !.failed = FALSE] \in FactSets
         /\ [log EXCEPT !.marker = "stale"] \in FactSets
         /\ [log EXCEPT !.ws = TRUE, !.marker = "none"] \in FactSets
         /\ [log EXCEPT !.failed = log.marker # "none"] \in FactSets
         /\ [log EXCEPT !.spec = TRUE] \in FactSets
         /\ [log EXCEPT !.comment = TRUE] \in FactSets
         /\ [log EXCEPT !.fails = @ + 1] \in FactSets
         /\ [log EXCEPT !.failed = TRUE] \in FactSets
         /\ [log EXCEPT !.attached = TRUE, !.fails = 0] \in FactSets
         /\ log.open > 0 => /\ [log EXCEPT !.open = @ - 1, !.fails = 0] \in FactSets
                            /\ [log EXCEPT !.open = @ - 1, !.aborted = TRUE] \in FactSets
<1>1. log.open > 0 => log.open - 1 \in Nat
  BY DEF FactSets
<1>2. log.open + 1 \in Nat /\ log.fails + 1 \in Nat
  BY DEF FactSets
<1> QED BY <1>1, <1>2 DEF FactSets

LEMMA TroubleTypes ==
  ASSUME faults \in 0 .. MaxTrouble, mishaps \in 0 .. MaxTrouble
  PROVE  /\ Fault => faults' \in 0 .. MaxTrouble
         /\ Mishap => mishaps' \in 0 .. MaxTrouble /\ mishaps' = mishaps + 1
  BY DispatchAssumption DEF DispatchAssumption, Fault, Mishap, Trouble

Leases == [by : Dispatchers \cup {NoOne, "dead", "runner"}, live : BOOLEAN]

LEMMA LeaseTypes ==
  ASSUME lease \in Leases, NEW d \in Dispatchers
  PROVE  /\ Released(d) \in Leases /\ [by |-> d, live |-> TRUE] \in Leases
         /\ Dead \in Leases /\ [lease EXCEPT !.by = "dead"] \in Leases
         /\ [lease EXCEPT !.live = FALSE] \in Leases /\ [by |-> "runner", live |-> TRUE] \in Leases
  BY DEF Leases, Released, Free, Dead

\* Steps that leave everything but a job and what is named keep the types.
LEMMA AttemptTypes == ASSUME TypeOK, NEW d \in Dispatchers, Attempt(d) PROVE TypeOK'
<1> USE DEF TypeOK, shared
<1>1. CASE Tick(d)
  BY <1>1, Steps, BecomesType DEF Tick
<1>2. CASE Budget(d)
  <2>1. doing' \in [Dispatchers -> Jobs]
    <3>1. CASE End(d)
      BY <3>1, Steps, BecomesType
    <3>2. CASE Go(d, "raise")
      BY <3>2, Steps, BecomesType DEF Places
    <3>3. CASE /\ doing[d].next # "end"
               /\ doing' = [doing EXCEPT ![d].at = doing[d].next, ![d].next = "end"]
      <4>1. Becomes(d, Onward(d))
        BY <3>3, JobTypes DEF Onward, Jobs, Becomes
      <4> QED BY <4>1, BecomesType
    <3> QED BY <1>2, <3>1, <3>2, <3>3 DEF Budget
  <2>2. current' \in [Dispatchers -> BOOLEAN]
    BY <1>2 DEF Budget
  <2> QED BY <1>2, <2>1, <2>2 DEF Budget
<1>3. CASE Raise(d)
  BY <1>3, Steps, BecomesType, AppendType, FactUpdates DEF Raise, Places
<1>4. CASE Facts(d)
  BY <1>4, Steps, BecomesType DEF Facts, Places
<1>5. CASE Marker(d)
  BY <1>5, Steps, BecomesType DEF Marker, Places
<1>6. CASE Mark(d)
  <2>1. doing' \in [Dispatchers -> Jobs]
    BY <1>6, JobTypes DEF Mark, Kicked
  <2> QED BY <1>6, <2>1, AppendType, FactUpdates DEF Mark
<1> QED BY <1>1, <1>2, <1>3, <1>4, <1>5, <1>6 DEF Attempt

LEMMA ContinuationTypes == ASSUME TypeOK, NEW d \in Dispatchers, Continuation(d) PROVE TypeOK'
<1> USE LeaseTypes DEF TypeOK, Leases, shared
<1>0. StopBeating(d) => late' \in BOOLEAN
  BY DEF StopBeating
<1>1. CASE Start(d)
  <2>1. doing' \in [Dispatchers -> Jobs]
    BY <1>1, Steps, BecomesType DEF Start, Places
  <2>2. lease' \in {lease, [by |-> d, live |-> TRUE]}
    BY <1>1 DEF Start
  <2>3. lease' \in Leases
    BY <2>2
  <2> QED BY <1>1, <2>1, <2>3 DEF Start
<1>2. CASE Claimed(d)
  BY <1>2, Steps, BecomesType DEF Claimed, Places
<1>3. CASE Provisioned(d)
  BY <1>3, Steps, BecomesType, AppendType, FactUpdates DEF Provisioned, Places
<1>4. CASE ProvisionFails(d)
  BY <1>4, Steps, BecomesType, AppendType, FactUpdates, TroubleTypes DEF ProvisionFails, Places
<1>5. CASE Release(d)
  BY <1>0, <1>5, Steps, BecomesType DEF Release
<1>6. CASE Finally(d)
  BY <1>0, <1>6, Steps, BecomesType DEF Finally
<1> QED BY <1>1, <1>2, <1>3, <1>4, <1>5, <1>6 DEF Continuation

LEMMA BoundaryTypes == ASSUME TypeOK, NEW d \in Dispatchers, Boundary(d) PROVE TypeOK'
<1> USE DEF TypeOK, shared
<1>1. CASE Boundaries(d)
  BY <1>1, Steps, BecomesType, MissingPlace DEF Boundaries, Places
<1>2. CASE ImportSpec(d)
  BY <1>2, Steps, BecomesType, AppendType, FactUpdates, MissingPlace DEF ImportSpec, Places
<1>3. CASE Comment(d)
  BY <1>3, Steps, BecomesType DEF Comment, Places
<1>4. CASE RecordComment(d)
  BY <1>4, Steps, BecomesType, AppendType, FactUpdates DEF RecordComment, Places
<1>5. CASE Launch(d)
  BY <1>5, Steps, BecomesType DEF Launch, Places
<1>6. CASE BoundaryFails(d)
  BY <1>6, Steps, BecomesType, TroubleTypes DEF BoundaryFails, Places
<1>7. CASE Reserve(d)
  <2>1. doing' \in [Dispatchers -> Jobs]
    BY <1>7, Steps, BecomesType DEF Reserve, Places
  <2>2. lease' \in Leases
    BY <1>7, LeaseTypes DEF Reserve, Leases
  <2> QED BY <1>7, <2>1, <2>2 DEF Reserve, Leases
<1>8. CASE StartRunner(d)
  BY <1>8, Steps, BecomesType DEF StartRunner
<1>9. CASE RecordFailure(d)
  BY <1>9, Steps, BecomesType, AppendType, FactUpdates DEF RecordFailure
<1> QED BY <1>1, <1>2, <1>3, <1>4, <1>5, <1>6, <1>7, <1>8, <1>9 DEF Boundary

LEMMA RestartedTypes ==
  ASSUME TypeOK, NEW d \in Dispatchers, Restarted(d), mishaps' \in 0 .. MaxTrouble
  PROVE  TypeOK'
<1> USE DEF TypeOK
<1>1. doing' \in [Dispatchers -> Jobs]
  BY Steps, BecomesType DEF Restarted
<1>2. lease' \in Leases
  BY LeaseTypes DEF Restarted, Leases
<1>3. late' \in BOOLEAN /\ stop' \in [Dispatchers -> {"no", "signalled", "recorded", "stopped"}]
  BY DEF Restarted, StopBeating
<1> QED BY <1>1, <1>2, <1>3 DEF Restarted, Leases

LEMMA ProcessTypes == ASSUME TypeOK, NEW d \in Dispatchers, Process(d) PROVE TypeOK'
<1> USE LeaseTypes DEF TypeOK, Leases, shared
<1>1. CASE Signal(d)
  <2>1. doing' \in [Dispatchers -> Jobs]
    <3>1. doing' = [doing EXCEPT ![d] = [doing[d] EXCEPT !.aborted = TRUE]]
      BY <1>1 DEF Signal
    <3>2. [doing[d] EXCEPT !.aborted = TRUE] \in Jobs
      <4>1. doing[d] \in Jobs
        OBVIOUS
      <4> QED BY <4>1 DEF Jobs
    <3> QED BY <3>1, <3>2
  <2> QED BY <1>1, <2>1, TroubleTypes DEF Signal
<1>2. CASE StopRecords(d)
  BY <1>2, AppendType, FactUpdates DEF StopRecords
<1>3. CASE StopReleases(d)
  BY <1>3 DEF StopReleases
<1>4. CASE Exit(d)
  BY <1>4, RestartedTypes DEF Exit
<1>5. CASE Crash(d)
  BY <1>5, RestartedTypes, TroubleTypes DEF Crash
<1> QED BY <1>1, <1>2, <1>3, <1>4, <1>5 DEF Process

LEMMA AroundTypes == ASSUME TypeOK, NEW d \in Dispatchers, Around(d) PROVE TypeOK'
<1> USE DEF TypeOK, Leases, own
<1>1. CASE Beat(d)
  BY <1>1, LeaseTypes DEF Beat
<1>2. CASE Lead(d)
  BY <1>2 DEF Lead
<1>3. CASE Supersede(d)
  BY <1>3, TroubleTypes DEF Supersede
<1>4. CASE Lapse(d)
  <2>1. lease' \in Leases
    BY <1>4, LeaseTypes DEF Lapse
  <2>2. faults' \in 0 .. MaxTrouble /\ mishaps' \in 0 .. MaxTrouble
    BY <1>4, TroubleTypes DEF Lapse
  <2>3. lapsed' = TRUE /\ UNCHANGED <<log, posted, runner, leader, doing, current, stop, late>>
    BY <1>4 DEF Lapse
  <2> QED BY <2>1, <2>2, <2>3
<1> QED BY <1>1, <1>2, <1>3, <1>4 DEF Around

LEMMA ElsewhereTypes == ASSUME TypeOK, Elsewhere PROVE TypeOK'
<1> USE DEF TypeOK, Leases, own
<1>1. PICK d : d \in Dispatchers
  BY DispatchAssumption DEF DispatchAssumption
<1>2. CASE LateBeatLands
  BY <1>1, <1>2, LeaseTypes DEF LateBeatLands
<1>3. CASE Expire
  BY <1>1, <1>3, LeaseTypes DEF Expire
<1>4. CASE Age
  BY <1>4, FactUpdates DEF Age
<1>5. CASE RunnerStarts
  <2>1. lease' \in Leases
    BY <1>1, <1>5, LeaseTypes DEF RunnerStarts
  <2>2. log' \in FactSets /\ current' \in [Dispatchers -> BOOLEAN]
    BY <1>5, AppendType, FactUpdates DEF RunnerStarts
  <2>3. runner' = FALSE /\ UNCHANGED <<doing, posted, leader, stop, late, faults, mishaps, lapsed>>
    BY <1>5 DEF RunnerStarts
  <2> QED BY <2>1, <2>2, <2>3
<1>6. CASE Answer
  BY <1>6, AppendType, FactUpdates DEF Answer
<1>7. CASE RunnerDies
  BY <1>7, TroubleTypes DEF RunnerDies
<1> QED BY <1>2, <1>3, <1>4, <1>5, <1>6, <1>7 DEF Elsewhere

LEMMA NextTypes == ASSUME TypeOK, [Next]_vars PROVE TypeOK'
<1>1. CASE UNCHANGED vars
  BY <1>1 DEF vars, shared, own, TypeOK
<1>2. CASE Next
  BY <1>2, NextSplits, AttemptTypes, ContinuationTypes, BoundaryTypes, ProcessTypes, AroundTypes,
     ElsewhereTypes
<1> QED BY <1>1, <1>2

-----------------------------------------------------------------------------
(* Launches                                                                *)

(***************************************************************************)
(* What a job goes by is in the log, whoever put it there: what it has     *)
(* seen, and what the boundary it is at comes after.                       *)
(***************************************************************************)
Founded(facts, comment, j) ==
  /\ j.seen.spec => facts.spec
  /\ j.seen.comment => facts.comment
  /\ j.at \in {"budget", "raise"} /\ j.next = "boundaries" => facts.ws
  /\ j.at \in {"provisioned", "boundaries", "spec", "comment", "commented", "launch", "reserve",
              "starting"} => facts.ws
  /\ j.at \in {"comment", "commented", "launch", "reserve", "starting"} => facts.spec
  /\ j.at = "commented" => comment
  /\ j.at \in {"launch", "reserve", "starting"} => facts.comment

JobsFounded == \A d \in Dispatchers : Founded(log, posted, doing[d])

FoundedInv == (log.comment => posted) /\ LaunchIsFounded /\ JobsFounded

\* Nothing that a job is founded on is ever taken back.
Grows ==
  /\ log.ws => log'.ws
  /\ log.spec => log'.spec
  /\ log.comment => log'.comment
  /\ posted => posted'

\* The step starts a runner, or may have.
Launches(d) == StartRunner(d) \/ (BoundaryFails(d) /\ doing[d].at = "starting")

\* Only the boundaries record a comment, and only a launch founds a runner.
Sources ==
  /\ log'.comment => log.comment \/ \E d \in Dispatchers : RecordComment(d)
  /\ runner' \/ log'.attached => runner \/ log.attached \/ \E d \in Dispatchers : Launches(d)

LEMMA NextGrows == ASSUME TypeOK, Next PROVE Grows /\ Sources
<1> USE DEF TypeOK, Grows, Sources, shared, own, FactSets, Append
<1>1. ASSUME NEW d \in Dispatchers, Attempt(d) PROVE Grows /\ Sources
  <2>1. CASE Tick(d) \/ Budget(d) \/ Facts(d) \/ Marker(d)
    BY <2>1 DEF Tick, Budget, Facts, Marker
  <2>2. CASE Raise(d)
    BY <2>2 DEF Raise
  <2>3. CASE Mark(d)
    BY <2>3 DEF Mark
  <2> QED BY <1>1, <2>1, <2>2, <2>3 DEF Attempt
<1>2. ASSUME NEW d \in Dispatchers, Continuation(d) PROVE Grows /\ Sources
  <2>1. CASE Start(d) \/ Claimed(d) \/ Release(d) \/ Finally(d)
    BY <2>1 DEF Start, Claimed, Release, Finally
  <2>2. CASE Provisioned(d)
    BY <2>2 DEF Provisioned
  <2>3. CASE ProvisionFails(d)
    BY <2>3 DEF ProvisionFails
  <2> QED BY <1>2, <2>1, <2>2, <2>3 DEF Continuation
<1>3. ASSUME NEW d \in Dispatchers, Boundary(d) PROVE Grows /\ Sources
  <2>1. CASE Launch(d) \/ Reserve(d) \/ StartRunner(d)
    BY <2>1 DEF Launch, Reserve, StartRunner, Launches
  <2>2. CASE RecordComment(d)
    BY <2>2 DEF RecordComment
  <2>3. CASE BoundaryFails(d)
    BY <2>3 DEF BoundaryFails, Launches
  <2>4. CASE Boundaries(d) \/ ImportSpec(d) \/ Comment(d) \/ RecordFailure(d)
    BY <2>4 DEF Boundaries, ImportSpec, Comment, RecordFailure
  <2> QED BY <1>3, <2>1, <2>2, <2>3, <2>4 DEF Boundary
<1>4. ASSUME NEW d \in Dispatchers, Process(d) PROVE Grows /\ Sources
  BY <1>4 DEF Process, Signal, StopRecords, StopReleases, Exit, Crash, Restarted
<1>5. ASSUME NEW d \in Dispatchers, Around(d) PROVE Grows /\ Sources
  BY <1>5 DEF Around, Beat, Lead, Supersede, Lapse
<1>6. CASE Elsewhere
  <2>1. CASE LateBeatLands \/ Expire
    BY <2>1 DEF LateBeatLands, Expire
  <2>2. CASE Age
    BY <2>2 DEF Age
  <2>3. CASE RunnerStarts
    BY <2>3 DEF RunnerStarts
  <2>4. CASE Answer
    BY <2>4 DEF Answer
  <2>5. CASE RunnerDies
    BY <2>5 DEF RunnerDies
  <2> QED BY <1>6, <2>1, <2>2, <2>3, <2>4, <2>5 DEF Elsewhere
<1> QED BY <1>1, <1>2, <1>3, <1>4, <1>5, <1>6, NextSplits

LEMMA FoundedGrows ==
  ASSUME NEW j, Founded(log, posted, j), Grows PROVE Founded(log', posted', j)
  BY DEF Founded, Grows

LEMMA IdleFounded == ASSUME NEW f, NEW p PROVE Founded(f, p, Idle)
  BY DEF Founded, Idle, NoFacts

\* A job that a step changes is founded after it.
LEMMA StepFounded ==
  ASSUME TypeOK, JobsFounded, Grows, NEW d \in Dispatchers, NEW j, Becomes(d, j),
         Founded(log', posted', j)
  PROVE  JobsFounded'
<1>1. \A e \in Dispatchers \ {d} : doing'[e] = doing[e] /\ Founded(log', posted', doing[e])
  BY BecomesType, FoundedGrows DEF TypeOK, JobsFounded
<1>2. doing'[d] = j
  BY BecomesType DEF TypeOK
<1> QED BY <1>1, <1>2 DEF JobsFounded

LEMMA EndFounded ==
  ASSUME TypeOK, JobsFounded, Grows, NEW d \in Dispatchers, End(d) PROVE JobsFounded'
<1>1. Becomes(d, Idle)
  BY Steps DEF TypeOK
<1> QED BY <1>1, StepFounded, IdleFounded

LEMMA CheckFounded ==
  ASSUME TypeOK, JobsFounded, Grows, NEW d \in Dispatchers,
         NEW then \in {"facts", "boundaries", "end"}, Check(d, then),
         then = "boundaries" => log'.ws
  PROVE  JobsFounded'
<1>1. Becomes(d, Checking(d, then))
  BY Steps DEF TypeOK
<1>2. Founded(log', posted', Checking(d, then))
  BY DEF Founded, Checking, NoFacts, TypeOK, Jobs
<1> QED BY <1>1, <1>2, StepFounded

LEMMA GoFounded ==
  ASSUME TypeOK, JobsFounded, Grows, NEW d \in Dispatchers, NEW pc \in Places, Go(d, pc),
         Founded(log', posted', At(d, pc))
  PROVE  JobsFounded'
<1>1. Becomes(d, At(d, pc))
  BY Steps DEF TypeOK
<1> QED BY <1>1, StepFounded

LEMMA GoSeenFounded ==
  ASSUME TypeOK, JobsFounded, Grows, NEW d \in Dispatchers, NEW pc \in Places, GoSeen(d, pc),
         Founded(log', posted', Looked(d, pc))
  PROVE  JobsFounded'
<1>1. Becomes(d, Looked(d, pc))
  BY Steps DEF TypeOK
<1> QED BY <1>1, StepFounded

LEMMA AttemptFounded ==
  ASSUME TypeOK, JobsFounded, Grows, NEW d \in Dispatchers, Attempt(d) PROVE JobsFounded'
<1>0. Founded(log, posted, doing[d]) /\ doing[d] \in Jobs
  BY DEF JobsFounded, TypeOK
<1>1. CASE Tick(d)
  BY <1>1, CheckFounded DEF Tick
<1>2. CASE Budget(d)
  <2>1. CASE End(d)
    BY <2>1, EndFounded
  <2>2. CASE doing[d].at = "budget" /\ Go(d, "raise")
    <3>1. Founded(log, posted, At(d, "raise"))
      BY <1>0, <2>2 DEF Founded, At, Jobs
    <3> QED BY <2>2, <3>1, GoFounded, FoundedGrows DEF Places
  <2>3. CASE /\ doing[d].at = "budget" /\ doing[d].next # "end"
             /\ doing' = [doing EXCEPT ![d].at = doing[d].next, ![d].next = "end"]
    <3>1. Becomes(d, Onward(d))
      BY <2>3, JobTypes DEF Onward, Jobs, Becomes, TypeOK
    <3>2. Founded(log, posted, Onward(d))
      BY <1>0, <2>3 DEF Founded, Onward, Jobs
    <3> QED BY <3>1, <3>2, StepFounded, FoundedGrows
  <2> QED BY <1>2, <2>1, <2>2, <2>3 DEF Budget
<1>3. CASE Raise(d)
  <2>1. CASE Go(d, "budget")
    <3>1. Founded(log, posted, At(d, "budget"))
      BY <1>0, <1>3 DEF Founded, At, Jobs, Raise
    <3> QED BY <2>1, <3>1, GoFounded, FoundedGrows DEF Places
  <2> QED BY <1>3, <2>1, EndFounded DEF Raise
<1>4. CASE Facts(d)
  <2>1. CASE Check(d, "boundaries") /\ log.ws
    BY <2>1, CheckFounded DEF Grows
  <2>2. CASE GoSeen(d, "marker")
    <3>1. Founded(log, posted, Looked(d, "marker"))
      BY <1>0 DEF Founded, Looked, Jobs, Seen, NoFacts
    <3> QED BY <2>2, <3>1, GoSeenFounded, FoundedGrows DEF Places
  <2> QED BY <1>4, <2>1, <2>2 DEF Facts
<1>5. CASE Marker(d)
  <2>1. Founded(log, posted, At(d, "mark"))
    BY <1>0 DEF Founded, At, Jobs
  <2> QED BY <1>5, <2>1, EndFounded, GoFounded, FoundedGrows DEF Marker, Places
<1>6. CASE Mark(d)
  <2>1. Becomes(d, Kicked)
    BY <1>6, JobTypes DEF Mark, Kicked, Becomes, TypeOK
  <2>2. Founded(log', posted', Kicked)
    BY DEF Founded, Kicked, Idle, NoFacts
  <2> QED BY <2>1, <2>2, StepFounded
<1> QED BY <1>1, <1>2, <1>3, <1>4, <1>5, <1>6 DEF Attempt

LEMMA ContinuationFounded ==
  ASSUME TypeOK, JobsFounded, Grows, NEW d \in Dispatchers, Continuation(d) PROVE JobsFounded'
<1>0. Founded(log, posted, doing[d]) /\ doing[d] \in Jobs
  BY DEF JobsFounded, TypeOK
<1>1. \A pc \in {"claimed", "call", "finally"} : Founded(log, posted, At(d, pc))
  BY <1>0 DEF Founded, At, Jobs
<1>2. CASE Start(d)
  BY <1>1, <1>2, EndFounded, GoFounded, FoundedGrows DEF Start, Places
<1>3. CASE Claimed(d)
  BY <1>1, <1>3, GoFounded, FoundedGrows DEF Claimed, Places
<1>4. CASE Provisioned(d)
  <2>1. log'.ws
    BY <1>4 DEF Provisioned, Append, TypeOK, FactSets
  <2>2. Founded(log', posted', At(d, "provisioned"))
    BY <1>0, <2>1 DEF Founded, At, Jobs, Grows
  <2> QED BY <1>4, <2>2, GoFounded DEF Provisioned, Places
<1>5. CASE ProvisionFails(d)
  BY <1>1, <1>5, GoFounded, FoundedGrows DEF ProvisionFails, Places
<1>6. CASE Release(d)
  <2>1. log'.ws
    BY <1>0, <1>6 DEF Release, Founded, Grows
  <2> QED BY <1>6, <2>1, EndFounded, CheckFounded DEF Release
<1>7. CASE Finally(d)
  BY <1>7, EndFounded DEF Finally
<1> QED BY <1>2, <1>3, <1>4, <1>5, <1>6, <1>7 DEF Continuation

LEMMA BoundaryFounded ==
  ASSUME TypeOK, JobsFounded, log.comment => posted, Grows, NEW d \in Dispatchers, Boundary(d)
  PROVE  JobsFounded'
<1>0. Founded(log, posted, doing[d]) /\ doing[d] \in Jobs
  BY DEF JobsFounded, TypeOK
<1>1. CASE Boundaries(d)
  <2>1. Founded(log, posted, Looked(d, Missing(log)))
    BY <1>0, <1>1, MissingPlace DEF Boundaries, Founded, Looked, Jobs, Seen, NoFacts
  <2> QED BY <1>1, <2>1, EndFounded, GoSeenFounded, FoundedGrows, MissingPlace DEF Boundaries, Places
<1>2. CASE ImportSpec(d)
  <2> DEFINE seen == [doing[d].seen EXCEPT !.spec = TRUE]
  <2>1. log'.spec
    BY <1>2 DEF ImportSpec, Append, TypeOK, FactSets
  <2>2. seen.comment = doing[d].seen.comment
    BY <1>0 DEF Jobs, FactSets
  <2>3. Missing(seen) \in {"spec", "comment", "launch"} /\ (Missing(seen) = "launch" => seen.comment)
    BY MissingPlace
  <2>4. Founded(log', posted', At(d, Missing(seen)))
    BY <1>0, <1>2, <2>1, <2>2, <2>3 DEF ImportSpec, Founded, At, Jobs, Grows
  <2> QED BY <1>2, <2>3, <2>4, GoFounded DEF ImportSpec, Places
<1>3. CASE Comment(d)
  <2>1. Founded(log', posted', At(d, "commented"))
    BY <1>0, <1>3 DEF Comment, Founded, At, Jobs, Grows
  <2> QED BY <1>3, <2>1, GoFounded DEF Comment, Places
<1>4. CASE RecordComment(d)
  <2>1. log'.comment
    BY <1>4 DEF RecordComment, Append, TypeOK, FactSets
  <2>2. Founded(log', posted', At(d, "launch"))
    BY <1>0, <1>4, <2>1 DEF RecordComment, Founded, At, Jobs, Grows
  <2> QED BY <1>4, <2>2, GoFounded DEF RecordComment, Places
<1>5. CASE Launch(d)
  <2>1. Founded(log, posted, At(d, "reserve"))
    BY <1>0, <1>5 DEF Launch, Founded, At, Jobs
  <2> QED BY <1>5, <2>1, EndFounded, GoFounded, FoundedGrows DEF Launch, Places
<1>6. CASE Reserve(d)
  <2>1. Founded(log, posted, At(d, "starting"))
    BY <1>0, <1>6 DEF Reserve, Founded, At, Jobs
  <2> QED BY <1>6, <2>1, EndFounded, GoFounded, FoundedGrows DEF Reserve, Places
<1>7. CASE StartRunner(d)
  BY <1>7, EndFounded DEF StartRunner
<1>8. CASE BoundaryFails(d)
  <2>1. Founded(log, posted, At(d, "failed"))
    BY <1>0 DEF Founded, At, Jobs
  <2> QED BY <1>8, <2>1, GoFounded, FoundedGrows DEF BoundaryFails, Places
<1>9. CASE RecordFailure(d)
  BY <1>9, CheckFounded DEF RecordFailure
<1> QED BY <1>1, <1>2, <1>3, <1>4, <1>5, <1>6, <1>7, <1>8, <1>9 DEF Boundary

LEMMA OthersFounded ==
  ASSUME TypeOK, JobsFounded, Grows, Elsewhere \/ \E d \in Dispatchers : Process(d) \/ Around(d)
  PROVE  JobsFounded'
<1>0. (doing' = doing) => JobsFounded'
  BY FoundedGrows DEF JobsFounded
<1>1. CASE Elsewhere
  BY <1>0, <1>1 DEF Elsewhere, LateBeatLands, Expire, Age, RunnerStarts, RunnerDies, Answer, own
<1>2. ASSUME NEW d \in Dispatchers, Around(d) PROVE JobsFounded'
  BY <1>0, <1>2 DEF Around, Beat, Lead, Supersede, Lapse, own
<1>3. ASSUME NEW d \in Dispatchers, Process(d) PROVE JobsFounded'
  <2>1. CASE Signal(d)
    <3>1. doing[d] \in Jobs /\ Founded(log, posted, doing[d])
      BY DEF JobsFounded, TypeOK
    <3>2. Becomes(d, [doing[d] EXCEPT !.aborted = TRUE])
      BY <2>1, <3>1 DEF Signal, Becomes, Jobs
    <3>3. Founded(log, posted, [doing[d] EXCEPT !.aborted = TRUE])
      BY <3>1 DEF Founded, Jobs
    <3> QED BY <3>2, <3>3, StepFounded, FoundedGrows
  <2>2. CASE StopRecords(d) \/ StopReleases(d)
    BY <1>0, <2>2 DEF StopRecords, StopReleases
  <2>3. CASE Exit(d) \/ Crash(d)
    BY <2>3, EndFounded DEF Exit, Crash, Restarted
  <2> QED BY <1>3, <2>1, <2>2, <2>3 DEF Process
<1> QED BY <1>1, <1>2, <1>3

LEMMA NextFounded == ASSUME TypeOK, FoundedInv, [Next]_vars PROVE FoundedInv'
<1>1. CASE UNCHANGED vars
  BY <1>1 DEF vars, shared, own, FoundedInv, LaunchIsFounded, JobsFounded, Founded
<1>2. CASE Next
  <2>1. Grows /\ Sources
    BY <1>2, NextGrows
  <2>2. JobsFounded
    BY DEF FoundedInv
  <2>3. JobsFounded'
    BY <1>2, <2>1, <2>2, NextSplits, AttemptFounded, ContinuationFounded, BoundaryFounded,
       OthersFounded DEF FoundedInv
  <2>4. \A d \in Dispatchers : RecordComment(d) => posted
    BY <2>2 DEF RecordComment, JobsFounded, Founded
  <2>5. \A d \in Dispatchers : Launches(d) => log.ws /\ log.spec /\ log.comment
    BY <2>2 DEF Launches, StartRunner, JobsFounded, Founded
  <2> QED BY <2>1, <2>3, <2>4, <2>5 DEF FoundedInv, LaunchIsFounded, Grows, Sources
<1> QED BY <1>1, <1>2

-----------------------------------------------------------------------------
(* One provisioner                                                         *)

(***************************************************************************)
(* Only a continuation is signalled, and a continuation never provisions   *)
(* again.  A dispatcher that shuts down has signalled what it runs.  So    *)
(* whoever runs unsignalled, and did not let its lease run out, holds it.  *)
(***************************************************************************)
Signalled(j) ==
  /\ j.aborted => j.cont
  /\ j.cont => /\ j.at \notin {"idle", "facts", "marker", "mark"}
               /\ j.at \in {"budget", "raise"} => j.next # "facts"

StopInv ==
  \A d \in Dispatchers :
    Signalled(doing[d]) /\ (stop[d] # "no" => doing[d].at = "idle" \/ doing[d].aborted)

Sure(d) == ~lapsed /\ Beating(d) /\ ~doing[d].aborted

LeaseInv == \A d \in Dispatchers : Sure(d) => lease = [by |-> d, live |-> TRUE]

LEMMA StepSignalled ==
  ASSUME TypeOK, StopInv, UNCHANGED stop, NEW d \in Dispatchers, NEW j, Becomes(d, j), Signalled(j),
         stop[d] # "no" => j.at = "idle" \/ j.aborted
  PROVE  StopInv'
<1>1. doing'[d] = j /\ \A e \in Dispatchers \ {d} : doing'[e] = doing[e]
  BY BecomesType DEF TypeOK
<1> QED BY <1>1 DEF StopInv

LEMMA EndSignalled ==
  ASSUME TypeOK, StopInv, UNCHANGED stop, NEW d \in Dispatchers, End(d) PROVE StopInv'
<1>1. Becomes(d, Idle)
  BY Steps DEF TypeOK
<1>2. Signalled(Idle) /\ Idle.at = "idle"
  BY DEF Signalled, Idle
<1> QED BY <1>1, <1>2, StepSignalled

\* A job goes on: it keeps its signal.
LEMMA GoSignalled ==
  ASSUME TypeOK, StopInv, UNCHANGED stop, NEW d \in Dispatchers, doing[d].at # "idle",
         NEW pc \in Places \ {"idle", "facts", "marker", "mark"}, Go(d, pc),
         pc \in {"budget", "raise"} => doing[d].at \in {"budget", "raise"}
  PROVE  StopInv'
<1>1. Becomes(d, At(d, pc))
  BY Steps DEF TypeOK
<1>2. doing[d] \in Jobs
  BY DEF TypeOK
<1>3. Signalled(At(d, pc)) /\ (stop[d] # "no" => At(d, pc).aborted)
  BY <1>2 DEF At, Jobs, Signalled, StopInv
<1> QED BY <1>1, <1>3, StepSignalled

LEMMA CheckSignalled ==
  ASSUME TypeOK, StopInv, UNCHANGED stop, NEW d \in Dispatchers, doing[d].at # "idle",
         NEW then \in {"boundaries", "end"}, Check(d, then)
  PROVE  StopInv'
<1>1. Becomes(d, Checking(d, then))
  BY Steps DEF TypeOK
<1>2. doing[d] \in Jobs
  BY DEF TypeOK
<1>3. Signalled(Checking(d, then)) /\ (stop[d] # "no" => Checking(d, then).aborted)
  BY <1>2 DEF Checking, Jobs, Signalled, StopInv
<1> QED BY <1>1, <1>3, StepSignalled

LEMMA AttemptSignalled ==
  ASSUME TypeOK, StopInv, NEW d \in Dispatchers, Attempt(d) PROVE StopInv'
<1>0. /\ Signalled(doing[d]) /\ doing[d] \in Jobs
      /\ stop[d] # "no" => doing[d].at = "idle" \/ doing[d].aborted
  BY DEF StopInv, TypeOK
<1>1. CASE Tick(d)
  <2>1. Becomes(d, Checking(d, "facts")) /\ stop[d] = "no" /\ UNCHANGED stop
    BY <1>1, Steps DEF Tick, TypeOK
  <2>2. Signalled(Checking(d, "facts"))
    BY <1>0, <1>1 DEF Tick, Signalled, Checking, Jobs
  <2> QED BY <2>1, <2>2, StepSignalled
<1>2. CASE Budget(d)
  <2>1. UNCHANGED stop /\ doing[d].at = "budget"
    BY <1>2 DEF Budget
  <2>2. CASE End(d)
    BY <2>1, <2>2, EndSignalled
  <2>3. CASE Go(d, "raise")
    BY <2>1, <2>3, GoSignalled DEF Places
  <2>4. CASE /\ doing[d].next # "end"
             /\ doing' = [doing EXCEPT ![d].at = doing[d].next, ![d].next = "end"]
    <3>1. Becomes(d, Onward(d))
      BY <2>4, JobTypes DEF Onward, Jobs, Becomes, TypeOK
    <3>2. Signalled(Onward(d)) /\ (stop[d] # "no" => Onward(d).aborted)
      BY <1>0, <2>1, <2>4 DEF Signalled, Onward, Jobs
    <3> QED BY <2>1, <3>1, <3>2, StepSignalled
  <2> QED BY <1>2, <2>2, <2>3, <2>4 DEF Budget
<1>3. CASE Raise(d)
  BY <1>3, EndSignalled, GoSignalled DEF Raise, Places
<1>4. CASE Facts(d) \/ Marker(d) \/ Mark(d)
  <2>1. doing[d].at \in {"facts", "marker", "mark"} /\ UNCHANGED stop
    BY <1>4 DEF Facts, Marker, Mark
  <2>2. ~doing[d].cont /\ stop[d] = "no"
    BY <1>0, <2>1 DEF Signalled
  <2>3. CASE End(d)
    BY <2>1, <2>3, EndSignalled
  <2>4. CASE Check(d, "boundaries")
    BY <2>1, <2>4, CheckSignalled
  <2>5. CASE GoSeen(d, "marker")
    <3>1. Becomes(d, Looked(d, "marker"))
      BY <2>5, Steps DEF TypeOK, Places
    <3>2. Signalled(Looked(d, "marker"))
      BY <1>0, <2>2 DEF Signalled, Looked, Jobs
    <3> QED BY <2>1, <2>2, <3>1, <3>2, StepSignalled
  <2>6. CASE Go(d, "mark")
    <3>1. Becomes(d, At(d, "mark"))
      BY <2>6, Steps DEF TypeOK, Places
    <3>2. Signalled(At(d, "mark"))
      BY <1>0, <2>2 DEF Signalled, At, Jobs
    <3> QED BY <2>1, <2>2, <3>1, <3>2, StepSignalled
  <2>7. CASE Mark(d)
    <3>1. Becomes(d, Kicked)
      BY <2>7, JobTypes DEF Mark, Kicked, Becomes, TypeOK
    <3>2. Signalled(Kicked)
      BY DEF Signalled, Kicked, Idle
    <3> QED BY <2>1, <2>2, <3>1, <3>2, StepSignalled
  <2> QED BY <1>4, <2>3, <2>4, <2>5, <2>6, <2>7 DEF Facts, Marker
<1> QED BY <1>1, <1>2, <1>3, <1>4 DEF Attempt

LEMMA WorkSignalled ==
  ASSUME TypeOK, StopInv, NEW d \in Dispatchers, Continuation(d) \/ Boundary(d) PROVE StopInv'
<1>0. doing[d].at # "idle" /\ UNCHANGED stop
  BY DEF Continuation, Start, Claimed, Provisioned, ProvisionFails, Release, Finally, Boundary,
         Boundaries, ImportSpec, Comment, RecordComment, Launch, Reserve, StartRunner,
         BoundaryFails, RecordFailure
<1>1. \/ End(d)
      \/ \E then \in {"boundaries", "end"} : Check(d, then)
      \/ \E pc \in {"claimed", "call", "finally", "provisioned", "spec", "comment", "commented",
                    "launch", "reserve", "starting", "failed"} : Go(d, pc)
      \/ Boundaries(d) /\ GoSeen(d, Missing(log))
  BY MissingPlace
     DEF Continuation, Start, Claimed, Provisioned, ProvisionFails, Release, Finally, Boundary,
         Boundaries, ImportSpec, Comment, RecordComment, Launch, Reserve, StartRunner,
         BoundaryFails, RecordFailure
<1>2. CASE GoSeen(d, Missing(log))
  <2>1. Missing(log) \in {"spec", "comment", "launch"}
    BY MissingPlace
  <2>2. Becomes(d, Looked(d, Missing(log)))
    BY <1>2, <2>1, Steps DEF TypeOK, Places
  <2>3. Signalled(Looked(d, Missing(log))) /\ (stop[d] # "no" => Looked(d, Missing(log)).aborted)
    BY <1>0, <2>1 DEF Signalled, Looked, Jobs, StopInv, TypeOK
  <2> QED BY <1>0, <2>2, <2>3, StepSignalled
<1> QED BY <1>0, <1>1, <1>2, EndSignalled, CheckSignalled, GoSignalled DEF Places

LEMMA OthersSignalled ==
  ASSUME TypeOK, StopInv, Elsewhere \/ \E d \in Dispatchers : Process(d) \/ Around(d)
  PROVE  StopInv'
<1>1. CASE Elsewhere
  BY <1>1 DEF Elsewhere, LateBeatLands, Expire, Age, RunnerStarts, RunnerDies, Answer, own, StopInv
<1>2. ASSUME NEW d \in Dispatchers, Around(d) PROVE StopInv'
  BY <1>2 DEF Around, Beat, Lead, Supersede, Lapse, own, StopInv
<1>3. ASSUME NEW d \in Dispatchers, Process(d) PROVE StopInv'
  <2>0. \A e \in Dispatchers : doing[e] \in Jobs
    BY DEF TypeOK
  <2>1. CASE Signal(d)
    <3>1. doing'[d] = [doing[d] EXCEPT !.aborted = TRUE] /\ stop'[d] = "signalled"
      BY <2>0, <2>1 DEF Signal, TypeOK
    <3>2. \A e \in Dispatchers \ {d} : doing'[e] = doing[e] /\ stop'[e] = stop[e]
      BY <2>1 DEF Signal, TypeOK
    <3>3. Signalled(doing'[d]) /\ doing'[d].aborted
      BY <2>0, <2>1, <3>1 DEF Signal, Signalled, StopInv, Jobs
    <3> QED BY <3>2, <3>3 DEF StopInv
  <2>2. CASE StopRecords(d) \/ StopReleases(d)
    BY <2>2 DEF StopRecords, StopReleases, StopInv, TypeOK
  <2>3. CASE Restarted(d)
    <3>1. doing' = [doing EXCEPT ![d] = Idle] /\ stop' = [stop EXCEPT ![d] = "no"]
      BY <2>3 DEF Restarted, End
    <3>2. Signalled(Idle)
      BY DEF Signalled, Idle
    <3> QED BY <3>1, <3>2 DEF StopInv, TypeOK
  <2> QED BY <1>3, <2>1, <2>2, <2>3 DEF Process, Exit, Crash
<1> QED BY <1>1, <1>2, <1>3

LEMMA NextSignalled == ASSUME TypeOK, StopInv, [Next]_vars PROVE StopInv'
<1>1. CASE UNCHANGED vars
  BY <1>1 DEF vars, shared, own, StopInv
<1>2. CASE Next
  BY <1>2, NextSplits, AttemptSignalled, WorkSignalled, OthersSignalled
<1> QED BY <1>1, <1>2

\* Nobody claims what an unsignalled continuation holds.
LEMMA HeldIsNotClaimable ==
  ASSUME LeaseInv, NEW e \in Dispatchers, Sure(e), NEW d \in Dispatchers, ClaimableBy(d)
  PROVE  d = e
  BY DispatchAssumption DEF DispatchAssumption, LeaseInv, ClaimableBy, NoOne

\* Where a job goes, and that no other job moves.
Alone(d) == \A f \in Dispatchers \ {d} : doing'[f] = doing[f]

LEMMA Destinations ==
  ASSUME TypeOK, NEW d \in Dispatchers
  PROVE  /\ \A pc \in Places : Go(d, pc) =>
              Alone(d) /\ doing'[d].at = pc /\ doing'[d].aborted = doing[d].aborted
         /\ \A pc \in Places : GoSeen(d, pc) =>
              Alone(d) /\ doing'[d].at = pc /\ doing'[d].aborted = doing[d].aborted
         /\ \A then \in {"facts", "boundaries", "end"} : Check(d, then) =>
              Alone(d) /\ doing'[d].at = "budget"
         /\ End(d) => Alone(d) /\ doing'[d].at = "idle"
<1>0. doing \in [Dispatchers -> Jobs] /\ log \in FactSets
  BY DEF TypeOK
<1>1. doing[d] \in Jobs
  BY <1>0
<1>2. ASSUME NEW pc \in Places, Go(d, pc)
      PROVE  Alone(d) /\ doing'[d].at = pc /\ doing'[d].aborted = doing[d].aborted
  <2>1. Becomes(d, At(d, pc))
    BY <1>0, <1>2, Steps
  <2>2. Alone(d) /\ doing'[d] = At(d, pc)
    BY <1>0, <2>1, BecomesType DEF Alone
  <2> QED BY <1>1, <2>2 DEF At, Jobs
<1>3. ASSUME NEW pc \in Places, GoSeen(d, pc)
      PROVE  Alone(d) /\ doing'[d].at = pc /\ doing'[d].aborted = doing[d].aborted
  <2>1. Becomes(d, Looked(d, pc))
    BY <1>0, <1>3, Steps
  <2>2. Alone(d) /\ doing'[d] = Looked(d, pc)
    BY <1>0, <2>1, BecomesType DEF Alone
  <2> QED BY <1>1, <2>2 DEF Looked, Jobs
<1>4. ASSUME NEW then \in {"facts", "boundaries", "end"}, Check(d, then)
      PROVE  Alone(d) /\ doing'[d].at = "budget"
  <2>1. Becomes(d, Checking(d, then))
    BY <1>0, <1>4, Steps
  <2>2. Alone(d) /\ doing'[d] = Checking(d, then)
    BY <1>0, <2>1, BecomesType DEF Alone
  <2> QED BY <1>1, <2>2 DEF Checking, Jobs
<1>5. End(d) => Alone(d) /\ doing'[d].at = "idle"
  BY <1>0, Steps, BecomesType DEF Idle, Alone
<1> QED BY <1>2, <1>3, <1>4, <1>5

\* Only a claim makes a continuation sure of the lease.
LEMMA SureBefore ==
  ASSUME TypeOK, Next, NEW e \in Dispatchers, Sure(e)' PROVE Sure(e) \/ Start(e)
<1> DEFINE Beats == {"claimed", "call", "provisioned", "finally"}
<1>0. \A d \in Dispatchers : doing[d] \in Jobs
  BY DEF TypeOK
<1>1. doing' = doing /\ (lapsed => lapsed') => Sure(e)
  BY DEF Sure, Beating
<1>2. ASSUME NEW d \in Dispatchers, Alone(d), lapsed' = lapsed,
             doing'[d].at \notin Beats \/ Start(d)
               \/ (Beating(d) /\ doing'[d].aborted = doing[d].aborted)
      PROVE  Sure(e) \/ Start(e)
  BY <1>2 DEF Sure, Beating, Alone
<1>3. ASSUME NEW d \in Dispatchers, Attempt(d) PROVE Sure(e) \/ Start(e)
  <2>1. lapsed' = lapsed
    BY <1>3 DEF Attempt, Tick, Budget, Raise, Facts, Marker, Mark
  <2>2. Alone(d) /\ doing'[d].at \notin Beats
    <3>1. CASE doing' = [doing EXCEPT ![d] = Kicked]
      BY <3>1 DEF TypeOK, Alone, Kicked, Idle
    <3>2. CASE /\ doing[d].next # "end"
               /\ doing' = [doing EXCEPT ![d].at = doing[d].next, ![d].next = "end"]
      BY <1>0, <3>2 DEF TypeOK, Alone, Jobs
    <3>3. \/ End(d) \/ Check(d, "facts") \/ Check(d, "boundaries")
          \/ Go(d, "raise") \/ Go(d, "budget") \/ Go(d, "mark") \/ GoSeen(d, "marker")
          \/ doing' = [doing EXCEPT ![d] = Kicked]
          \/ /\ doing[d].next # "end"
             /\ doing' = [doing EXCEPT ![d].at = doing[d].next, ![d].next = "end"]
      BY <1>3 DEF Attempt, Tick, Budget, Raise, Facts, Marker, Mark, Kicked
    <3> QED BY <3>1, <3>2, <3>3, Destinations DEF Places
  <2> QED BY <1>2, <2>1, <2>2
<1>4. ASSUME NEW d \in Dispatchers, Continuation(d) PROVE Sure(e) \/ Start(e)
  <2>1. lapsed' = lapsed
    BY <1>4 DEF Continuation, Start, Claimed, Provisioned, ProvisionFails, Release, Finally
  <2>2. Start(d) \/ Beating(d)
    BY <1>4 DEF Continuation, Claimed, Provisioned, ProvisionFails, Release, Finally, Beating
  <2>3. \/ End(d) \/ Check(d, "boundaries")
        \/ \E pc \in Beats : Go(d, pc)
    BY <1>4 DEF Continuation, Start, Claimed, Provisioned, ProvisionFails, Release, Finally
  <2>4. Alone(d) /\ (doing'[d].at \notin Beats \/ doing'[d].aborted = doing[d].aborted)
    BY <2>3, Destinations DEF Places
  <2> QED BY <1>2, <2>1, <2>2, <2>4
<1>5. ASSUME NEW d \in Dispatchers, Boundary(d) PROVE Sure(e) \/ Start(e)
  <2>1. lapsed' = lapsed
    BY <1>5 DEF Boundary, Boundaries, ImportSpec, Comment, RecordComment, Launch, Reserve,
                StartRunner, BoundaryFails, RecordFailure
  <2>2. \/ End(d) \/ Check(d, "end") \/ GoSeen(d, Missing(log))
        \/ \E pc \in {"spec", "comment", "commented", "launch", "reserve", "starting",
                     "failed"} : Go(d, pc)
    BY <1>5, MissingPlace
       DEF Boundary, Boundaries, ImportSpec, Comment, RecordComment, Launch, Reserve, StartRunner,
           BoundaryFails, RecordFailure
  <2>3. Alone(d) /\ doing'[d].at \notin Beats
    BY <2>2, Destinations, MissingPlace DEF Places
  <2> QED BY <1>2, <2>1, <2>3
<1>6. ASSUME NEW d \in Dispatchers, Process(d) PROVE Sure(e) \/ Start(e)
  <2>1. CASE Signal(d)
    <3>1. doing'[d].aborted /\ \A f \in Dispatchers \ {d} : doing'[f] = doing[f]
      BY <1>0, <2>1 DEF Signal, TypeOK, Jobs
    <3> QED BY <2>1, <3>1 DEF Signal, Sure, Beating
  <2>2. CASE StopRecords(d) \/ StopReleases(d)
    BY <1>1, <2>2 DEF StopRecords, StopReleases
  <2>3. CASE Restarted(d)
    BY <1>2, <2>3, Destinations DEF Restarted
  <2> QED BY <1>6, <2>1, <2>2, <2>3 DEF Process, Exit, Crash
<1>7. ASSUME NEW d \in Dispatchers, Around(d) PROVE Sure(e) \/ Start(e)
  BY <1>7 DEF Around, Beat, Lead, Supersede, Lapse, own, Sure, Beating
<1>8. CASE Elsewhere
  BY <1>8 DEF Elsewhere, LateBeatLands, Expire, Age, RunnerStarts, RunnerDies, Answer, own, Sure, Beating
<1> QED BY <1>3, <1>4, <1>5, <1>6, <1>7, <1>8, NextSplits

\* Whoever is sure of the lease keeps it while it is.
LEMMA SureKeeps ==
  ASSUME TypeOK, StopInv, LeaseInv, Next, NEW e \in Dispatchers, Sure(e), Sure(e)'
  PROVE  lease' = [by |-> e, live |-> TRUE]
<1>0. lease = [by |-> e, live |-> TRUE] /\ ~lapsed' /\ doing'[e].at # "idle" /\ ~doing'[e].aborted
  BY DEF LeaseInv, Sure, Beating
<1>1. \A d \in Dispatchers : ClaimableBy(d) => d = e
  BY HeldIsNotClaimable
<1>2. ASSUME NEW d \in Dispatchers, Attempt(d) PROVE lease' = lease
  BY <1>2 DEF Attempt, Tick, Budget, Raise, Facts, Marker, Mark, shared
<1>3. ASSUME NEW d \in Dispatchers, Continuation(d) PROVE lease' = lease
  <2>1. CASE Start(d)
    BY <1>0, <1>1, <2>1 DEF Start, Sure, Beating
  <2>2. CASE Release(d) \/ Finally(d)
    <3>1. d # e
      <4>1. SUFFICES ASSUME d = e PROVE FALSE
        OBVIOUS
      <4>2. doing'[d].at \in {"idle", "budget"}
        BY <2>2, Destinations DEF Release, Finally
      <4> QED BY <4>1, <4>2 DEF Sure, Beating
    <3> QED BY <1>0, <2>2, <3>1 DEF Release, Finally, Released
  <2> QED BY <1>3, <2>1, <2>2
          DEF Continuation, Claimed, Provisioned, ProvisionFails, shared
<1>4. ASSUME NEW d \in Dispatchers, Boundary(d) PROVE lease' = lease
  <2>1. CASE Reserve(d)
    BY <1>0, <2>1 DEF Reserve
  <2> QED BY <1>4, <2>1
          DEF Boundary, Boundaries, ImportSpec, Comment, RecordComment, Launch, StartRunner,
              BoundaryFails, RecordFailure, shared
<1>5. ASSUME NEW d \in Dispatchers, Process(d) PROVE lease' = lease
  <2>1. CASE Signal(d) \/ StopRecords(d)
    BY <2>1 DEF Signal, StopRecords, shared
  <2>2. CASE StopReleases(d)
    <3>1. d # e
      BY <2>2 DEF StopReleases, StopInv, Sure, Beating
    <3> QED BY <1>0, <2>2, <3>1 DEF StopReleases, Released
  <2>3. CASE Restarted(d)
    <3>1. d # e
      BY <1>0, <2>3 DEF Restarted, End, TypeOK, Idle
    <3> QED BY <1>0, <2>3, <3>1 DEF Restarted
  <2> QED BY <1>5, <2>1, <2>2, <2>3 DEF Process, Exit, Crash
<1>6. ASSUME NEW d \in Dispatchers, Around(d) PROVE lease' = lease
  BY <1>0, <1>1, <1>6 DEF Around, Beat, Lead, Supersede, Lapse
<1>7. CASE Elsewhere
  <2>1. lease.by = e /\ lease.live /\ e \notin {"dead", "runner"}
    BY <1>0, DispatchAssumption DEF DispatchAssumption
  <2>2. lease # Dead /\ ~Unstarted
    BY <2>1 DEF Dead, Unstarted
  <2>3. CASE LateBeatLands \/ Expire
    BY <1>0, <2>1, <2>2, <2>3 DEF LateBeatLands, Expire
  <2>4. CASE Age \/ Answer
    BY <1>0, <2>4 DEF Age, Answer
  <2>5. CASE RunnerStarts \/ RunnerDies
    BY <1>0, <2>1, <2>5 DEF RunnerStarts, RunnerDies
  <2> QED BY <1>7, <2>3, <2>4, <2>5 DEF Elsewhere
<1> QED BY <1>0, <1>2, <1>3, <1>4, <1>5, <1>6, <1>7, NextSplits

LEMMA NextLease == ASSUME TypeOK, StopInv, LeaseInv, [Next]_vars PROVE LeaseInv'
<1>1. CASE UNCHANGED vars
  BY <1>1 DEF vars, shared, own, LeaseInv, Sure, Beating
<1>2. ASSUME Next, NEW e \in Dispatchers, Sure(e)' PROVE lease' = [by |-> e, live |-> TRUE]
  <2>1. CASE Sure(e)
    BY <1>2, <2>1, SureKeeps
  <2>2. CASE Start(e)
    <3>1. doing'[e].at # "idle"
      BY <1>2 DEF Sure, Beating
    <3>2. ~End(e)
      BY <3>1 DEF End, TypeOK, Idle
    <3> QED BY <2>2, <3>2 DEF Start
  <2> QED BY <1>2, <2>1, <2>2, SureBefore
<1> QED BY <1>1, <1>2 DEF LeaseInv

-----------------------------------------------------------------------------
(* The failure budget                                                      *)

\* From a passed budget check to the failure it may record.
Flights == {"boundaries", "spec", "comment", "commented", "launch", "reserve", "starting", "failed"}
Flying(d) == doing[d].at \in Flights
Flight == {d \in Dispatchers : Flying(d)}
Slack == IF mishaps = 0 THEN 0 ELSE Cardinality(Dispatchers) - 1

\* Undisturbed, the first dispatcher alone works on the build.
LeadInv ==
  mishaps = 0 => /\ leader = First
                 /\ \A d \in Dispatchers : stop[d] = "no" /\ (d # First => doing[d].at = "idle")

\* Every attempt under way has the failure it may record reserved.
FlightInv == log.fails + Cardinality(Flight) <= MaxAttempts + Slack

\* No attempt passes the check, and none records a failure.
Quiet ==
  /\ \A d \in Dispatchers : Flying(d)' => Flying(d)
  /\ log'.fails <= log.fails
  /\ mishaps' \in {mishaps, mishaps + 1}

\* The check lets an attempt through.
Passed(d) == Alone(d) /\ log.fails < MaxAttempts /\ log' = log /\ mishaps' = mishaps

\* No append but a recorded failure adds to the failures.
LEMMA FailsKept ==
  ASSUME log \in FactSets
  PROVE  /\ Append([log EXCEPT !.open = @ + 1]) => log'.fails <= log.fails
         /\ Append([log EXCEPT !.marker = "fresh", !.failed = FALSE]) => log'.fails <= log.fails
         /\ Append([log EXCEPT !.ws = TRUE, !.marker = "none"]) => log'.fails <= log.fails
         /\ Append([log EXCEPT !.failed = log.marker # "none"]) => log'.fails <= log.fails
         /\ Append([log EXCEPT !.spec = TRUE]) => log'.fails <= log.fails
         /\ Append([log EXCEPT !.comment = TRUE]) => log'.fails <= log.fails
         /\ Append([log EXCEPT !.failed = TRUE]) => log'.fails <= log.fails
         /\ Append([log EXCEPT !.attached = TRUE, !.fails = 0]) => log'.fails <= log.fails
         /\ Append([log EXCEPT !.open = @ - 1, !.fails = 0]) => log'.fails <= log.fails
         /\ Append([log EXCEPT !.open = @ - 1, !.aborted = TRUE]) => log'.fails <= log.fails
         /\ log' = [log EXCEPT !.marker = "stale"] => log'.fails <= log.fails
         /\ UNCHANGED log => log'.fails <= log.fails
<1>1. log.fails \in Nat /\ 0 <= log.fails
  BY DEF FactSets
<1>2. /\ [log EXCEPT !.open = @ + 1].fails = log.fails
      /\ [log EXCEPT !.marker = "fresh", !.failed = FALSE].fails = log.fails
      /\ [log EXCEPT !.ws = TRUE, !.marker = "none"].fails = log.fails
      /\ [log EXCEPT !.failed = log.marker # "none"].fails = log.fails
  BY DEF FactSets
<1>3. /\ [log EXCEPT !.spec = TRUE].fails = log.fails
      /\ [log EXCEPT !.comment = TRUE].fails = log.fails
      /\ [log EXCEPT !.failed = TRUE].fails = log.fails
      /\ [log EXCEPT !.marker = "stale"].fails = log.fails
  BY DEF FactSets
<1>4. /\ [log EXCEPT !.attached = TRUE, !.fails = 0].fails = 0
      /\ [log EXCEPT !.open = @ - 1, !.fails = 0].fails = 0
      /\ [log EXCEPT !.open = @ - 1, !.aborted = TRUE].fails = log.fails
  BY DEF FactSets
<1>5. \A f : Append(f) => log' = f
  BY DEF Append
<1>6. \A f : Append(f) /\ f.fails <= log.fails => log'.fails <= log.fails
  BY <1>5
<1>7. log.fails <= log.fails
  BY <1>1
<1>8. ASSUME NEW f, f.fails = log.fails, Append(f) PROVE log'.fails <= log.fails
  BY <1>6, <1>7, <1>8
<1>9. ASSUME NEW f, f.fails = 0, Append(f) PROVE log'.fails <= log.fails
  BY <1>1, <1>6, <1>9
<1>10. log' = [log EXCEPT !.marker = "stale"] => log'.fails <= log.fails
  BY <1>7 DEF FactSets
<1> QED BY <1>2, <1>3, <1>4, <1>7, <1>8, <1>9, <1>10

LEMMA QuietAlone ==
  ASSUME NEW d \in Dispatchers, Alone(d), doing'[d].at \notin Flights \/ Flying(d),
         log'.fails <= log.fails, mishaps' \in {mishaps, mishaps + 1}
  PROVE  Quiet
  BY DEF Quiet, Alone, Flying

LEMMA AttemptQuiet ==
  ASSUME TypeOK, NEW d \in Dispatchers, Attempt(d) PROVE Quiet \/ Passed(d)
<1>0. log \in FactSets /\ log.fails \in Nat /\ mishaps' = mishaps
  BY DEF TypeOK, FactSets, Attempt, Tick, Budget, Raise, Facts, Marker, Mark
<1>1. CASE Budget(d)
  <2>1. log' = log
    BY <1>1 DEF Budget, shared
  <2>2. CASE End(d) \/ Go(d, "raise")
    <3>1. Alone(d) /\ doing'[d].at \notin Flights
      BY <2>2, Destinations DEF Places, Flights
    <3> QED BY <1>0, <2>1, <3>1, QuietAlone
  <2>3. CASE /\ ~Exhausted
             /\ doing' = [doing EXCEPT ![d].at = doing[d].next, ![d].next = "end"]
    <3>1. Alone(d)
      BY <2>3 DEF Alone, TypeOK
    <3>2. log.fails < MaxAttempts
      BY <1>0, <2>3, DispatchAssumption DEF DispatchAssumption, Exhausted
    <3> QED BY <1>0, <2>1, <3>1, <3>2 DEF Passed
  <2> QED BY <1>1, <2>2, <2>3 DEF Budget
<1>2. CASE Tick(d) \/ Raise(d) \/ Facts(d) \/ Marker(d) \/ Mark(d)
  <2>1. log'.fails <= log.fails
    BY <1>0, <1>2, FailsKept DEF Tick, Raise, Facts, Marker, Mark, shared
  <2>2. Alone(d) /\ doing'[d].at \notin Flights
    <3>1. CASE doing' = [doing EXCEPT ![d] = Kicked]
      BY <3>1 DEF TypeOK, Alone, Kicked, Idle, Flights
    <3>2. \/ End(d) \/ Check(d, "facts") \/ Check(d, "boundaries")
          \/ Go(d, "budget") \/ Go(d, "mark") \/ GoSeen(d, "marker")
          \/ doing' = [doing EXCEPT ![d] = Kicked]
      BY <1>2 DEF Tick, Raise, Facts, Marker, Mark, Kicked
    <3> QED BY <3>1, <3>2, Destinations DEF Places, Flights
  <2> QED BY <1>0, <2>1, <2>2, QuietAlone
<1> QED BY <1>1, <1>2 DEF Attempt

LEMMA ContinuationQuiet ==
  ASSUME TypeOK, NEW d \in Dispatchers, Continuation(d) PROVE Quiet
<1>1. log \in FactSets /\ log.fails \in Nat /\ mishaps' = mishaps
  BY DEF TypeOK, FactSets, Continuation, Start, Claimed, Provisioned, ProvisionFails, Release, Finally
<1>2. log'.fails <= log.fails
  BY <1>1, FailsKept
     DEF Continuation, Start, Claimed, Provisioned, ProvisionFails, Release, Finally, shared
<1>3. \/ End(d) \/ Check(d, "boundaries")
      \/ \E pc \in {"claimed", "call", "finally", "provisioned"} : Go(d, pc)
  BY DEF Continuation, Start, Claimed, Provisioned, ProvisionFails, Release, Finally
<1>4. Alone(d) /\ doing'[d].at \notin Flights
  BY <1>3, Destinations DEF Places, Flights
<1> QED BY <1>1, <1>2, <1>4, QuietAlone

LEMMA BoundaryQuiet ==
  ASSUME TypeOK, NEW d \in Dispatchers, Boundary(d), ~RecordFailure(d) PROVE Quiet
<1>1. log \in FactSets /\ log.fails \in Nat /\ mishaps' = mishaps
  BY DEF TypeOK, FactSets, Boundary, Boundaries, ImportSpec, Comment, RecordComment, Launch,
         Reserve, StartRunner, BoundaryFails
<1>2. log'.fails <= log.fails
  BY <1>1, FailsKept
     DEF Boundary, Boundaries, ImportSpec, Comment, RecordComment, Launch, Reserve, StartRunner,
         BoundaryFails, shared
<1>3. Flying(d)
  BY DEF Boundary, Boundaries, ImportSpec, Comment, RecordComment, Launch, Reserve, StartRunner,
         BoundaryFails, Flying, Flights
<1>4. \/ End(d) \/ GoSeen(d, Missing(log))
      \/ \E pc \in {"spec", "comment", "commented", "launch", "reserve", "starting",
                     "failed"} : Go(d, pc)
  BY MissingPlace DEF Boundary, Boundaries, ImportSpec, Comment, RecordComment, Launch, Reserve,
                      StartRunner, BoundaryFails
<1>5. Alone(d)
  BY <1>4, Destinations, MissingPlace DEF Places
<1> QED BY <1>1, <1>2, <1>3, <1>5, QuietAlone

LEMMA OthersQuiet ==
  ASSUME TypeOK, Elsewhere \/ \E d \in Dispatchers : Process(d) \/ Around(d) PROVE Quiet
<1>0. log \in FactSets /\ log.fails \in Nat
  BY DEF TypeOK, FactSets
<1>1. CASE Elsewhere
  <2>1. log'.fails <= log.fails
    BY <1>0, <1>1, FailsKept DEF Elsewhere, LateBeatLands, Expire, Age, RunnerStarts, RunnerDies, Answer
  <2>2. doing' = doing /\ mishaps' \in {mishaps, mishaps + 1}
    BY <1>1 DEF Elsewhere, LateBeatLands, Expire, Age, RunnerStarts, RunnerDies, Answer, own, Mishap
  <2> QED BY <2>1, <2>2 DEF Quiet, Flying
<1>2. ASSUME NEW d \in Dispatchers, Around(d) PROVE Quiet
  BY <1>0, <1>2 DEF Around, Beat, Lead, Supersede, Lapse, own, Mishap, Quiet, Flying
<1>3. ASSUME NEW d \in Dispatchers, Process(d) PROVE Quiet
  <2>1. log'.fails <= log.fails
    BY <1>0, <1>3, FailsKept
       DEF Process, Signal, StopRecords, StopReleases, Exit, Crash, Restarted, shared
  <2>2. mishaps' \in {mishaps, mishaps + 1}
    BY <1>3 DEF Process, Signal, StopRecords, StopReleases, Exit, Crash, Restarted, Mishap
  <2>3. Alone(d) /\ (doing'[d].at \notin Flights \/ doing'[d].at = doing[d].at)
    <3>1. CASE Signal(d)
      <4>1. doing[d] \in Jobs /\ doing' = [doing EXCEPT ![d] = [doing[d] EXCEPT !.aborted = TRUE]]
        BY <3>1 DEF Signal, TypeOK
      <4> QED BY <4>1 DEF TypeOK, Jobs, Alone
    <3>2. CASE StopRecords(d) \/ StopReleases(d)
      BY <3>2 DEF StopRecords, StopReleases, Alone
    <3>3. CASE End(d)
      BY <3>3, Destinations DEF Flights
    <3> QED BY <1>3, <3>1, <3>2, <3>3 DEF Process, Exit, Crash, Restarted
  <2> QED BY <2>1, <2>2, <2>3, QuietAlone DEF Flying
<1> QED BY <1>1, <1>2, <1>3

LEMMA NextIsQuiet ==
  ASSUME TypeOK, Next
  PROVE  Quiet \/ \E d \in Dispatchers : Passed(d) \/ RecordFailure(d)
  BY NextSplits, AttemptQuiet, ContinuationQuiet, BoundaryQuiet, OthersQuiet

\* Undisturbed, whoever acts is the first dispatcher, and nothing stops or takes over.
LEMMA NextLead == ASSUME TypeOK, LeadInv, [Next]_vars PROVE LeadInv'
<1>0. First \in Dispatchers /\ First # NoOne /\ mishaps \in Nat
  BY DispatchAssumption DEF DispatchAssumption, TypeOK
<1>1. CASE UNCHANGED vars
  BY <1>1 DEF vars, shared, own, LeadInv
<1>2. SUFFICES ASSUME Next, mishaps' = 0
      PROVE  /\ leader' = First
             /\ \A d \in Dispatchers : stop'[d] = "no" /\ (d # First => doing'[d].at = "idle")
  BY <1>1 DEF LeadInv
<1>3. ASSUME NEW d \in Dispatchers, Attempt(d) \/ Continuation(d) \/ Boundary(d)
      PROVE  LeadInv'
  <2>1. mishaps' = mishaps /\ stop' = stop /\ leader' = leader
    BY <1>3 DEF Attempt, Tick, Budget, Raise, Facts, Marker, Mark, Continuation, Start, Claimed,
                Provisioned, ProvisionFails, Release, Finally, Boundary, Boundaries, ImportSpec,
                Comment, RecordComment, Launch, Reserve, StartRunner, BoundaryFails, RecordFailure,
                shared
  <2>2. leader = d \/ doing[d].at # "idle"
    BY <1>3 DEF Attempt, Tick, Budget, Raise, Facts, Marker, Mark, Continuation, Start, Claimed,
                Provisioned, ProvisionFails, Release, Finally, Boundary, Boundaries, ImportSpec,
                Comment, RecordComment, Launch, Reserve, StartRunner, BoundaryFails, RecordFailure
  <2>3. \A e \in Dispatchers \ {d} : doing'[e] = doing[e]
    BY <1>3 DEF Attempt, Tick, Budget, Raise, Facts, Marker, Mark, Continuation, Start, Claimed,
                Provisioned, ProvisionFails, Release, Finally, Boundary, Boundaries, ImportSpec,
                Comment, RecordComment, Launch, Reserve, StartRunner, BoundaryFails, RecordFailure,
                Go, GoSeen, Check, End, TypeOK
  <2> QED BY <2>1, <2>2, <2>3 DEF LeadInv
<1>4. ASSUME NEW d \in Dispatchers, Process(d) PROVE FALSE
  BY <1>0, <1>2, <1>4
     DEF Process, Signal, StopRecords, StopReleases, Exit, Crash, Mishap, LeadInv, Restarted
<1>5. ASSUME NEW d \in Dispatchers, Around(d) PROVE LeadInv'
  BY <1>0, <1>2, <1>5 DEF Around, Beat, Lead, Supersede, Lapse, Mishap, LeadInv, own
<1>6. ASSUME Elsewhere PROVE LeadInv'
  <2>1. ~RunnerDies
    BY <1>0, <1>2 DEF RunnerDies, Mishap
  <2>2. UNCHANGED <<doing, stop, leader, mishaps>>
    BY <1>6, <2>1 DEF Elsewhere, LateBeatLands, Expire, Age, RunnerStarts, Answer, own
  <2> QED BY <2>2 DEF LeadInv
<1>7. LeadInv'
  BY <1>2, <1>3, <1>4, <1>5, <1>6, NextSplits
<1> QED BY <1>2, <1>7 DEF LeadInv

LEMMA Counts ==
  /\ IsFiniteSet(Dispatchers) /\ Cardinality(Dispatchers) \in Nat \ {0}
  /\ \A S \in SUBSET Dispatchers :
       IsFiniteSet(S) /\ Cardinality(S) \in Nat /\ Cardinality(S) <= Cardinality(Dispatchers)
<1>1. IsFiniteSet(Dispatchers) /\ First \in Dispatchers
  BY DispatchAssumption DEF DispatchAssumption
<1>2. \A S \in SUBSET Dispatchers :
        IsFiniteSet(S) /\ Cardinality(S) <= Cardinality(Dispatchers)
  BY <1>1, FS_Subset
<1>3. Cardinality(Dispatchers) \in Nat /\ Cardinality(Dispatchers) # 0
  BY <1>1, FS_CardinalityType, FS_EmptySet
<1> QED BY <1>1, <1>2, <1>3, FS_CardinalityType

LEMMA NextFlight == ASSUME TypeOK, LeadInv, FlightInv, [Next]_vars PROVE FlightInv'
<1>0. /\ log.fails \in Nat /\ mishaps \in Nat /\ MaxAttempts \in Nat \ {0}
      /\ Flight \in SUBSET Dispatchers /\ Flight' \in SUBSET Dispatchers
  BY DispatchAssumption DEF DispatchAssumption, TypeOK, FactSets, Flight
<1>1. /\ Cardinality(Flight) \in Nat /\ Cardinality(Flight') \in Nat
      /\ Cardinality(Flight') <= Cardinality(Dispatchers)
      /\ Cardinality(Dispatchers) \in Nat \ {0} /\ IsFiniteSet(Flight)
  BY <1>0, Counts
<1>2. CASE UNCHANGED vars
  BY <1>2 DEF vars, shared, own, FlightInv, Flight, Flying, Slack
<1>3. CASE Quiet
  <2>1. Flight' \subseteq Flight
    BY <1>3 DEF Quiet, Flight
  <2>2. Cardinality(Flight') <= Cardinality(Flight)
    BY <1>1, <2>1, FS_Subset
  <2>3. log'.fails \in Int /\ log'.fails <= log.fails
    <3>1. TypeOK'
      BY NextTypes
    <3> QED BY <1>3, <3>1 DEF Quiet, TypeOK, FactSets
  <2>4. Slack <= Slack' /\ Slack \in Int /\ Slack' \in Int
    BY <1>0, <1>1, <1>3 DEF Quiet, Slack
  <2> QED BY <1>0, <1>1, <2>2, <2>3, <2>4 DEF FlightInv
<1>4. ASSUME NEW d \in Dispatchers, Passed(d), Next PROVE FlightInv'
  <2>1. CASE mishaps = 0
    <3>1. LeadInv'
      BY <1>4, NextLead
    <3>2. Flight' \subseteq {First}
      BY <1>4, <2>1, <3>1 DEF Passed, LeadInv, Flight, Flying, Flights
    <3>3. Cardinality({First}) = 1 /\ IsFiniteSet({First})
      BY FS_Singleton
    <3>4. Cardinality(Flight') <= 1
      BY <3>2, <3>3, FS_Subset
    <3> QED BY <1>0, <1>1, <1>4, <2>1, <3>4 DEF Passed, FlightInv, Slack
  <2>2. CASE mishaps # 0
    BY <1>0, <1>1, <1>4, <2>2 DEF Passed, FlightInv, Slack
  <2> QED BY <2>1, <2>2
<1>5. ASSUME NEW d \in Dispatchers, RecordFailure(d) PROVE FlightInv'
  <2>1. log'.fails = log.fails + 1 /\ mishaps' = mishaps
    BY <1>5 DEF RecordFailure, Append, TypeOK, FactSets
  <2>2. d \in Flight /\ Flight' \subseteq Flight \ {d}
    <3>1. Alone(d) /\ doing'[d].at = "budget"
      BY <1>5, Destinations DEF RecordFailure
    <3> QED BY <1>5, <3>1 DEF RecordFailure, Alone, Flight, Flying, Flights
  <2>3. Cardinality(Flight \ {d}) = Cardinality(Flight) - 1 /\ IsFiniteSet(Flight \ {d})
    BY <1>1, <2>2, FS_RemoveElement
  <2>4. Cardinality(Flight') <= Cardinality(Flight) - 1
    BY <2>2, <2>3, FS_Subset
  <2> QED BY <1>0, <1>1, <2>1, <2>4 DEF FlightInv, Slack
<1> QED BY <1>2, <1>3, <1>4, <1>5, NextIsQuiet

-----------------------------------------------------------------------------
(* Theorems                                                                *)

IInv == TypeOK /\ FoundedInv /\ StopInv /\ LeaseInv /\ LeadInv /\ FlightInv

LEMMA InitIInv == Init => IInv
<1> SUFFICES ASSUME Init PROVE IInv
  OBVIOUS
<1>0. \A d \in Dispatchers : doing[d] = Idle /\ doing[d].at = "idle"
  BY DEF Init, Idle
<1>1. TypeOK
  <2>1. log \in FactSets /\ doing \in [Dispatchers -> Jobs]
    BY NoFactsType, IdleType DEF Init
  <2>2. /\ current \in [Dispatchers -> BOOLEAN] /\ {posted, runner, late, lapsed} \subseteq BOOLEAN
        /\ stop \in [Dispatchers -> {"no", "signalled", "recorded", "stopped"}]
    BY DEF Init
  <2>3. /\ lease \in [by : Dispatchers \cup {NoOne, "dead", "runner"}, live : BOOLEAN]
        /\ leader \in Dispatchers \cup {NoOne} /\ {faults, mishaps} \subseteq 0 .. MaxTrouble
    BY DispatchAssumption DEF DispatchAssumption, Init, Free
  <2> QED BY <2>1, <2>2, <2>3 DEF TypeOK
<1>2. FoundedInv
  <2>1. ~log.comment /\ ~runner /\ ~log.attached
    BY DEF Init, NoFacts
  <2>2. JobsFounded
    BY <1>0, IdleFounded DEF JobsFounded
  <2> QED BY <2>1, <2>2 DEF FoundedInv, LaunchIsFounded
<1>3. StopInv
  BY <1>0 DEF Init, StopInv, Signalled, Idle
<1>4. LeaseInv
  BY <1>0 DEF LeaseInv, Sure, Beating
<1>5. LeadInv
  BY <1>0 DEF Init, LeadInv
<1>6. FlightInv
  <2>1. Flight = {}
    BY <1>0 DEF Flight, Flying, Flights
  <2>2. Cardinality(Flight) = 0
    BY <2>1, FS_EmptySet
  <2> QED BY <2>2, DispatchAssumption DEF DispatchAssumption, Init, NoFacts, FlightInv, Slack
<1> QED BY <1>1, <1>2, <1>3, <1>4, <1>5, <1>6 DEF IInv

LEMMA Invariance == Spec => []IInv
<1>1. IInv /\ [Next]_vars => IInv'
  BY NextTypes, NextFounded, NextSignalled, NextLease, NextLead, NextFlight DEF IInv
<1> QED BY InitIInv, <1>1, PTL DEF Spec

\* Types: what the log's facts, the lease, and every dispatcher's place may be.
THEOREM DispatchTypeCorrect == Spec => []TypeOK
<1>1. IInv => TypeOK
  BY DEF IInv
<1> QED BY Invariance, <1>1, PTL

\* While no live continuation's lease ran out, at most one unsignalled continuation
\* calls the provider (runProvisionContinuation under the build's execution lease).
THEOREM OneProvisionerAlways == Spec => []OneProvisioner
<1>1. IInv => OneProvisioner
  <2> SUFFICES ASSUME IInv, ~lapsed
      PROVE  Cardinality({d \in Dispatchers : doing[d].at = "call" /\ ~doing[d].aborted}) <= 1
    BY DEF OneProvisioner
  <2> DEFINE Calling == {d \in Dispatchers : doing[d].at = "call" /\ ~doing[d].aborted}
  <2> SUFFICES Cardinality(Calling) <= 1
    OBVIOUS
  <2>0. Cardinality({}) = 0
    BY FS_EmptySet
  <2>1. \A d \in Calling : lease.by = d
    BY DEF IInv, LeaseInv, Sure, Beating
  <2> HIDE DEF Calling
  <2>2. CASE Calling = {}
    BY <2>0, <2>2
  <2>3. ASSUME NEW d \in Calling PROVE Cardinality(Calling) <= 1
    <3>1. Calling = {d}
      BY <2>1, <2>3
    <3>2. Cardinality({d}) = 1
      BY FS_Singleton
    <3> QED BY <3>1, <3>2
  <2> QED BY <2>2, <2>3
<1> QED BY Invariance, <1>1, PTL

\* A runner is launched over a workspace, a spec and a comment the ticket carries,
\* whichever dispatchers crossed the boundaries (completeDispatchBoundaries).
THEOREM LaunchesFounded == Spec => []LaunchIsFounded
<1>1. IInv => LaunchIsFounded
  BY DEF IInv, FoundedInv, LaunchIsFounded
<1> QED BY Invariance, <1>1, PTL

\* The failures recorded exceed the limit by those of the takeovers at most
\* (ensureDispatchBudget before every attempt).
THEOREM BudgetKept == Spec => []BudgetHolds
<1>1. IInv => BudgetHolds
  <2> SUFFICES ASSUME IInv PROVE BudgetHolds
    OBVIOUS
  <2>1. log.fails \in Nat /\ Cardinality(Flight) \in Nat /\ Cardinality(Dispatchers) \in Nat
        /\ MaxAttempts \in Nat
    BY Counts, DispatchAssumption DEF DispatchAssumption, IInv, TypeOK, FactSets, Flight
  <2> QED BY <2>1 DEF IInv, FlightInv, BudgetHolds, Slack
<1> QED BY Invariance, <1>1, PTL

=============================================================================
