# autobuild in TLA+

autobuild takes a ticket through a pipeline of agent sessions (plan, plan
review, implement, code review, verify, finalize, landing) and keeps everything
it knows in one append-only event log per build. Its difficulty is not in any
single function. It is in the number of writers of that log: the runner that
executes the pipeline, the agents whose CLI calls deposit results, the operator,
the dispatcher that starts and sweeps runners, and any of them dying between two
writes. Around it stand the parts that bring a ticket in and take a change out:
dispatch, landing, and the harvest of findings into new tickets. These modules
model them, TLC checks them on small instances, and TLAPS proves what has to hold
for every instance.

All paths below are relative to `src/packages/core/src/` unless they start with
`src/`. A comment starting with `Mutant:` in a module precedes an alternative
form of the next definition, with a plausible bug in it; no specification uses
it. PROJECT.json pairs each checked property with the mutant that breaks it.

## 1. The system

| Component | State | Operations | Reads and writes |
|---|---|---|---|
| Build store, contract (`store/types.ts`) | event log, artifact revisions, lease per build | append, conditional append, atomic deposit, lease calls | used by everything |
| SQLite store (`store/local/store.ts`, `store/retention.ts`) | tables `events`, `artifacts`, `builds`; blob files | the contract's, in `BEGIN IMMEDIATE` transactions, with retention | shared by processes through the file |
| Kernel (`kernel/engine.ts`, `reducer.ts`, `log-index.ts`, `stall.ts`, `verify-stages.ts`, `verify-stage-state.ts`) | none of its own: folds the log | `decideNext`, `decideLoop`, reductions | pure |
| Runner (`processes/build-runner.ts`) | the turn in flight, `inFlight` of a verify stage, `leaseLost` | attach, one step per decision, brackets, terminals' supervision, suspension | store, agents |
| Terminals (`cli/terminals.ts`, `kernel/terminal-guard.ts`) | none | `ab phase complete`, `ab verdict …`, `ab escalate`, `ab verify …` | store, from inside agent sessions |
| Operator commands (`cli/build-control.ts`) | none | `ab pause`, `resume`, `abort`, `answer`, `answer --revise-spec` | store |
| Reducer values (`store/reducer-values.ts`, `store/snapshots.ts`) | one row per reducer and build | read through a cached accumulator, conditional put, repair | store; readers in every process |
| Dispatcher (`processes/dispatcher.ts`, `dispatch-failure-budget.ts`, `cli/dispatch.ts`, `execution-settlement.ts`) | launches and continuations in flight, capacity, failure budgets | claim tickets, recover, provision, launch, sweep leases, settle, landing poll | store, workspace provider, ticket source, forge |
| Landing (`processes/dispatcher.ts` `checkPr`, `kernel/landing.ts`, `landing-publication.ts`) | none beside the log: the pull request is the forge's | poll, decide, arm, disarm, direct merge; suspend before a push | store, forge; written to by humans and by the forge itself |
| Harvest (`processes/harvest-runner.ts`, `processes/harvest.ts`, `kernel/harvest.ts`, `cli/harvest.ts`) | repository journal, lease | claim observations, synthesize, review, file tickets, recover, give up | store, agents, ticket source |
| Nodes, stacks, restack | node journal, branches | integration, rebase | store, Git, forge |
| Remote and PostgreSQL stores, hosted service, website | their databases | the same contract over HTTP; organisations, projects | |

How they interact: the log is the only channel between processes. A writer reads
the log, decides, and appends: unconditionally, or with `appendIfCurrent`, which
the store refuses when the log has grown. A runner is kept alone on a build by a
lease with an expiry and heartbeats, not by a lock. A runner follows its own
build by polling subscriptions whose callbacks interrupt the agent turn. An
agent's result is a *terminal* event that its CLI appends from inside the
session; the runner learns of it by reading the log after the turn. Sessions are
bracketed by `session.started`/`session.ended`; a bracket left open or
`suspended` is continued or reclaimed by the next runner.

What is hard about it, and what makes each part correct:

- **Store.** Deposits write blobs first and rows later, with retention pruning
  in the same transaction, while other processes do the same. Correct: an
  artifact reference in an event never resolves to something else; no row
  without a blob; no revision number is issued twice; a conditional event
  extends the log its writer read.
- **Lease.** Expiry is by clock, loss is learned late, errors of a beat are
  swallowed. Correct: two runners work on one build only if one of them missed a
  beat; a live lease is never taken over; a dead holder never blocks a build.
- **Turns and operator commands.** Terminals, suspensions, budgets, pauses and
  aborts race for one session. Correct: the newest command stands; a session has
  one outcome; a stopped turn costs no attempt; a pause is answered.
- **Review loops.** Rounds, ceilings, stalls and questions are re-derived from
  the log after every crash. Correct: rounds are bounded by what humans granted;
  the durable loop decides what the in-process loop decides; it asks once; it
  comes to rest.
- **Verify stages.** Checks and agents run side by side, one failure cancels the
  others, each has up to three possible writers. Correct: one fate per member;
  barriers hold; a cancelled verifier leaves nothing in force; rework starts
  informed and alone; attempts stay in budget; the stage ends.
- **Reductions.** Incremental folds and cached accumulators stand for a fold
  from the start, across processes of different versions and rows that were
  damaged. Correct: every answer is the reduction at the cursor it names, no
  older row replaces a newer one, and the batches of a fold change no fact.
- **Dispatch.** Between a claimed ticket and its runner lie a provider call that
  may take minutes, a marker, three boundaries and a budget whose failure and
  escalation are two appends; dispatchers crash, stop and take over between any
  two of them. Correct: one provisioner per build; a runner only over a
  workspace, spec and comment that exist; the budget holds; no build is
  left between its ticket and its runner.
- **Landing.** The forge merges by itself whatever is armed. The poll, the
  runner that replaces the head, humans, and a request still under way act on
  one switch whose position only the forge knows. Correct: what is merged was
  verified and decided on; the log never calls the switch off while it is on; a
  hold disarms it for good.
- **Harvest.** Ticket creation is an external effect without a transaction: a
  crash may leave a ticket whose key was reserved and whose filing was not
  recorded, or one without its blockers. Correct: one ticket per observation,
  filed as reviewed, dispatched whole; every run comes to rest; a pause stops it.
- **Restack.** Rewrite, push and record are three effects.

PROJECT.json `hazards` lists these at the lines where they bite, and
`components` lists every part with its status.

## 2. Modules

```
StorePromise  <--- refines ---  LocalStore     <--- LocalStoreProofs
                                BuildLease     <-+
Stall         <-+-- EXTENDS --- ReviewLoop     <-+- RunnerProofs
                +-- EXTENDS --- FindingChains  <-+
                                TurnControl    <--- TurnControlProofs
                                VerifyStage    <--- VerifyStageProofs
                                ReducerValues  <-+- ReductionProofs
                                BuildFold      <-+
                              DispatchRecovery <--- DispatchRecoveryProofs
                                Landing        <--- LandingProofs
                                Harvest        <--- HarvestProofs
```

Each `MC<Module>` instantiates its module for TLC.

The runner's modules divide its state between them. `BuildLease` is the lease
and the loop's boundaries, with steps as opaque; `TurnControl` is one producer
phase in full detail: brackets, terminals, operator, suspension, continuation;
`ReviewLoop` is the decision of rounds, with a turn reduced to live, deposited,
ended; `VerifyStage` is the concurrent stage and the cycles around it. The last
three assume what the first shows: one runner at a time. `DispatchRecovery` ends
where `BuildLease` begins, with a launched runner; `Landing` begins where the
engine waits for the pull request. `BuildFold` is the part of the reducer that
`VerifyStage` and `Landing` read as a fact of the log.

### StorePromise

The contract of `store/types.ts` with no word about tables or blobs: a log, the
surviving artifact revisions, and the revisions ever issued. `Write` is an
append with the deposits that belong to it; `Put` a deposit alone.

### LocalStore

| TLA+ | code |
|---|---|
| `log`, `artifacts` | rows of `events` and `artifacts` for one build |
| `blobs` | the content-addressed blob store, written outside the transaction |
| `issued` | history: every revision number ever assigned |
| `pc`, `cursor`, `bundle`, `stored` | a client's call: what it read, what it deposits, how many blobs are written |
| `GetEvents`, `AppendEvent`, `AppendIfCurrent` | `getEvents`, `append`, `appendIfCurrent` |
| `BeginDeposit`, `PrepareArtifact` | the awaited `prepareArtifact` calls |
| `AppendWithArtifacts`, `AppendWithArtifactsIfCurrent`, `PutArtifact` | their transaction, one step each: deposit, validate, append, prune |
| `Abandon` | process death, or an event that fails validation and rolls back |

A blob that was written stays when its transaction rolls back, as in the code.
Retention keeps the `MaxRevisions` newest rows of a managed kind.

### BuildLease

`left` and `due` count down to the lease's expiry and to the next beat. `Launch`
reserves the lease for a new instance (`launchRunner`), `Attach` claims it again
under that instance, `StartHeartbeat` is the end of `attach`, `Heartbeat` and
`HeartbeatFails` the timer's callback with an answer or a store error (which the
code ignores), `HeartbeatAnswered` the promise resolving later, `EnsureLease`
the check at a loop boundary, `Exit`, `Settle`, `Crash` the ways a launch ends.
Only `missed` is history. Its `LeaseInit`, `LeaseNext` and `LeaseSpec` carry the
module's name because `RunnerProofs` extends it together with `ReviewLoop`.
`Settle` stands for `settleExecution` and `releaseSettledLease`. The claims of `cleanupAborted`, `cleanupDiscarded`, of
provisioning continuations and of the operator's short commands are outside.

### TurnControl

| TLA+ | code |
|---|---|
| `build` | `mode`, pending `*_requested`, open escalation, completed rounds, failed attempts, as the reducer keeps them |
| `sessions` | bracket state, round, predecessor, `phase.failed`, terminal delivered |
| `runner` | position in `attach`, `run`, `runSingleSession`, `executeSingleSession` |
| `turn` | locals of `runBudgetedTurn`: undelivered subscription events, probes, interrupt flags |
| `checked` | writers (runner, sessions) whose last read is still the whole log: an `appendIfCurrent` succeeds exactly for them |
| `late` | sessions whose background release may still append `session.ended` |

An append clears `checked`, so every compare-and-append loop of the code is a
read step and a write step that can fail. The operator's `Request` expires the
opposite pending command as the reducer does. `GuardTerminal`/`DepositTerminal`
are the terminal guard's read and its conditional append. `FallBack` is the
provider fallback inside a turn, `CheckTerminal` the single look for a terminal
after it.

### Stall, FindingChains and ReviewLoop

`Stall` is `kernel/stall.ts` and `liveChains`, without state: a history is a
sequence of sets of findings with *persists* marks; `ChainsOf` is the memoized
walk from finding to root (a recursive function), `Streak` the longest run of
consecutive rounds, `TipDismissed` and `LiveChains` the filters on what is
raised.

`FindingChains` is the histories that rounds of a review make, one `ReviewRound`
at a time, with the ids that humans dismissed (`silenced`). `ReferenceChains` is
the definition `ChainsOf` is checked against: the sets closed under *continues*.
Its specification is called `HistorySpec`, for `RunnerProofs` extends it too.

`ReviewLoop` is `decideLoop` over the index of `kernel/log-index.ts` (`loop`),
with the guidance index, open escalations, dismissed findings, the runner's
position, one session, and the escalate terminals that are between their two
appends (`straggling`). `Decide` calls `LoopDecision`, whose disjuncts are the
rules after *revise*, after *escalate* and for an unreviewed round. Humans
answer with guidance, retry, dismissal, a ceiling, or a revised spec. Verdicts
carry at most one finding, which is enough for a chain to live, break and stall.

### VerifyStage

| TLA+ | code |
|---|---|
| `outcome`, `cancelled`, `started` | `verify.completed`, effective `verify.cancelled`, `verify.started` of a member |
| `receipts`, `failed`, `limitAsked` | `verify.stage-failed`, the failure budget, the limit's escalation |
| `asks` | open questions and the answers that authorize a revision |
| `restartDue`, `recorded` | `executionSeq <= cleanupExecutionSeq`; whether this execution has its `execution.started` |
| `pc`, `initial`, `child`, `targets`, `results` | locals of `runVerifyStage`, `inFlight`, `cancelVerifyStage`, results behind `withVerifyWrite` |
| `alive`, `spoken` | agent processes, and those whose session had its terminal |

`Active`, `Unfinished`, `Blocking`, `RestartNeeded`, `Exhausted` are the derived
facts of `verify-stages.ts` and `verify-stage-state.ts`, and `VerifyDecision`
the engine's choice among them. `StartCheck`/`CheckExits`/`CheckWrites` and
`StartAgent`/`AgentSettles` are the children of a stage; `BeginCancel` (the
decision), `LockWrites` (`withVerifyWrite`, before which a check's result may still
be written), `CancelMember` (one comparison per member), `EndCancel` the
cancellation; `BeginRevision`, one `ReviseAnswer` per open question and
`SpecRevised` the appends of `ab answer --revise-spec`;
`Launch`, `RecordExecution`, `Crash`, `Leave` the execution, whose
`execution.started` is appended after it runs. A cycle is its attempt, a skipped
step passes, the processes of an execution end with it, and a session kept for
resumption is a new one. Config capture, path selection and integration cycles
are left out.

### ReducerValues

| TLA+ | code |
|---|---|
| `head` | the log's tail; an event is its sequence number |
| `row` | the reducer's row in the local store: version, cursor, accumulator, and whether its bytes are whole |
| `call` | each `getReducerValue` call: the tail when it was asked, the boundary it read, the row in its hand, what it has folded |
| `Ask`, `ReadRow`, `Seed`, `Fold`, `Store` | the awaits of `readReducerValue` |
| `Put`, `Supersedes`, `Repair` | the store's conditional upsert and its repair of a row that fails validation |
| `Damage` | the row lost, or replaced by bytes no call wrote, from outside |

An accumulator counts how often each event was folded into it, so an event
folded twice, skipped or invented is visible whatever the reducer computes.
Versions are the reader's own and a newer one's.

### BuildFold

One reader folds the log in one batch, another carries an accumulator and
advances it by batches of any length; `Finish` is the repair of the current phase
and step at the end of a batch. Of the build reducer it has the facts that this
repair touches or depends on: verify members with their starts, outcomes and
cancellations, the current phase and step, and open, answered and superseded
questions. The log itself is not kept: `whole` is its fold so far, `carried` the
second reader's accumulator, `ahead` the clone into which `advance` folds what
`carried` has not read (`unread`). Events come in every order in which their
writers can append them. Its operators are named apart from those of
`ReducerValues` (`FoldInit`, `FoldSpec`, ...), since one module proves about both.

### DispatchRecovery

| TLA+ | code |
|---|---|
| `log` | facts of the build's log: failures, open escalations, the provisioning marker and its age, workspace, spec, comment, attach |
| `posted` | the comment at the ticket source, which its event follows |
| `lease`, `runner`, `leader` | the execution lease, a child that has not attached yet, the repository lease |
| `doing` | each dispatcher's attempt or continuation: `recoverDispatches`, `attemptDispatchCompletion`, the provisioning continuation, `completeDispatchBoundaries` |
| `current` | nothing was appended since the budget was read |
| `stop`, `late` | `stopProvisioning`, and a heartbeat still in flight after it |

`Signal`, `StopRecords`, `StopReleases`, `Exit` are a dispatcher that shuts
down, `Crash` one that does not; `Launch`, `Reserve`, `StartRunner` are the last
boundary: status read again, lease reserved for a new instance, execution started.
A start that fails leaves the reservation to its TTL (`Unstarted`), for the runner
may have started all the same, and the child may die before it attaches
(`RunnerDies`); `Supersede` another process taking over the
repository while the first is at work; `Lapse` a lease that runs out under a live
continuation.

### Landing

| TLA+ | code |
|---|---|
| `build` | what the log reduces to (`advanceLanding`): head, stage, decision, command, receipt of native auto-merge, outstanding operation |
| `forge` | the pull request: head, armed, state, who merged it, an enable under way |
| `poll` | the dispatcher's `checkPr`, from `PollStart` to `PollEnd`, with its snapshot of the log and its read of the pull request |
| `runner` | `suspendNativeLanding` (`Suspend`, `Cancel`, `Suspension`, `Reread`) and `publishRestack` (`Push`, `Record`) |
| `Hold`, `Land`, `Demand` | `ab` commands (`cli/build-control.ts`), and the need for another head |
| `ForgeMerges`, `HumanMerges`, `LateEnable` | the forge |

A candidate is its head: its parent and cycle change with it. A poll that dies
may leave its enable under way; it reaches the forge before the next poll, or not
at all. The forge's checks pass whenever they do, also before a poll of a new head.
So an enable for the old head that lands between the publisher's last look (`Reread`)
and its push is carried to the new head and may merge it unverified until a poll that
began with it has ended. The code cannot exclude that, since native auto-merge
belongs to the pull request and names no head; `VerifiedLands` names the exception
(`spent.carried`, history of such a push) and claims the rest. Where the request is
armed with another build's message, `Inspect` leads to `Mend`, `Unarm`, `Reinspect`,
then `Guard` and `Enable` (`applyIdentityAutoMerge`); whether the message fits is a
free choice.

### Harvest

| TLA+ | code |
|---|---|
| `journal` | the reduction of the repository journal (`foldHarvest`): runs, their bracket, proposals, review, reserved keys, filings, attempts, recoveries; pause and pending command; `malformed` once a fact contradicts it |
| `tickets` | the source's tickets by creation key, whole or without their blockers |
| `runner` | `processes/harvest-runner.ts`: control, selection, the step at hand |
| `agents` | the runner's agent, and one that a crashed runner left behind |
| `scan` | the dispatcher's ready scan, which brackets its listing with two reads of the journal |

`Begin`/`Act`/`GiveUp` are `decideHarvestControl`, `Claim` the claim of what is
unclaimed, `Reserve`/`CreateTicket`/`CompleteBlockers`/`File` the filing of one
proposal under a reserved key. A proposal to create is a cluster of observations and
is known by it (`harvestProposalKey`); a set has disjoint clusters, and what is in
none was dismissed. A session that outlived its runner may append a second set, with
other clusters, and a standing approval takes up the latest set. `Partition`,
`Finalize`, `GiveUp` are three steps: what to release, the decision read once more,
the append. There is one review round: revision is `ReviewLoop`'s subject. The
runner's lease is taken as exclusive.

## 3. Runs

| run | instance | distinct states | shows |
|---|---|---|---|
| `local_store` | 2 clients, 2 kinds (1 managed), 2 contents, 3 bundles, retention of 1, 2 events, 3 revisions per kind | 539k | references keep their content under every interleaving of deposits, prunes and deaths; refinement of `StorePromise` |
| `build_lease` | 2 instances, lease 4, beat 2 | 45k | two run at once only if one missed a beat; an ended launch frees the build |
| `turn_control` | 3 sessions, 2 rounds, 2 attempts, 2 commands, 1 stop | 555k | the newest command stands, a session has one outcome, every pause is answered |
| `finding_chains` | 3 rounds, 2 findings, 2 marks, threshold 2 | 81k | the walk computes the closures; exactly the contested rounds are raised |
| `review_loop` | cap 2, ceiling up to 3, threshold 2, 6 rounds and questions, 2 answers, 1 mishap | 643k | authorization of rounds, agreement with `converge`, one question per verdict, delivery of guidance, parking |
| `verify_stage` | stages {check, agent}, {agent}; budget 1, 2 attempts, 2 answers, 1 mishap | 513k | one fate, barriers, questions, isolation of rework, authorized revisions, progress |
| `reducer_values` | 2 readers, 2 events, 1 fault, 1 damage | 99k | answers are reductions and fresh whatever the row holds; no row retreats; a damaged row is repaired |
| `build_fold` | 2 members, batches of any length | 132k | batch-wise and whole fold agree on every fact, and on the phase but for orphans; questions follow their member |
| `dispatch_recovery` | 2 dispatchers, 1 attempt, 4 troubles (see below) | 484k | one provisioner, founded launches, the budget, no build left behind |
| `harvest` | 2 observations, 2 runs, 1 session attempt, 1 recovery, 1 request, 2 faults, 1 stop | 988k | a second ticket only by give-up or second clustering, filed as reviewed; the journal stays readable; runs come to rest |
| `harvest_scan` | 1 observation, 2 runs, 2 session attempts, 1 recovery, 2 requests, 1 fault, 1 stop, 1 scan | 697k | half-made tickets are withheld from dispatch; a pause is answered |
| `landing` | 2 heads, 2 commands, 1 stop | 1.15M | what is merged was verified, but for a head an enable was carried to; armed is known; a hold disarms; an authorized candidate arms |

Why these bounds are enough to be of interest:

- Two clients already interleave read, blob writes, deposit and prune; one
  retained revision makes every deposit of a managed kind prune; a bundle with
  two revisions of one kind prunes its own sibling; the same content recurs.
- With a lease of 4 and a beat of 2 a holder that misses one beat reaches its
  next at the instant of expiry, where renewal and takeover meet, and a third
  launch reuses the id of the first.
- Three sessions give a session, its continuation and a reclaim by a second
  runner; two commands give every ordered pair of pause, resume and abort.
- A chain needs two rounds to stall, a third to break or be dismissed and
  raised again, and two findings to share an ancestor.
- With a cap of 2, two answers and ceilings up to 3 the loop is stopped by cap,
  stall and question, and resumed beyond the cap. The bounds on rounds and
  questions never stop the runner: `LoopParks` would fail if they did. Only an
  agent's own further question can meet its bound.
- A stage with a check and an agent has every kind of writer of a fate (the
  check's result, the agent's terminal, the cancellation), the second stage
  gives the barrier; one attempt of budget and two attempts of room let
  the limit be raised and lifted.
- Two readers already hold different rows at different boundaries; with two
  events one of them can be behind the row it read, equal to it and ahead of it,
  and a damaged row may claim a cursor beyond the log.
- Two members give a running one beside an orphan of an earlier cycle. Nothing
  else is bounded: accumulators are sets and an order without repetition, so there
  are finitely many, and logs and batches may be of any length.
- Two dispatchers; one attempt makes every failure exhaust the budget, so the
  second append of the pair is always due. `MaxTrouble = 4` counts a failed call
  once and a crash, teardown, takeover or lapse twice: two failures beside one of
  those, which reaches the bound of `BudgetHolds`, or two of them, which is a
  crash while recovering from a crash. The invariants are proved for any number.
- Two observations let a run be cut short with one ticket made and one not, and
  have five sets of clusters, two of which cluster both observations differently; a
  second run finds what a given-up one released. The scan needs only one
  observation, and two commands for a pause that is taken back.
- Two heads are one replacement, whose push races the enable for the first; two
  commands are a hold and the consent that revokes it, in both orders.

`CHECK_DEADLOCK FALSE` is set where the modelled system does stop: a build that is
done, parked or landed, a history at its bound, a dispatch that has its runner, a
harvest with nothing to claim. `LocalStore`, `BuildLease` and `ReducerValues`
never stop and are checked for deadlock. `MCLocalStore` uses symmetry over the two
clients, whose processes the code does not tell apart; its properties are safety
only.

### Fairness

- `LocalStore`, `FindingChains`, `BuildFold`: none; only safety is claimed.
- `BuildLease`: time passes, and an answer on its way back arrives. Nothing is
  assumed of runners, supervisors or the sweep: `EndedLeaseLapses` holds by
  expiry alone, which is what the code relies on after a crash.
- `TurnControl`: the runner takes the steps it has, the subscription polls, and
  an adapter that was signalled returns. An agent left alone may work forever
  and the operator may never come back. That a signalled adapter returns is what
  the code itself relies on: it awaits the adapter after every interrupt.
- `ReviewLoop`: the runner steps; a session not cut short deposits a terminal
  (else its budget ends it, which is `TurnEndsEmpty`, unfair and bounded).
- `VerifyStage`: dispatcher, runner and children step, a session ends by itself
  or by its budget, and a CLI command that has begun is carried through. Humans,
  crashes and lost sessions come or do not.
- `ReducerValues`: every reader's calls run on and are asked again, as every tick
  and every view does.
- `DispatchRecovery`: processes run on, some process takes the repository lease
  when it is free, provider calls return, leases and markers age, a launched
  child starts. Nobody need answer an escalation, and no heartbeat need arrive.
- `Landing`: the poll and the publisher step, and a request under way arrives or
  is lost. Nothing is assumed of the forge's merge or of humans.
- `Harvest`: the dispatcher keeps launching the runner, the runner steps, and the
  turn of its own agent ends. An agent left behind may deposit or not.

## 4. Properties worth a reader's time

- `LocalStore!PromiseSpec`: the deposit's several statements and awaited blob
  writes are one atomic step to every reader, and a conditional event was
  written by a client that had read exactly what it extends.
- `LocalStore!RefsKeepTheirContent`: `MAX(revision) + 1` over *surviving* rows never
  reissues a number, because retention keeps the newest (`LatestIsNewest`, proved).
- `BuildLease!OneRunsUnlessStalled`, with `PunctualHolds` as its reason (proved).
- `TurnControl!OneOutcome`: relates a delivered terminal, a suspension and a
  continuation, written by three actors.
- `TurnControl!PauseAnswered`: depends on the read that follows the opening of
  the subscription; without it a pause in the gap between the decision and the
  turn is never seen.
- `ReviewLoop!AgreesWithConverge`: the event-sourced loop, with crashes and late
  terminals, decides what the in-process reference decides.
- `ReviewLoop!RoundsAreAuthorized`, `KernelAsksOnce`, `DeliveredIsHeard`.
- `FindingChains!ContestedIsRaised`: an *if and only if*, in both directions, for
  what reaches a human.
- `VerifyStage!OneFate`, `NoOrphanQuestion`, `ReworkIsAlone`: the last with the
  two races under which the code does not keep it named in the property.
- `ReducerValues!AnswersAreReductions` and `RowNeverRetreats`: concurrent calls of
  two versions over a row that may be stale, newer, foreign or damaged.
- `BuildFold!FactsAgree` and `PhaseDiffersOnlyForOrphans`: where a batch ends
  matters for one fact only, and then only for a member nobody settled.
- `DispatchRecovery!OneProvisioner`: across adopted markers, teardowns and
  takeovers, for as long as no live continuation let its lease run out.
- `DispatchRecovery!DispatchSettles`: survives a crash between any two of the
  steps from ticket to runner, the failure and its escalation included.
- `Landing!VerifiedLands`, `ArmedIsKnown`, `HoldDisarms`: relate the forge's
  switch to a log that always learns of it late.
- `Harvest!NoSecondTicket`: with the two cases in which the code does make a second
  ticket named in it (section 6); `FiledAsReviewed`, `HalfMadeWithheld`.

## 5. Proofs

All theorems are proved for every value of the constants under the modules'
assumptions; TLC checked each inductive invariant's ingredients first.

Every module states its types as `TypeOK` (`LeaseTypeOK` in `BuildLease`,
`HistoryTypeOK` in `FindingChains`, `FoldTypeOK` in `BuildFold`). Where the module has proofs it is a theorem
(`Spec => []TypeOK`), and so are some properties that no run of section 3 repeats: `RowsHaveBlobs`, `LatestIsNewest`, `PunctualHolds`,
`NoTakeoverWhileLive`, `StoredIsReduction`, `AnswersAreFresh`. In the other modules
`TypeOK` describes the state; it holds on the instances of section 3, and the runs
there are spent on what could be wrong.

**LocalStoreProofs** (assumptions: `Managed \subseteq Kinds`, bundles are
sequences of artifacts, retention keeps at least one row, bounds are naturals).
The properties are not inductive by themselves. `IndInv` adds: every surviving
row carries an issued number and the largest number ever issued survives
(`RowsInv`); what events refer to was issued (`RefsIssued`); the blobs a client
has counted are stored (`WrittenInv`); calls are in shape (`CallInv`). The
middle of the argument is `NextRevisionFresh`: since the largest issued number
survives, `MAX(revision) + 1` is above every number ever issued, so a new row
never meets an old reference; `DepositedContinues` lifts that to a bundle of
several artifacts of one kind, and `NewestKeepsLargest` shows that the prune
that follows keeps `RowsInv` true. From `IndInv`: `TypeCorrect`,
`ReferencesStable`, `BlobsPresent`, `NewestSurvives`. `Implements` is the
refinement of `StorePromise`: `WriteStep` and `PutStep` map each transaction to
an atomic step, and everything else stutters.

**RunnerProofs**, the lease (assumption: `0 < Beat < Ttl`). `PunctualHolds` is not
inductive: time passes. The strengthening `Margin` says how much lease a
punctual instance has left: at least `Ttl - Beat` plus the time to its next
beat. Every renewal restores it, every tick takes one from both sides, and a
tick past a due beat makes the instance unpunctual. Since `Beat < Ttl` the
lease is live, hence `PunctualInstanceHolds`; since a lease has one holder,
`ExclusiveUnlessStalled`; `LiveLeaseKept` is the action property that nobody
takes a live lease over.

**RunnerProofs**, the review loop (assumptions: caps and bounds are positive
naturals). What the runner carries out was decided in an earlier step, and humans,
agents and its own death come between. None of these three proofs uses what the walk
over the findings returns, only that a decision looks at it; the fourth, at the end
of the next paragraph, does.

- `AskInv` gives `LoopTypeCorrect` and `AsksOncePerVerdict`. `Deciding` says what a
  decision in hand still means: work is on the newest round or the next, which has
  no verdict (`Unjudged`), and a raise is of what the kernel has not asked of the
  newest verdict. `AtTurn` carries that over start, session, turn and repair: while
  a session can give a verdict, its round is the newest. That is why a verdict is
  given once, so that forgetting what was raised before it (`raised`, in `Judged`)
  forgets no question of this round; `Routed` ties `raised` to what was asked.
- `RoundInv` gives `RoundsSpentAreGranted`. The cap counts verdicts, not rounds:
  `Counts` says that since a revision every round but the newest has one, so below
  the cap there is a round to spend (`ReviewedSince`). Beyond the cap a producer is
  decided on only with nothing open and something raised after the newest verdict;
  `Paid` says that then an answer came since, and an answer pays a round.
- `GuidanceInv` gives `DeliveredGuidanceIsHeard`: between a start and its session,
  what the round carries is what its decision cited (`Cited`).

**RunnerProofs**, the chains and what the loop makes of them (assumptions: `StallRounds` is positive, bounds are
naturals). What the memoized walk returns is proved for every history whose findings
have ids of their own round (`Stamped`), which `HistoryInductive` shows of those the
reviewers write, marks from before a restart included.

- A recursive function is a choice of some function that satisfies its equation;
  that there is one takes an argument by rounds. `RootsExist`: were there no function
  for the findings up to some round, take the least such round and extend the one
  before it. `RootsOfIs` is then the equation itself.
- `WalkIsExact` (`ChainsAreClosures`). Every walk ends at a finding that continues
  none (`WalksEnd`), the members of a root are closed in both directions
  (`MembersAreChain`), and two sets that are closed over the same root agree, or
  else they would differ on some earliest round first (`OneChain`).
- `HumansSeeWhatIsContested` (`ContestedIsRaised`). `LongestRunIs`: the loop over the
  rounds that open a run finds a run of a length exactly if there is one; each run
  ends, since a set of n rounds cannot hold n + 1 in a row (`RunsEnd`). With
  `NewestTip`, whose `Max` is the newest round when a chain is live, this gives
  `RaisableIs`, and `ContestedIs` turns it into the property.

- `DurableLoopConverges` (`AgreesWithConverge`) joins the chains to the loop. The two
  deciders ask different questions: the engine whether a chain can be raised, which
  must be in the newest round, `converge` whether one is stalled at all. A chain that
  is not in the newest round was a chain a round before (`OldChain`), so it had
  stalled then and `converge` would not have come this far (`NoStallWithoutNews`).
  And the engine counts verdicts where `converge` counts rounds, which are as many
  (`AllReviewed`, with `Counts` of `RoundInv`). `ConvergeInv` carries this over the
  steps between a decision and its effect: what is in hand agrees (`InHand`), the
  rounds before and the questions asked agree (`Followed`) and stay so, since a
  verdict is of the newest round, of which nothing was asked (`OutcomeKept`); what
  was raised is still open, for nobody has answered (`Untouched`).

`Least` and `Greatest` of sets of naturals come from the well-foundedness of
inclusion among finite sets, because the library's induction theorems take an
operator as a parameter and cannot be cited here.

**ReductionProofs**, a cached value (assumption: the bounds are naturals). An answer's
correctness is a property of one moment; what makes it inductive is that
soundness travels: `SoundAt` holds of the row in the store and of every row a
call took from it earlier, a call that starts from nothing had no sound row in
its hand, and what a call has folded is the reduction so far (`CallAt`). Both
facts survive a growing log (`SoundGrows`, `CallGrows`), and `AdvanceReduces` is
the algebra: advancing the reduction at a cursor up to a later one is the
reduction there. From `IndInv`: `ValuesTypeCorrect`, `AnswersCorrect`,
`AnswersFresh`, `RowsCorrect`, and the action property `RowsAdvance`.

**ReductionProofs**, the build reducer (assumption: no member is called like a phase
that is none). The properties compare two accumulators when both have read
everything; `FoldInv` compares `whole` with `ahead`, always. The two are `Alike`:
same facts (`SameFacts`, all but phase and step), both implementing or neither, and
equal altogether until members overlap, since before that no batch's end repairs
anything. Each event keeps them alike (the lemmas named `...Keeps`) because what it
makes of a fact depends on no phase and no step; the end of a batch does because it
computes the step, and the phase while members run, from facts alone
(`FinishBySame`). `FinishTwice` makes the carried step the one that the whole fold
would be repaired to, hence `BatchesChangeNoFact`. `Coherent` adds that a phase is
nobody's who is settled, which leaves orphans as the only ones to differ about
(`OnlyOrphansSplitThePhase`), and `QuestionsInForce`, of the whole fold, gives
`CancelledMembersAskNothing`. That the last running member is one that runs needs a
greatest index to exist: `Least` and `Greatest` derive it from the well-foundedness
of inclusion among finite sets.

**LandingProofs** (assumption: at least one head, bounds are naturals).
`LandingTypeCorrect` needs three facts beside the types: a poll that reads the
log has read it, there is room for a head where one is due, and the publisher
works on a build at work. `ReceiptsTell` is about `ArmedIsKnown`, which every
actor could break at a distance: the poll by a receipt that is older than another
enable, the publisher by its receipt of a cancellation. `ArmedInv` says why they
do not: while a poll runs nothing else arms, so what it read as disarmed stays so
until it enables (`SeenArmed`, `OffDisarmed`, `Cancelled`); an enable under way is
outstanding in the log (`EnableKnown`, `LateKnown`); and while the publisher has
its receipt in hand nothing confirms an enable (`Suspending`).
`LandsWhatWasVerified` assumes nothing more: neither that checks take long nor that
the dispatcher polls. `LandInv` is what holds of an armed head. What arms or merges
names a head that is never past the decision (`Expected`), so an enable reaches a
decided head, and only a push moves an armed request to another. A poll that began
at the head and read a log that was ready for it has read the truth (`ReadGood`,
`ReadyRead`), otherwise it disarms; so after `converge` an armed head it began with
is good (`PassedGood`), and what a poll of the head has left armed is good: an armed
head that is not good was carried by the push and has not been polled
(`ArmedGood`). The forge merges nothing else, and a direct merge compares the head.

**VerifyStageProofs** (assumptions: stages are disjoint sets of steps numbered by
naturals, bounds are naturals). `BarriersHold` is about a moment long after the
decision: a child is queued by one step of the runner and starts by another, with
crashes and children of earlier stages between them. `QueuedInv` carries it over:
a child that waits was queued when every earlier stage of its cycle had passed
(`RunnableIsDue`), and a pass is a fate, which stays (`FatesKept`), so it still
holds when the child starts. `QuestionsDieWithMember` has a case for every writer of a
fate. `FatesStand` needs no invariant beyond the types: every writer looks for a
fate in the step that writes one. `ImplementIsAlone` is about a session that was
started in one stage and a decision to implement after another. `AloneInv` follows
it: in a stage a live session has its child, which leaving awaits (`Linked`); a
child still waiting for its session has no fate (`Open`), so a cancellation aims at
it (`Aimed`); between stages the workspace is quiet or the execution condemned to
be replaced first (`Between`). The proof failed with the exception first
stated, a terminal that beats the cancellation of its own member while that
member's session still runs: with two agents in a stage the session left behind
may be the other's, since the cancellation that cancelled nothing condemns nothing.
`ghost.missed` now says so; the case is item 8 of section 6.
`RevisionsAreAuthorized` follows from `NoOrphanQuestion`: an answer is withdrawn
with the member that asked.

**TurnControlProofs** (assumption: bounds are naturals, at least one attempt).
`NewestStands` is threatened by a runner that acknowledges what it decided before
the newest command: `CommandInv` says that a resume in hand beside a newer pause
leaves that pause pending. `OneOutcomeEach` rests on compare-and-append.
`ReadsInv` says what each writer between its read and its append knows: an agent
that its terminal is accepted, a suspending runner that there is none, a
continuing one that its predecessor is live and its work due. It is preserved
since every step that changes what a read depends on is an append and voids all
reads (`ChangesAppend`). With `DeliveredIsDone` each append that is made then
finds the session as its read did (`DepositKeeps`, `SuspendKeeps`, `OpenKeeps`).

**DispatchRecoveryProofs** (assumptions: finitely many dispatchers, none of them
named like another holder of the lease; at least one attempt). `LaunchesFounded`:
a job's place says which boundaries it found or crossed (`JobsFounded`), and no
step of any other dispatcher takes a fact back (`NextGrows`). `OneProvisionerAlways`:
an unsignalled continuation holds the lease while it beats (`LeaseInv`); nobody
else may claim it (`HeldIsNotClaimable`), a launch reserves no lease that is live, and it is released only by the
continuation itself or by a teardown, which signals first (`StopInv`).
`BudgetKept`: every attempt past its check has the failure it may record reserved
(`FlightInv`). One that passes the check found a failure to spare, and the others
under way number at most the other dispatchers; without a takeover there are none
(`LeadInv`).

**HarvestProofs** (assumptions: finitely many observations, at least one run,
attempt and recovery, bounds are naturals). Four inductive invariants, each on top
of `JournalInv`.

- `JournalInv` gives `JournalIsSound` and `JournalNeverRefused`. The fold throws on
  a second claim, a recovery of a run that does not stand parked, a second key. All
  of these are decided from one read and appended in a later step, with requests,
  agents and crashes between. `Decided` and `Reserving` say that what was read
  still holds, also over the three steps of a give-up: only the runner changes the
  standing of a run or a key. They rest on
  where runner and agents stand (`OnRun`, `OnAgents`), on what an approval or a
  review presupposes (`Grounds`), and on a run that was not started being blank
  (`Fresh`), which makes the next run's claim the first fact of it.
- `TicketInv` gives `OneTicketOfAnObservation`. Every ticket belongs to a reserved
  key of its cluster (`TicketsAreReserved`) and keys are distinct, since a new one is
  above the number of reservations (`KeysAreDistinct`). Two tickets of an observation
  are therefore of two clusters or of two runs. Two clusters of one run are of two
  sets, because a set's are disjoint (`TwoClusters`); of two runs, both claimed it (`Proposed`: what is keyed was proposed,
  what is proposed was claimed), and two claims meet only in what one of them
  released (`ClaimsAreDisjoint`). `Creating` ties the key in the runner's hand to
  the journal's.
- `ReviewInv` gives `FilesWhatWasReviewed`. A review names the set its session read
  when it checked, and the runner files from the set it read last; neither need be
  the newest. While there is one set they agree with it (`Reviewed`,
  `SaysReviewed`, `Filing`); `RunsGrow` says that sets are only added.
- `ScanInv` gives `HalfMadeIsWithheld`. What is filed is whole (`FiledIsWhole`), so
  what a scan knew as reserved before its listing is held, idle or whole
  (`Scanned`), and a bare ticket that appears between the reads was reserved since.

Only model-checked: all liveness, which is outside what the prover supports
(section 3, Fairness). Every safety property that a run checks is also a theorem.

## 6. Where code and documents disagree

Met while modelling. The passing properties are stated for what remains true
beside these; where a race is excluded, the property names it.

Turns and reviews:

1. A terminal between the look for one and `phase.failed` is followed by that
   failure, though "no contradictory failure is appended"
   (`processes/build-runner.ts:4063`).
2. A chain that stalled once, was let go for a round and is raised again is
   reported as persisting at a live streak of one, though a comment says the
   streak is live (`kernel/stall.ts`).
3. What was produced under the old spec counts after `spec.revised` if its
   terminal lands later, though "the build restarts from planning".
4. A step begins although every beat since the lease was lost went unanswered
   (`build-runner.ts:1179`: a store error teaches nothing).
5. An abort that lands between the decision and the opening of the turn is heard
   only at the turn's end (`build-runner.ts:3377`).
6. The late second append of one verdict *escalate* is taken for the question of
   a later one, whose own question is then not raised if its CLI dies
   (`cli/terminals.ts:697`, `kernel/engine.ts:430`).

Verify stages:

7. `execution.started` lands after a cancellation in the same execution and is
   taken for its replacement; rework starts without teardown.
8. A verdict that wins against its own cancellation leaves an agent that nobody
   awaits.
9. A question raised between the answers of a revision and its `spec.revised`
   stays open while the build goes on.

Reductions:

10. `kernel/incremental.ts:3-6` has a fold of batches equal the whole fold; the
    repair at the end of each batch (`kernel/reducer.ts:1341-1353`) makes the
    current phase depend on where batches end, for a member that was started
    before the cycle's boundary and never settled.
    `PhaseDiffersOnlyForOrphans` is what holds.

Dispatch, harvest and landing:

11. A heartbeat in flight when `stopProvisioning` releases the lease
    (`processes/dispatcher.ts:2230-2234`) takes it again, because it renews by
    claiming: "so the next supervisor adopts immediately" (`cli/dispatch.ts:4857`)
    then waits for the expiry.
12. `SPEC.md:2417-2419` has filing crash-safe, a restart adopting the ticket it had
    created, and `SPEC.md:2443-2446` has a give-up release "only genuinely pending
    work"; `partitionHarvestExhaustion` (`processes/harvest.ts:676-680`) never asks
    the source, so a ticket that was created but not recorded is released and made
    once more. Nor does it take a give-up: a proposal set that a session left behind
    appends after the review (`cli/harvest.ts:246-263` checks and then appends) is the
    one a standing approval files (`processes/harvest-runner.ts:470-480`), and where it
    clusters an observation otherwise the key is another
    (`processes/harvest.ts:499-502`). `NoSecondTicket` names both cases.
13. `SPEC.md:3913-3915` tells human merges from native ones; a native merge
    between the read of the pull request and the disarm of a held build is put
    down to a human (`processes/dispatcher.ts:4034-4037`): disarming a merged
    pull request answers *applied* and leaves a receipt that says off. The
    classification does not look at the candidate either.
14. An enable for the old head that lands between the publisher's last look
    (`kernel/landing-publication.ts:56-60`) and its push is carried to a head nobody has
    verified; see `VerifiedLands` and section 2.

Exposed without a property: the comment at `kernel/engine.ts:969` about what is
live; a concurrent verifier's question at `engine.ts:278`; the position a log
index assumes at `kernel/log-index.ts:525`; a run whose runner lost the lease is
not taken up while its bracket looks open (`kernel/harvest.ts:311`).

## 7. Plan

Done: store, lease, turns, chains, review loop, verify stages, reducer values,
the reducer's batch-wise fold, dispatch from ticket to runner, landing, harvest;
proofs for store, lease, review loop, chains, turns, verify stages, reductions,
dispatch, landing and harvest. What is left, in this order:

1. `Restack`: prepared record, rewrite, push and completion, each of which a
   crash may follow (`kernel/reconcile-restack.ts:38`). It composes with
   `Landing`, whose `Push` and `Record` are its last two steps.
2. Node landing and integration cycles: `Landing` with a node as the target.
3. Ticket claims and capacity above `DispatchRecovery`: each ticket is built by at
   most one live build.
4. The operator's short leases and the janitor's claims in `BuildLease`.
5. Delivery of subscriptions, which `TurnControl` takes as eventual.

Proofs: every safety property of section 3 is a theorem. What the modules above
add comes with its own.

## 8. Not modelled

- Subscriptions beyond "delivers every append some time later"; queries, views,
  formatting, schemas and validation of payloads; configuration, plugins,
  accounts: no protocol, or pure input and output.
- The forge, Git, ticket sources and sandboxes: outside the repository, modelled
  as what the code assumes of them. An agent is an environment that gives a
  terminal, ends, or is stopped.
- PostgreSQL and remote stores, the hosted service: other implementations of
  the contract and another system beside the core; `StorePromise` is what the
  modules above them may assume.
- Restack, reconcile, nodes, integration and stacks: a second pipeline above the
  builds, mostly Git's state.
- Within the modelled parts: `BuildFold` lets a cancellation land after an outcome,
  which the runner's comparing append does not; in `VerifyStage` the last read of a
  check's start and its append are one step; in `DispatchRecovery` a reservation does
  not lapse before its start has returned, which `BuildLease` has; `TurnControl` has one phase and no parallel
  sessions; `ReviewLoop` no operator commands; `VerifyStage` one repository
  configuration; `ReducerValues` the local store's row, not the hosted
  checkpoints; `DispatchRecovery` no ticket claims, capacity, janitor or local
  provisioning; `Landing` no node targets, merge policy rules, retry delays,
  deferrals by the forge, closed pull requests or pauses; `Harvest` no revision
  rounds, joins, suppress ledger, pressure gate or loss of its lease. The lease is
  assumed exclusive by the runner's three modules, which `OneRunsUnlessStalled`
  justifies for punctual runners only: two runners on one build are modelled in
  `BuildLease` alone.
