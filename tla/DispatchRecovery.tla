-------------------------- MODULE DispatchRecovery --------------------------
(***************************************************************************)
(* From a claimed ticket to a launched runner, on a remote workspace       *)
(* provider (processes/dispatcher.ts: recoverDispatches,                   *)
(* attemptDispatchCompletion, the provisioning continuation,               *)
(* completeDispatchBoundaries, stopProvisioning;                           *)
(* processes/dispatch-failure-budget.ts).                                  *)
(*                                                                         *)
(* One build and the dispatchers that share its repository.  What the      *)
(* code derives from the build's log is the record `log`; the execution    *)
(* lease is BuildLease's, by who holds it and whether it is live.  A       *)
(* dispatcher does one thing at a time for a build: a tick's attempt, or   *)
(* the continuation the tick kicked.  Every await is a step.               *)
(***************************************************************************)
EXTENDS Integers, FiniteSets

CONSTANTS
  Dispatchers,
  First,         \* the dispatcher that claimed the build's ticket
  MaxAttempts,   \* policy.maxDispatchAttempts
  MaxTrouble     \* calls that fail, and twice the crashes, stops, takeovers and lapses (bound)

NoOne == "none"

ASSUME DispatchAssumption ==
  /\ IsFiniteSet(Dispatchers) /\ First \in Dispatchers
  /\ {NoOne, "dead", "runner"} \cap Dispatchers = {}
  /\ MaxAttempts \in Nat \ {0}
  /\ MaxTrouble \in Nat

VARIABLES
  log,       \* the facts of the build's log
  posted,    \* the ticket carries the dispatch comment
  lease,     \* the build's execution lease
  runner,    \* a started child has not attached yet
  leader,    \* the dispatcher that holds the repository lease
  doing,     \* what each dispatcher does for the build
  current,   \* nothing was appended since it read the budget
  late,      \* a heartbeat of an ended continuation is in flight
  stop,      \* where stopProvisioning is
  faults, mishaps,
  lapsed     \* some live continuation's lease ran out

shared == <<log, posted, lease, runner, leader>>
own == <<doing, current, stop>>
vars == <<shared, own, late, faults, mishaps, lapsed>>

Trouble == faults + 2 * mishaps
Fault == Trouble + 1 <= MaxTrouble /\ faults' = faults + 1
Mishap == Trouble + 2 <= MaxTrouble /\ mishaps' = mishaps + 1

\* The holder of the lease: a continuation (its dispatcher), the instance a runner is
\* launched as, or one that will not beat again.
Free == [by |-> NoOne, live |-> FALSE]
Dead == [by |-> "dead", live |-> TRUE]

\* The status is queued: no runner, no open escalation, not aborted.
Queued == ~log.attached /\ log.open = 0 /\ ~log.aborted

-----------------------------------------------------------------------------
(* Shared operations                                                       *)

\* An append moves the log's end, so nobody's cursor is current.
Append(facts) ==
  /\ log' = facts
  /\ current' = [d \in Dispatchers |-> FALSE]

\* Mutant: a live lease does not stop a claim.
ClaimableBy_Any(d) == TRUE
\* claimLease.
ClaimableBy(d) == lease.by \in {NoOne, d} \/ ~lease.live

Released(d) == IF lease.by = d THEN Free ELSE lease

NoFacts == [fails |-> 0, open |-> 0, aborted |-> FALSE, marker |-> "none", failed |-> FALSE,
            ws |-> FALSE, spec |-> FALSE, comment |-> FALSE, attached |-> FALSE]
\* The facts it read, what follows the budget check it is in, and whether it is a
\* continuation and that was signalled.
Idle == [at |-> "idle", next |-> "end", seen |-> NoFacts, cont |-> FALSE, aborted |-> FALSE]

Go(d, pc) == doing' = [doing EXCEPT ![d].at = pc]
\* The facts a later step of the attempt goes by.
Seen == [NoFacts EXCEPT !.marker = log.marker, !.failed = log.failed,
                        !.spec = log.spec, !.comment = log.comment]
GoSeen(d, pc) == doing' = [doing EXCEPT ![d].at = pc, ![d].seen = Seen]
\* The budget is checked, then it goes on.
Check(d, then) == doing' = [doing EXCEPT ![d].at = "budget", ![d].next = then, ![d].seen = NoFacts]
\* The attempt or the continuation is over.
End(d) == doing' = [doing EXCEPT ![d] = Idle]

-----------------------------------------------------------------------------
(* The dispatch failure budget (ensureDispatchBudget)                      *)

Parked == log.aborted \/ log.open > 0

\* Mutant: one attempt more than allowed.
Exhausted_OffByOne == log.fails > MaxAttempts
Exhausted == log.fails >= MaxAttempts

\* It reduces the log: parked ends the attempt, below the limit it goes on.
Budget(d) ==
  /\ doing[d].at = "budget"
  /\ \/ Parked /\ End(d) /\ UNCHANGED current
     \/ /\ ~Parked /\ ~Exhausted
        /\ IF doing[d].next = "end" THEN End(d)
           ELSE doing' = [doing EXCEPT ![d].at = doing[d].next, ![d].next = "end"]
        /\ UNCHANGED current
     \/ /\ ~Parked /\ Exhausted
        /\ Go(d, "raise")
        /\ current' = [current EXCEPT ![d] = TRUE]
  /\ UNCHANGED <<shared, stop, late, faults, mishaps, lapsed>>

\* The escalation is appended only where the budget was read; otherwise it is read again.
Raise(d) ==
  /\ doing[d].at = "raise"
  /\ IF current[d]
     THEN Append([log EXCEPT !.open = @ + 1]) /\ End(d)
     ELSE Go(d, "budget") /\ UNCHANGED <<log, current>>
  /\ UNCHANGED <<posted, lease, runner, leader, stop, late, faults, mishaps, lapsed>>

-----------------------------------------------------------------------------
(* A tick's attempt (attemptDispatchCompletion)                            *)

\* The leader's tick takes up a queued build it has no continuation for, by the view
\* it refreshed when it began.
Tick(d) ==
  /\ leader = d /\ doing[d].at = "idle" /\ stop[d] = "no" /\ Queued
  /\ Check(d, "facts")
  /\ UNCHANGED <<shared, current, stop, late, faults, mishaps, lapsed>>

\* Without an open workspace it looks at the provisioning marker.
Facts(d) ==
  /\ doing[d].at = "facts"
  /\ IF log.ws THEN Check(d, "boundaries") ELSE GoSeen(d, "marker")
  /\ UNCHANGED <<shared, current, stop, late, faults, mishaps, lapsed>>

\* Mutant: a marker without a lease is never adopted.
Adoptable_LeasedOnly(facts) ==
  facts.marker = "none" \/ (~lease.live /\ lease # Free)

\* An open marker is left to its owner while the lease is live, and without a lease
\* until an attempt failed after it or it is old.
Adoptable(facts) ==
  \/ facts.marker = "none"
  \/ ~lease.live /\ (lease # Free \/ facts.failed \/ facts.marker = "stale")

Marker(d) ==
  /\ doing[d].at = "marker"
  /\ IF Adoptable(doing[d].seen) THEN Go(d, "mark") ELSE End(d)
  /\ UNCHANGED <<shared, current, stop, late, faults, mishaps, lapsed>>

\* The marker, and the continuation registered with it.
Mark(d) ==
  /\ doing[d].at = "mark"
  /\ Append([log EXCEPT !.marker = "fresh", !.failed = FALSE])
  /\ doing' = [doing EXCEPT ![d] = [Idle EXCEPT !.at = "start", !.cont = TRUE]]
  /\ UNCHANGED <<posted, lease, runner, leader, stop, late, faults, mishaps, lapsed>>

-----------------------------------------------------------------------------
(* The continuation (runProvisionContinuation)                             *)

\* It claims the build's lease, unless it was signalled before.
Start(d) ==
  /\ doing[d].at = "start"
  /\ IF ~doing[d].aborted /\ ClaimableBy(d)
     THEN /\ lease' = [by |-> d, live |-> TRUE]
          /\ Go(d, "claimed")
     ELSE End(d) /\ UNCHANGED lease
  /\ UNCHANGED <<log, posted, runner, leader, current, stop, late, faults, mishaps, lapsed>>

\* Signalled meanwhile it gives up; otherwise it calls the provider.
Claimed(d) ==
  /\ doing[d].at = "claimed"
  /\ Go(d, IF doing[d].aborted THEN "finally" ELSE "call")
  /\ UNCHANGED <<shared, current, stop, late, faults, mishaps, lapsed>>

\* The provider's answer is recorded also when the continuation was signalled.
Provisioned(d) ==
  /\ doing[d].at = "call"
  /\ Append([log EXCEPT !.ws = TRUE, !.marker = "none"])
  /\ Go(d, "provisioned")
  /\ UNCHANGED <<posted, lease, runner, leader, stop, late, faults, mishaps, lapsed>>

\* dispatch.failed at stage workspace, which does not count against the budget here.
ProvisionFails(d) ==
  /\ doing[d].at = "call" /\ Fault
  /\ Append([log EXCEPT !.failed = log.marker # "none"])
  /\ Go(d, "finally")
  /\ UNCHANGED <<posted, lease, runner, leader, stop, late, mishaps, lapsed>>

Beating(d) == doing[d].at \in {"claimed", "call", "provisioned", "finally"}

\* The heartbeat stops; one already sent may still land.
StopBeating(d) == late' \in {late, late \/ Beating(d)}

\* The lease is released before the boundaries and the launch.
Release(d) ==
  /\ doing[d].at = "provisioned"
  /\ StopBeating(d)
  /\ lease' = Released(d)
  /\ IF doing[d].aborted THEN End(d)
     ELSE Check(d, "boundaries")
  /\ UNCHANGED <<log, posted, runner, leader, current, stop, faults, mishaps, lapsed>>

Finally(d) ==
  /\ doing[d].at = "finally"
  /\ StopBeating(d)
  /\ lease' = Released(d)
  /\ End(d)
  /\ UNCHANGED <<log, posted, runner, leader, current, stop, faults, mishaps, lapsed>>

\* A beat is a claim, and what it answers is not looked at.
Beat(d) ==
  /\ Beating(d) /\ ClaimableBy(d)
  /\ lease' = [by |-> d, live |-> TRUE]
  /\ UNCHANGED <<doing, log, posted, runner, leader, current, stop, late, faults, mishaps, lapsed>>

LateBeatLands ==
  /\ late
  /\ late' = FALSE
  /\ lease' = IF lease.live THEN lease ELSE Dead
  /\ UNCHANGED <<log, posted, runner, leader, own, faults, mishaps, lapsed>>

-----------------------------------------------------------------------------
(* The boundaries after the workspace (completeDispatchBoundaries)         *)

\* Mutant: a recorded spec stands for the comment too.
Missing_SpecOnly(facts) == IF ~facts.spec THEN "spec" ELSE "launch"

\* The first boundary the facts lack.
Missing(facts) ==
  CASE ~facts.spec -> "spec"
    [] facts.spec /\ ~facts.comment -> "comment"
    [] OTHER -> "launch"

\* The facts are read once; a build that is not queued is left alone.
Boundaries(d) ==
  /\ doing[d].at = "boundaries"
  /\ IF Queued THEN GoSeen(d, Missing(log)) ELSE End(d)
  /\ UNCHANGED <<shared, current, stop, late, faults, mishaps, lapsed>>

\* The spec and its artifact, in one append.
ImportSpec(d) ==
  /\ doing[d].at = "spec"
  /\ Append([log EXCEPT !.spec = TRUE])
  /\ Go(d, Missing([doing[d].seen EXCEPT !.spec = TRUE]))
  /\ UNCHANGED <<posted, lease, runner, leader, stop, late, faults, mishaps, lapsed>>

Comment(d) ==
  /\ doing[d].at = "comment"
  /\ posted' = TRUE
  /\ Go(d, "commented")
  /\ UNCHANGED <<log, lease, runner, leader, current, stop, late, faults, mishaps, lapsed>>

RecordComment(d) ==
  /\ doing[d].at = "commented"
  /\ Append([log EXCEPT !.comment = TRUE])
  /\ Go(d, "launch")
  /\ UNCHANGED <<posted, lease, runner, leader, stop, late, faults, mishaps, lapsed>>

\* The status is read again right before the launch.
Launch(d) ==
  /\ doing[d].at = "launch"
  /\ IF Queued THEN Go(d, "reserve") ELSE End(d)
  /\ UNCHANGED <<shared, current, stop, late, faults, mishaps, lapsed>>

\* launchRunner reserves the lease for the instance, or finds the build held.
Reserve(d) ==
  /\ doing[d].at = "reserve"
  /\ IF lease.live THEN End(d) /\ UNCHANGED lease
     ELSE lease' = [by |-> "runner", live |-> TRUE] /\ Go(d, "starting")
  /\ UNCHANGED <<log, posted, runner, leader, current, stop, late, faults, mishaps, lapsed>>

\* execution.start.
StartRunner(d) ==
  /\ doing[d].at = "starting"
  /\ runner' = TRUE
  /\ End(d)
  /\ UNCHANGED <<log, posted, lease, leader, current, stop, late, faults, mishaps, lapsed>>

\* A boundary throws.  A comment that threw may have been posted, and a start that
\* threw may have started the runner: its lease is left to expire.
BoundaryFails(d) ==
  /\ doing[d].at \in {"spec", "comment", "launch", "reserve", "starting"} /\ Fault
  /\ posted' \in {posted} \cup (IF doing[d].at = "comment" THEN {TRUE} ELSE {})
  /\ runner' \in {runner} \cup (IF doing[d].at = "starting" THEN {TRUE} ELSE {})
  /\ Go(d, "failed")
  /\ UNCHANGED <<log, lease, leader, current, stop, late, mishaps, lapsed>>

\* dispatch.failed, then the budget check that may escalate: two appends.
RecordFailure(d) ==
  /\ doing[d].at = "failed"
  /\ Append([log EXCEPT !.fails = @ + 1])
  /\ Check(d, "end")
  /\ UNCHANGED <<posted, lease, runner, leader, stop, late, faults, mishaps, lapsed>>

-----------------------------------------------------------------------------
(* Teardown (stopProvisioning) and the repository lease                    *)

\* The continuation is signalled; it runs on until it looks.
Signal(d) ==
  /\ stop[d] = "no" /\ doing[d].cont /\ Mishap
  /\ stop' = [stop EXCEPT ![d] = "signalled"]
  /\ doing' = [doing EXCEPT ![d].aborted = TRUE]
  /\ UNCHANGED <<shared, current, late, faults, lapsed>>

\* An open marker gets a failure, so that the next supervisor adopts it at once.
StopRecords(d) ==
  /\ stop[d] = "signalled"
  /\ stop' = [stop EXCEPT ![d] = "recorded"]
  /\ IF log.marker # "none" THEN Append([log EXCEPT !.failed = TRUE]) ELSE UNCHANGED <<log, current>>
  /\ UNCHANGED <<doing, posted, lease, runner, leader, late, faults, mishaps, lapsed>>

\* Then the lease is released, and after it the repository's.
StopReleases(d) ==
  /\ stop[d] = "recorded"
  /\ stop' = [stop EXCEPT ![d] = "stopped"]
  /\ lease' = Released(d)
  /\ leader' = IF leader = d THEN NoOne ELSE leader
  /\ UNCHANGED <<doing, log, posted, runner, current, late, faults, mishaps, lapsed>>

\* The process ends, whatever it was doing, and another starts in its place.
Restarted(d) ==
  /\ End(d)
  /\ stop' = [stop EXCEPT ![d] = "no"]
  /\ StopBeating(d)
  /\ lease' = IF lease.by = d THEN [lease EXCEPT !.by = "dead"] ELSE lease
  /\ leader' = IF leader = d THEN NoOne ELSE leader
  /\ UNCHANGED <<log, posted, runner, current, faults, lapsed>>

Exit(d) == stop[d] = "stopped" /\ Restarted(d) /\ UNCHANGED mishaps

Crash(d) == Mishap /\ Restarted(d)

Lead(d) ==
  /\ leader = NoOne /\ stop[d] = "no"
  /\ leader' = d
  /\ UNCHANGED <<log, posted, lease, runner, own, late, faults, mishaps, lapsed>>

\* The leader's repository lease lapsed: it starts no further tick, but the one it
\* is in, and its continuation, go on.
Supersede(d) ==
  /\ leader \notin {NoOne, d} /\ stop[d] = "no" /\ Mishap
  /\ leader' = d
  /\ UNCHANGED <<log, posted, lease, runner, own, late, faults, lapsed>>

-----------------------------------------------------------------------------
(* Time, the runner and the operator                                       *)

\* Beats came too late, though the continuation runs.
Lapse(d) ==
  /\ lease = [by |-> d, live |-> TRUE] /\ Mishap
  /\ lease' = [lease EXCEPT !.live = FALSE]
  /\ lapsed' = TRUE
  /\ UNCHANGED <<log, posted, runner, leader, own, late, faults>>

\* Nobody starts the instance the lease was reserved for.
Unstarted ==
  /\ lease.by = "runner" /\ lease.live /\ ~log.attached /\ ~runner
  /\ \A d \in Dispatchers : doing[d].at # "starting"

Expire ==
  /\ lease = Dead \/ Unstarted
  /\ lease' = [lease EXCEPT !.live = FALSE]
  /\ UNCHANGED <<log, posted, runner, leader, own, late, faults, mishaps, lapsed>>

\* provisionStaleMs passed since the marker.
Age ==
  /\ log.marker = "fresh"
  /\ log' = [log EXCEPT !.marker = "stale"]
  /\ UNCHANGED <<posted, lease, runner, leader, own, late, faults, mishaps, lapsed>>

\* The child claims the lease again under its instance and attaches, or finds it
\* held by another and exits.
RunnerStarts ==
  /\ runner
  /\ runner' = FALSE
  /\ IF lease.live /\ lease.by # "runner" THEN UNCHANGED <<log, current, lease>>
     ELSE /\ lease' = [by |-> "runner", live |-> TRUE]
          /\ Append([log EXCEPT !.attached = TRUE, !.fails = 0])
  /\ UNCHANGED <<doing, posted, leader, stop, late, faults, mishaps, lapsed>>

\* The child is lost before it attached.
RunnerDies ==
  /\ runner /\ Mishap
  /\ runner' = FALSE
  /\ UNCHANGED <<log, posted, lease, leader, own, late, faults, lapsed>>

\* A human answers the escalation: retry, or abort.
Answer ==
  /\ log.open > 0
  /\ \/ Append([log EXCEPT !.open = @ - 1, !.fails = 0])
     \/ Append([log EXCEPT !.open = @ - 1, !.aborted = TRUE])
  /\ UNCHANGED <<doing, posted, lease, runner, leader, stop, late, faults, mishaps, lapsed>>

Init ==
  /\ log = NoFacts /\ posted = FALSE
  /\ lease = Free /\ runner = FALSE /\ leader = First
  /\ doing = [d \in Dispatchers |-> Idle]
  /\ current = [d \in Dispatchers |-> FALSE]
  /\ late = FALSE
  /\ stop = [d \in Dispatchers |-> "no"]
  /\ faults = 0 /\ mishaps = 0 /\ lapsed = FALSE

Work(d) ==
  \/ Tick(d) \/ Budget(d) \/ Raise(d) \/ Facts(d) \/ Marker(d) \/ Mark(d)
  \/ Start(d) \/ Claimed(d) \/ Provisioned(d) \/ ProvisionFails(d) \/ Release(d) \/ Finally(d)
  \/ Boundaries(d) \/ ImportSpec(d) \/ Comment(d) \/ RecordComment(d) \/ Launch(d)
  \/ Reserve(d) \/ StartRunner(d) \/ BoundaryFails(d) \/ RecordFailure(d)

Teardown(d) == StopRecords(d) \/ StopReleases(d) \/ Exit(d)

Next ==
  \/ \E d \in Dispatchers :
       \/ Work(d) \/ Beat(d)
       \/ Signal(d) \/ Teardown(d) \/ Crash(d) \/ Lead(d) \/ Supersede(d) \/ Lapse(d)
  \/ LateBeatLands \/ Expire \/ Age \/ RunnerStarts \/ RunnerDies \/ Answer

\* A process runs on, somebody leads, provider calls return, time passes, a launched
\* child starts.  Nobody need answer, and nothing need fail; nor need a beat arrive.
Fairness ==
  /\ \A d \in Dispatchers : WF_vars(Work(d) \/ Teardown(d) \/ Lead(d))
  /\ WF_vars(Expire) /\ WF_vars(Age) /\ WF_vars(RunnerStarts)

Spec == Init /\ [][Next]_vars /\ Fairness

-----------------------------------------------------------------------------
(* Properties                                                              *)

FactSets == [fails : Nat, open : Nat, aborted : BOOLEAN, marker : {"none", "fresh", "stale"},
             failed : BOOLEAN, ws : BOOLEAN, spec : BOOLEAN, comment : BOOLEAN, attached : BOOLEAN]
Places == {"idle", "budget", "raise", "facts", "marker", "mark", "start", "claimed", "call",
           "provisioned", "finally", "boundaries", "spec", "comment", "commented", "launch",
           "reserve", "starting", "failed"}
Jobs == [at : Places, next : {"facts", "boundaries", "end"}, seen : FactSets,
         cont : BOOLEAN, aborted : BOOLEAN]

TypeOK ==
  /\ log \in FactSets /\ {posted, runner, late, lapsed} \subseteq BOOLEAN
  /\ lease \in [by : Dispatchers \cup {NoOne, "dead", "runner"}, live : BOOLEAN]
  /\ leader \in Dispatchers \cup {NoOne}
  /\ doing \in [Dispatchers -> Jobs] /\ current \in [Dispatchers -> BOOLEAN]
  /\ stop \in [Dispatchers -> {"no", "signalled", "recorded", "stopped"}]
  /\ {faults, mishaps} \subseteq 0 .. MaxTrouble

\* As long as no live continuation let its lease run out, one continuation at most
\* calls the provider for a build unsignalled, across crashes, teardowns, takeovers
\* and markers adopted from their owners.
OneProvisioner ==
  ~lapsed => Cardinality({d \in Dispatchers : doing[d].at = "call" /\ ~doing[d].aborted}) <= 1

\* A runner is launched over a workspace, a spec and a comment the ticket really
\* carries, whichever dispatcher did which of them and where the others crashed.
LaunchIsFounded ==
  runner \/ log.attached => log.ws /\ log.spec /\ log.comment /\ posted

\* A dispatcher undisturbed records no failure beyond the limit, and where one takes
\* over from another at work each adds one at most: no attempt starts from an exhausted
\* budget, also when the escalation was lost to a crash.
BudgetHolds ==
  log.fails <= MaxAttempts + (IF mishaps = 0 THEN 0 ELSE Cardinality(Dispatchers) - 1)

\* A claimed build is not left between its ticket and its runner: it gets its runner,
\* or a human is asked, or it is aborted.
Settled == log.attached \/ log.open > 0 \/ log.aborted
DispatchSettles == ~Settled ~> Settled
=============================================================================
