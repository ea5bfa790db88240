----------------------------- MODULE BuildLease -----------------------------
(***************************************************************************)
(* The build execution lease: claimLease, heartbeat and releaseLease of the *)
(* store, the dispatcher that reserves it for a launch, and the runner     *)
(* that renews it while it works (processes/build-runner.ts,               *)
(* cli/dispatch.ts, store/local/store.ts).                                 *)
(*                                                                         *)
(* Time is counted down: `left` is what remains of the lease, `due` what   *)
(* remains until a runner's next heartbeat.  An instance id stands for one *)
(* launch; it is reused only once nothing of that launch remains.          *)
(***************************************************************************)
EXTENDS Integers

CONSTANTS
  Instances,  \* launches of a runner for the build
  None,       \* no holder
  Ttl,        \* BUILD_EXECUTION_LEASE_TTL_MS
  Beat        \* heartbeatMs

ASSUME NoneAssumption == None \notin Instances
ASSUME TimesAssumption == Ttl \in Nat /\ Beat \in Nat /\ 0 < Beat /\ Beat < Ttl

VARIABLES
  holder,     \* leaseHolder
  left,       \* leaseExpiresAt - now, 0 once expired
  pc,         \* instance -> where its launch stands
  timer,      \* instance -> is its heartbeat timer running
  due,        \* instance -> time until its next beat
  lost,       \* instance -> leaseLost
  answer,     \* instance -> a `false` answer to a beat is on its way back
  missed      \* instance -> a beat failed or came late since the last claim
              \* or renewal (history)

leaseVars == <<holder, left, pc, timer, due, lost, answer, missed>>

Stages == {"idle", "reserved", "attaching", "loop", "step", "exited", "gone"}
Running == {"loop", "step"}

LeaseTypeOK ==
  /\ holder \in Instances \cup {None}
  /\ left \in 0 .. Ttl
  /\ pc \in [Instances -> Stages]
  /\ timer \in [Instances -> BOOLEAN]
  /\ due \in [Instances -> 0 .. Beat]
  /\ lost \in [Instances -> BOOLEAN]
  /\ answer \in [Instances -> BOOLEAN]
  /\ missed \in [Instances -> BOOLEAN]
  /\ \A r \in Instances : timer[r] <=> pc[r] \in Running

LeaseInit ==
  /\ holder = None
  /\ left = 0
  /\ pc = [r \in Instances |-> "idle"]
  /\ timer = [r \in Instances |-> FALSE]
  /\ due = [r \in Instances |-> 0]
  /\ lost = [r \in Instances |-> FALSE]
  /\ answer = [r \in Instances |-> FALSE]
  /\ missed = [r \in Instances |-> FALSE]

-----------------------------------------------------------------------------
(* The store's three lease operations, each one transaction.               *)

Live == left > 0
Holds(r) == holder = r /\ Live

\* Mutant: the expiry comparison is inverted.
Claimable_Inverted(r) == holder \in {None, r} \/ Live

\* claimLease refuses while another instance holds a live lease.
Claimable(r) == holder \in {None, r} \/ ~Live

Claim(r) == holder' = r /\ left' = Ttl

\* releaseLease: only the holder's own.
Release(r) ==
  IF holder = r THEN holder' = None /\ left' = 0 ELSE UNCHANGED <<holder, left>>

StopHeartbeat(r) == timer' = [timer EXCEPT ![r] = FALSE]

-----------------------------------------------------------------------------
(* The launch.                                                             *)

\* launchRunner: the supervisor reserves the lease under the new instance, or
\* settles the launch as lease-held.
Launch(r) ==
  /\ pc[r] = "idle"
  /\ Claimable(r)
  /\ Claim(r)
  /\ pc' = [pc EXCEPT ![r] = "reserved"]
  /\ UNCHANGED <<timer, due, lost, answer, missed>>

\* The launch fails where no process can have started: the lease is released.
LaunchFails(r) ==
  /\ pc[r] = "reserved"
  /\ Release(r)
  /\ pc' = [pc EXCEPT ![r] = "gone"]
  /\ UNCHANGED <<timer, due, lost, answer, missed>>

\* attach: the child re-claims under the same instance; LeaseHeldError ends it.
Attach(r) ==
  /\ pc[r] = "reserved"
  /\ IF Claimable(r)
     THEN Claim(r) /\ pc' = [pc EXCEPT ![r] = "attaching"]
     ELSE pc' = [pc EXCEPT ![r] = "exited"] /\ UNCHANGED <<holder, left>>
  /\ UNCHANGED <<timer, due, lost, answer, missed>>

-----------------------------------------------------------------------------
(* The running instance.                                                   *)

\* heartbeat: renews only the caller's own live lease.
Renews(r) == Holds(r)

\* The end of attach: one beat, whose answer nobody reads, then the timer.
StartHeartbeat(r) ==
  /\ pc[r] = "attaching"
  /\ left' = IF Renews(r) THEN Ttl ELSE left
  /\ missed' = [missed EXCEPT ![r] = ~Renews(r)]
  /\ timer' = [timer EXCEPT ![r] = TRUE]
  /\ due' = [due EXCEPT ![r] = Beat]
  /\ pc' = [pc EXCEPT ![r] = "loop"]
  /\ UNCHANGED <<holder, lost, answer>>

\* The timer fires and the store answers.  `false` travels back on its own.
Heartbeat(r) ==
  /\ timer[r] /\ due[r] = 0
  /\ due' = [due EXCEPT ![r] = Beat]
  /\ IF Renews(r)
     THEN /\ left' = Ttl
          /\ missed' = [missed EXCEPT ![r] = FALSE]
          /\ UNCHANGED answer
     ELSE /\ answer' = [answer EXCEPT ![r] = TRUE]
          /\ missed' = [missed EXCEPT ![r] = TRUE]
          /\ UNCHANGED left
  /\ UNCHANGED <<holder, pc, timer, lost>>

\* The timer fires and the store is unreachable: ignored until the next beat.
HeartbeatFails(r) ==
  /\ timer[r] /\ due[r] = 0
  /\ due' = [due EXCEPT ![r] = Beat]
  /\ missed' = [missed EXCEPT ![r] = TRUE]
  /\ UNCHANGED <<holder, left, pc, timer, lost, answer>>

\* The beat's promise resolves with `false`.
HeartbeatAnswered(r) ==
  /\ answer[r]
  /\ answer' = [answer EXCEPT ![r] = FALSE]
  /\ lost' = [lost EXCEPT ![r] = @ \/ pc[r] \in Running]
  /\ UNCHANGED <<holder, left, pc, timer, due, missed>>

\* ensureLease at a loop boundary, then the step begins.
EnsureLease(r) ==
  /\ pc[r] = "loop"
  /\ CASE ~lost[r] ->
            /\ pc' = [pc EXCEPT ![r] = "step"]
            /\ UNCHANGED <<holder, left, timer, due, lost, missed>>
       [] lost[r] /\ Claimable(r) ->
            /\ Claim(r)
            /\ pc' = [pc EXCEPT ![r] = "step"]
            /\ lost' = [lost EXCEPT ![r] = FALSE]
            /\ missed' = [missed EXCEPT ![r] = FALSE]
            /\ UNCHANGED <<timer, due>>
       [] lost[r] /\ ~Claimable(r) ->
            /\ pc' = [pc EXCEPT ![r] = "exited"]
            /\ StopHeartbeat(r)
            /\ UNCHANGED <<holder, left, due, lost, missed>>
  /\ UNCHANGED answer

FinishStep(r) ==
  /\ pc[r] = "step"
  /\ pc' = [pc EXCEPT ![r] = "loop"]
  /\ UNCHANGED <<holder, left, timer, due, lost, answer, missed>>

\* Mutant: run() returns without stopHeartbeat.
Exit_KeepsBeating(r) ==
  /\ pc[r] \in Running \cup {"attaching"}
  /\ pc' = [pc EXCEPT ![r] = "exited"]
  /\ UNCHANGED <<holder, left, timer, due, lost, answer, missed>>

\* attach or run returns: a control was acknowledged, the build is parked, the
\* run was shut down or failed.  The lease is left to expire.
Exit(r) ==
  /\ pc[r] \in Running \cup {"attaching"}
  /\ pc' = [pc EXCEPT ![r] = "exited"]
  /\ StopHeartbeat(r)
  /\ UNCHANGED <<holder, left, due, lost, answer, missed>>

-----------------------------------------------------------------------------
(* The end of a launch.                                                    *)

\* The supervisor saw the process end and releases the instance's lease.
Settle(r) ==
  /\ pc[r] = "exited"
  /\ Release(r)
  /\ pc' = [pc EXCEPT ![r] = "gone"]
  /\ UNCHANGED <<timer, due, lost, answer, missed>>

\* The process, its host or its supervisor dies: nothing is released.
Crash(r) ==
  /\ pc[r] \in Stages \ {"idle", "gone"}
  /\ pc' = [pc EXCEPT ![r] = "gone"]
  /\ StopHeartbeat(r)
  /\ UNCHANGED <<holder, left, due, lost, answer, missed>>

\* The id of a launch of which nothing remains names a later launch.
Forget(r) ==
  /\ pc[r] = "gone" /\ ~Holds(r) /\ ~answer[r]
  /\ pc' = [pc EXCEPT ![r] = "idle"]
  /\ due' = [due EXCEPT ![r] = 0]
  /\ lost' = [lost EXCEPT ![r] = FALSE]
  /\ missed' = [missed EXCEPT ![r] = FALSE]
  /\ UNCHANGED <<holder, left, timer, answer>>

\* Time passes.  A timer whose beat is overdue has missed it.
Tick ==
  /\ left' = IF Live THEN left - 1 ELSE 0
  /\ due' = [r \in Instances |-> IF timer[r] /\ due[r] > 0 THEN due[r] - 1 ELSE due[r]]
  /\ missed' = [r \in Instances |-> missed[r] \/ (timer[r] /\ due[r] = 0)]
  /\ UNCHANGED <<holder, pc, timer, lost, answer>>

LeaseNext ==
  \/ Tick
  \/ \E r \in Instances :
       \/ Launch(r) \/ LaunchFails(r) \/ Attach(r) \/ StartHeartbeat(r)
       \/ Heartbeat(r) \/ HeartbeatFails(r) \/ HeartbeatAnswered(r)
       \/ EnsureLease(r) \/ FinishStep(r) \/ Exit(r)
       \/ Settle(r) \/ Crash(r) \/ Forget(r)

\* Clocks advance; answers in flight arrive.
LeaseFairness ==
  /\ WF_leaseVars(Tick)
  /\ \A r \in Instances : WF_leaseVars(HeartbeatAnswered(r))

LeaseSpec == LeaseInit /\ [][LeaseNext]_leaseVars /\ LeaseFairness

-----------------------------------------------------------------------------
(* Properties.                                                             *)

\* A running instance whose beats all arrived in time since it last claimed or
\* renewed holds the live lease: ignoring store errors between beats, and
\* checking leaseLost only at loop boundaries, is safe exactly then.
PunctualHolds ==
  \A r \in Instances : pc[r] \in Running /\ ~missed[r] => Holds(r)

\* Hence two instances run at once only after one of them missed a beat.
OneRunsUnlessStalled ==
  \A r, s \in Instances :
    r # s /\ pc[r] \in Running /\ pc[s] \in Running => missed[r] \/ missed[s]

\* A live lease is given up only by the launch that holds it, when it has ended
\* or never started: nobody takes a live lease over.
NoTakeoverWhileLive ==
  [][\A r \in Instances :
       Holds(r) /\ holder' # r => holder' = None /\ pc[r] \in {"reserved", "exited"}]_leaseVars

\* The lease of a launch that ended, however it ended, is released or lapses,
\* so that the sweep can launch a replacement.
EndedLeaseLapses ==
  \A r \in Instances : pc[r] \in {"exited", "gone"} ~> ~Holds(r)
=============================================================================
