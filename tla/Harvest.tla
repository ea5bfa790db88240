------------------------------ MODULE Harvest ------------------------------
(***************************************************************************)
(* The harvest workflow over the repository journal: a runner claims the   *)
(* unclaimed observations, an agent proposes tickets for them, another     *)
(* reviews the proposals, and what was approved is filed with the ticket   *)
(* source (kernel/harvest.ts, processes/harvest.ts,                        *)
(* processes/harvest-runner.ts, cli/harvest.ts).                           *)
(*                                                                         *)
(* The journal is its reduction.  One runner at a time holds the           *)
(* repository's lease; beside it write the humans (pause, resume), the     *)
(* agents and, after a crash, an agent the runner left behind; and the     *)
(* dispatcher lists the source's tickets meanwhile.  A proposal set is the *)
(* family of disjoint clusters of observations it makes tickets of, one    *)
(* each; the other observations it suppresses.  A proposal is its cluster, *)
(* whatever its prose.  There is one review round (revision rounds are     *)
(* those of ReviewLoop), and no joining of existing tickets.  A ticket     *)
(* without its blockers is bare.                                           *)
(***************************************************************************)
EXTENDS Integers, Sequences, FiniteSets, SequencesExt

CONSTANTS
  Observations,
  MaxRuns,              \* runs that are ever started (bound)
  MaxSessionAttempts,   \* deps.opts.maxSessionAttempts
  MaxRecoveries,        \* maxRecoveryAttempts
  MaxRequests,          \* pause and resume requests of humans (bound)
  MaxFaults,            \* sessions and creates that fail (bound)
  MaxStops,             \* crashes and shutdowns of the runner (bound)
  MaxScans              \* ready scans of the dispatcher (bound)

ASSUME HarvestAssumption ==
  /\ IsFiniteSet(Observations)
  /\ MaxRuns \in Nat \ {0} /\ MaxSessionAttempts \in Nat \ {0} /\ MaxRecoveries \in Nat \ {0}
  /\ MaxRequests \in Nat /\ MaxFaults \in Nat /\ MaxStops \in Nat /\ MaxScans \in Nat

VARIABLES
  journal,   \* what the journal reduces to
  tickets,   \* the source's tickets, by creation key
  runner,    \* the harvest runner
  agents,    \* its agent, and one that a crashed runner left behind
  scan,      \* the dispatcher's ready scan
  spent      \* requests, faults, stops and scans so far

vars == <<journal, tickets, runner, agents, scan, spent>>

Runs == 1..MaxRuns
Steps == {"synthesize", "review", "file"}

\* What a proposal to create is known by, and the sets of them an agent may propose of
\* some observations; what is in none of them it dismisses or adds to a known ticket.
Clusters == SUBSET Observations \ {{}}
ProposalSets(obs) ==
  {set \in SUBSET (SUBSET obs \ {{}}) : \A c, d \in set : c # d => c \cap d = {}}

-----------------------------------------------------------------------------
(* The reduction (foldHarvest)                                             *)

NoBracket == [step |-> "none", status |-> "ended", failed |-> FALSE]
NoRun == [status |-> "none", obs |-> {}, failure |-> "none",
          tries |-> [s \in Steps |-> 0], requests |-> 0, unacked |-> FALSE,
          exhausted |-> "no", released |-> {}, proposals |-> <<>>, reviews |-> <<>>,
          key |-> [c \in Clusters |-> 0], filed |-> {}, bracket |-> NoBracket]

StatusIs(status) == {r \in Runs : journal.runs[r].status = status}
Running == StatusIs("running")
Parked == {r \in StatusIs("failed") : journal.runs[r].exhausted = "no"}
Barriers == {r \in Runs : journal.runs[r].exhausted = "barrier"}
Oldest(runs) == CHOOSE r \in runs : \A s \in runs : r <= s

Claimed == UNION {journal.runs[r].obs \ journal.runs[r].released : r \in Runs}

\* Mutant: a scan takes claimed observations up again.
Unclaimed_All == Observations
Unclaimed == Observations \ Claimed

\* The fold throws on a fact that contradicts the journal, on every later read.
AppendRun(r, allowed, run) ==
  journal' = [journal EXCEPT !.runs[r] = run, !.malformed = @ \/ ~allowed]

\* harvest.failed; a run that is not running keeps its outcome.
Failed(run, step, retry) ==
  LET counted == [run EXCEPT !.tries[step] = @ + 1, !.bracket.failed = TRUE]
  IN  IF run.status # "running" THEN counted
      ELSE [counted EXCEPT !.failure = IF retry THEN "retry" ELSE "parked",
                           !.status = IF retry THEN @ ELSE "failed"]

\* Mutant: a resume of the runner's own opens nothing.
Reopened_Human(run, human) ==
  CASE run.exhausted # "no" -> [run EXCEPT !.exhausted = IF human THEN "seen" ELSE @]
    [] run.exhausted = "no" /\ run.status = "failed" /\ human ->
         [run EXCEPT !.status = "running", !.failure = "none", !.unacked = FALSE]
    [] OTHER -> run

\* harvest.resumed, for one run: a human's opens what is parked and settles a give-up,
\* the runner's own opens what it was requested for.
Reopened(run, human) ==
  CASE run.exhausted # "no" -> [run EXCEPT !.exhausted = IF human THEN "seen" ELSE @]
    [] run.exhausted = "no" /\ run.status = "failed" /\ (human \/ run.unacked) ->
         [run EXCEPT !.status = "running", !.failure = "none", !.unacked = FALSE]
    [] OTHER -> run

Acknowledged(command) ==
  IF command = "pause"
  THEN [journal EXCEPT !.paused = TRUE, !.pending = IF @ = "pause" THEN "none" ELSE @]
  ELSE [journal EXCEPT !.paused = FALSE, !.pending = IF @ = "resume" THEN "none" ELSE @,
                       !.runs = [r \in Runs |-> Reopened(@[r], journal.pending = "resume")]]

-----------------------------------------------------------------------------
(* Repository control (decideHarvestControl)                               *)

Barred == Barriers # {}

Recoverable(run) == run.requests < MaxRecoveries

Decision ==
  LET first == Oldest(Parked)
      Decide(kind, run) == [kind |-> kind, run |-> run]
  IN  CASE journal.pending = "resume" -> Decide("resume", 0)
        [] journal.pending # "resume" /\ journal.paused -> Decide("park", 0)
        [] journal.pending = "pause" /\ ~journal.paused -> Decide("pause", 0)
        [] OTHER ->
             CASE Barred -> Decide("park", 0)
               [] ~Barred /\ (\E r \in Parked : journal.runs[r].unacked) -> Decide("resume", 0)
               [] ~Barred /\ Parked = {} -> Decide("proceed", 0)
               [] OTHER ->
                    IF Recoverable(journal.runs[first])
                    THEN Decide("request", first) ELSE Decide("exhaust", first)

-----------------------------------------------------------------------------
(* The runner: control                                                     *)

Off == [pc |-> "off", next |-> "off", dec |-> [kind |-> "proceed", run |-> 0], run |-> 0,
        artifact |-> <<>>, verdict |-> "none", released |-> {}, cluster |-> {}, key |-> 0]
Go(pc) == runner' = [runner EXCEPT !.pc = pc]
\* A control boundary, and what follows it.
Control(next) == runner' = [runner EXCEPT !.pc = "control", !.next = next]
Stop == runner' = Off
Others == <<tickets, agents, scan, spent>>

HasWork == Running # {} \/ (Unclaimed # {} /\ StatusIs("none") # {})

\* Mutant: it is launched for work only.
Due_Work == Decision.kind # "park" /\ HasWork

\* The dispatcher launches it when there is something to settle, resume or scan.
Due == Decision.kind # "park" /\ (Decision.kind = "proceed" => HasWork)

Launch ==
  /\ runner.pc = "off" /\ Due
  /\ Go("begin")
  /\ UNCHANGED <<journal, Others>>

\* An open bracket without a terminal or a failure is a lost attempt, and parks the run.
Begin ==
  LET due == IF Barriers # {} THEN Barriers ELSE IF Parked # {} THEN Parked ELSE Running
      r == Oldest(due)
      run == journal.runs[r]
      answered == IF run.bracket.step = "synthesize" THEN run.proposals # <<>> ELSE run.reviews # <<>>
  IN  /\ runner.pc = "begin"
      /\ IF /\ due # {}
            /\ run.bracket.status = "open" /\ ~run.bracket.failed /\ ~answered
            /\ run.status = "running"
         THEN AppendRun(r, TRUE, Failed(run, run.bracket.step, FALSE))
         ELSE UNCHANGED journal
      /\ Control("select")
      /\ UNCHANGED Others

ControlRead ==
  /\ runner.pc = "control"
  /\ CASE Decision.kind = "proceed" -> Go(runner.next)
       [] Decision.kind = "park"    -> Stop
       [] OTHER -> runner' = [runner EXCEPT !.pc = "act", !.dec = Decision]
  /\ UNCHANGED <<journal, Others>>

\* The decision is appended as it was read, and the journal read again.
Act ==
  LET dec == runner.dec
      run == journal.runs[dec.run]
  IN  /\ runner.pc = "act"
      /\ CASE dec.kind \in {"pause", "resume"} ->
                journal' = Acknowledged(dec.kind) /\ Go("control")
           [] dec.kind = "request" ->
                /\ AppendRun(dec.run, run.status = "failed" /\ run.exhausted = "no" /\ ~run.unacked,
                             [run EXCEPT !.requests = @ + 1, !.unacked = TRUE])
                /\ Go("control")
           [] dec.kind = "exhaust" -> UNCHANGED journal /\ Go("partition")
      /\ UNCHANGED Others

\* Mutant: any review approves.
Approved_Any(run) == run.reviews # <<>>
Approved(run) == \E i \in DOMAIN run.reviews : run.reviews[i].verdict = "approve"

\* What an exhausted run releases: without an approval everything, with one the creates
\* that have no filing fact.
Released(run) ==
  IF ~Approved(run) \/ run.proposals = <<>> THEN run.obs
  ELSE UNION (Last(run.proposals) \ run.filed)

\* Giving up is off.
Back == IF runner.next = "off" THEN Stop ELSE runner' = [runner EXCEPT !.pc = "control", !.released = {}]

\* What to release is worked out first.
Partition ==
  LET run == journal.runs[runner.dec.run]
  IN  /\ runner.pc = "partition"
      /\ IF run.status = "failed" /\ run.exhausted = "no"
         THEN runner' = [runner EXCEPT !.pc = "finalize", !.released = Released(run)]
         ELSE Back
      /\ UNCHANGED <<journal, Others>>

StillExhausts == Decision = runner.dec

\* Then the decision is read once more.
Finalize ==
  /\ runner.pc = "finalize"
  /\ IF StillExhausts THEN Go("giveup") ELSE Back
  /\ UNCHANGED <<journal, Others>>

GiveUp ==
  LET r == runner.dec.run
      run == journal.runs[r]
  IN  /\ runner.pc = "giveup"
      /\ AppendRun(r, run.status = "failed" /\ run.exhausted = "no" /\ ~run.unacked
                        /\ run.requests = MaxRecoveries,
                   [run EXCEPT !.exhausted = "barrier", !.released = runner.released])
      /\ Stop
      /\ UNCHANGED Others

\* After a failure: give up if that was the last recovery.
Settle ==
  /\ runner.pc = "settle"
  /\ IF Decision.kind = "exhaust" /\ Decision.run = runner.run
     THEN runner' = [runner EXCEPT !.pc = "partition", !.next = "off", !.dec = Decision]
     ELSE Stop
  /\ UNCHANGED <<journal, Others>>

-----------------------------------------------------------------------------
(* The runner: workflow                                                    *)

\* The oldest open run, or a new claim of everything unclaimed.
Select ==
  /\ runner.pc = "select"
  /\ CASE Running # {} -> runner' = [runner EXCEPT !.pc = "control", !.next = "work", !.run = Oldest(Running)]
       [] Running = {} /\ Unclaimed # {} /\ StatusIs("none") # {} -> Control("claim")
       [] OTHER -> Stop
  /\ UNCHANGED <<journal, Others>>

Claim ==
  LET r == Oldest(StatusIs("none"))
  IN  /\ runner.pc = "claim"
      /\ AppendRun(r, Unclaimed \cap Claimed = {}, [NoRun EXCEPT !.status = "running", !.obs = Unclaimed])
      /\ runner' = [runner EXCEPT !.pc = "control", !.next = "work", !.run = r]
      /\ UNCHANGED Others

\* The session's budget is spent, and nobody reopened the run since.
SpentBudget(run, step) == run.tries[step] >= MaxSessionAttempts /\ run.failure # "none"

\* Where the run stands: a verdict it heard itself, or found.
Verdict(run) ==
  CASE runner.verdict # "none" -> runner.verdict
    [] runner.verdict = "none" /\ Approved(run) -> "approve"
    [] runner.verdict = "none" /\ ~Approved(run) /\ run.reviews # <<>> -> "escalate"
    [] OTHER -> "none"

\* The next step; the proposals it goes on with are those it read last.
Work ==
  LET run == journal.runs[runner.run]
      verdict == Verdict(run)
      step == IF run.proposals = <<>> THEN "synthesize" ELSE "review"
      artifact == IF runner.artifact # <<>> \/ run.proposals = <<>> THEN runner.artifact
                  ELSE <<Last(run.proposals)>>
  IN  /\ runner.pc = "work"
      /\ runner' = [runner EXCEPT
                      !.artifact = artifact, !.verdict = verdict,
                      !.pc = CASE verdict = "approve" -> "file"
                               [] verdict = "escalate" -> "escalate"
                               [] OTHER -> IF SpentBudget(run, step) THEN "settle" ELSE step]
      /\ UNCHANGED <<journal, Others>>

NoAgent == [on |-> FALSE, run |-> 0, step |-> "none", at |-> "none", says |-> <<>>]

\* The bracket; a session left open or suspended is continued by it.
StartSession ==
  /\ runner.pc \in {"synthesize", "review"}
  /\ AppendRun(runner.run, TRUE,
               [journal.runs[runner.run] EXCEPT !.bracket = [step |-> runner.pc, status |-> "open", failed |-> FALSE]])
  /\ agents' = [agents EXCEPT !.now = [on |-> TRUE, run |-> runner.run, step |-> runner.pc,
                                       at |-> "working", says |-> <<>>]]
  /\ Go("turn")
  /\ UNCHANGED <<tickets, scan, spent>>

\* The turn returned.  The session's own terminal counts, no other's.
EndTurn ==
  LET run == journal.runs[runner.run]
      step == agents.now.step
      own == agents.now.at = "deposited"
  IN  /\ runner.pc = "turn" /\ ~agents.now.on
      /\ AppendRun(runner.run, TRUE, [run EXCEPT !.bracket.status = "ended"])
      /\ runner' = [runner EXCEPT
                      !.pc = IF own THEN "control" ELSE "failing", !.next = "work",
                      !.artifact = IF own /\ step = "synthesize" THEN <<Last(run.proposals)>> ELSE @,
                      !.verdict = IF own /\ step = "review" THEN Last(run.reviews).verdict ELSE @]
      /\ UNCHANGED Others

\* The failure is counted, and may park the run; a permanent one always does.
FailSession ==
  LET run == journal.runs[runner.run]
      step == agents.now.step
  IN  /\ runner.pc = "failing"
      /\ \E retry \in {FALSE, run.tries[step] + 1 < MaxSessionAttempts} :
           AppendRun(runner.run, TRUE, Failed(run, step, retry))
      /\ Go("settle")
      /\ UNCHANGED Others

Escalate ==
  LET run == journal.runs[runner.run]
  IN  /\ runner.pc = "escalate"
      /\ AppendRun(runner.run, TRUE, [run EXCEPT !.status = IF @ = "running" THEN "escalated" ELSE @])
      /\ Stop
      /\ UNCHANGED Others

-----------------------------------------------------------------------------
(* The runner: filing                                                      *)

Creates == runner.artifact[1]
Unfiled == Creates \ journal.runs[runner.run].filed

\* The key reserved for the cluster is taken up again, or a new one reserved before the create.
NextProposal ==
  /\ runner.pc = "file" /\ Unfiled # {}
  /\ \E c \in Unfiled :
       LET key == journal.runs[runner.run].key[c]
       IN  runner' = [runner EXCEPT !.cluster = c, !.key = key,
                                    !.pc = IF key = 0 THEN "reserve" ELSE "create"]
  /\ UNCHANGED <<journal, Others>>

Reserved == {p \in Runs \X Clusters : journal.runs[p[1]].key[p[2]] # 0}
NewKey == 1 + Cardinality(Reserved)

\* Mutant: the key is kept in memory until the ticket is filed.
Reserve_Late ==
  /\ runner.pc = "reserve"
  /\ runner' = [runner EXCEPT !.key = 1 + Cardinality(DOMAIN tickets), !.pc = "create"]
  /\ UNCHANGED <<journal, Others>>

Reserve ==
  LET run == journal.runs[runner.run]
      c == runner.cluster
  IN  /\ runner.pc = "reserve"
      /\ AppendRun(runner.run, run.key[c] = 0, [run EXCEPT !.key[c] = NewKey])
      /\ runner' = [runner EXCEPT !.key = NewKey, !.pc = "create"]
      /\ UNCHANGED Others

\* The source creates under the key, or adopts what the key has.
CreateTicket ==
  /\ runner.pc = "create"
  /\ tickets' = IF runner.key \in DOMAIN tickets THEN tickets
                ELSE [k \in DOMAIN tickets \cup {runner.key} |->
                        IF k = runner.key THEN [cluster |-> runner.cluster, whole |-> FALSE] ELSE tickets[k]]
  /\ Go("blockers")
  /\ UNCHANGED <<journal, agents, scan, spent>>

\* Its blockers are recorded.
CompleteBlockers ==
  /\ runner.pc = "blockers"
  /\ tickets' = [tickets EXCEPT ![runner.key].whole = TRUE]
  /\ Go("filed")
  /\ UNCHANGED <<journal, agents, scan, spent>>

\* The create throws: before it, between its two requests, or with its answer lost.
CreateFails ==
  LET run == journal.runs[runner.run]
  IN  /\ runner.pc \in {"create", "blockers", "filed"} /\ spent.faults < MaxFaults
      /\ spent' = [spent EXCEPT !.faults = @ + 1]
      /\ AppendRun(runner.run, TRUE, Failed(run, "file", run.tries["file"] + 1 < MaxSessionAttempts))
      /\ Go("settle")
      /\ UNCHANGED <<tickets, agents, scan>>

File ==
  LET run == journal.runs[runner.run]
  IN  /\ runner.pc = "filed"
      /\ AppendRun(runner.run, TRUE, [run EXCEPT !.filed = @ \cup {runner.cluster}])
      /\ Go("file")
      /\ UNCHANGED Others

Complete ==
  LET run == journal.runs[runner.run]
  IN  /\ runner.pc = "file" /\ Unfiled = {}
      /\ AppendRun(runner.run, TRUE, [run EXCEPT !.status = IF @ = "running" THEN "completed" ELSE @])
      /\ Stop
      /\ UNCHANGED Others

-----------------------------------------------------------------------------
(* Agents (cli/harvest.ts)                                                 *)

\* A terminal is refused when the run stands still or already has one for the step.
Admissible(agent) ==
  LET run == journal.runs[agent.run]
  IN  /\ run.status = "running"
      /\ IF agent.step = "synthesize" THEN run.proposals = <<>>
         ELSE run.reviews = <<>> /\ run.proposals # <<>>

Terminals(agent) ==
  LET run == journal.runs[agent.run]
  IN  IF agent.step = "synthesize" THEN {[verdict |-> "none", of |-> set] : set \in ProposalSets(run.obs)}
      ELSE {[verdict |-> v, of |-> Last(run.proposals)] : v \in {"approve", "escalate"}}

CheckTerminal(a) ==
  LET agent == agents[a]
  IN  /\ agent.on /\ agent.at = "working"
      /\ IF Admissible(agent)
         THEN \E t \in Terminals(agent) : agents' = [agents EXCEPT ![a].at = "checked", ![a].says = <<t>>]
         ELSE agents' = [agents EXCEPT ![a].on = FALSE, ![a].at = "refused"]
      /\ UNCHANGED <<journal, tickets, runner, scan, spent>>

\* The terminal is appended without a look at the journal.
Deposit(a) ==
  LET agent == agents[a]
      run == journal.runs[agent.run]
  IN  /\ agent.on /\ agent.at = "checked"
      /\ AppendRun(agent.run, TRUE,
                   IF agent.step = "synthesize" THEN [run EXCEPT !.proposals = Append(@, agent.says[1].of)]
                   ELSE [run EXCEPT !.reviews = Append(@, agent.says[1])])
      /\ agents' = [agents EXCEPT ![a].on = FALSE, ![a].at = "deposited", ![a].says = <<>>]
      /\ UNCHANGED <<tickets, runner, scan, spent>>

\* A turn ends without a terminal.
AgentFails ==
  /\ agents.now.on /\ spent.faults < MaxFaults
  /\ spent' = [spent EXCEPT !.faults = @ + 1]
  /\ agents' = [agents EXCEPT !.now.on = FALSE, !.now.at = "failed", !.now.says = <<>>]
  /\ UNCHANGED <<journal, tickets, runner, scan>>

-----------------------------------------------------------------------------
(* Humans, crashes, shutdown                                               *)

Request(command) ==
  /\ spent.requests < MaxRequests
  /\ spent' = [spent EXCEPT !.requests = @ + 1]
  /\ journal' = [journal EXCEPT !.pending = command]
  /\ UNCHANGED <<tickets, runner, agents, scan>>

Crash ==
  /\ runner.pc # "off" /\ spent.stops < MaxStops
  /\ spent' = [spent EXCEPT !.stops = @ + 1]
  /\ Stop
  /\ agents' = [now |-> NoAgent, old |-> IF agents.now.on /\ ~agents.old.on THEN agents.now ELSE agents.old]
  /\ UNCHANGED <<journal, tickets, scan>>

\* An orderly stop: the agent is ended, and its session suspended unless it is through.
Shutdown ==
  /\ runner.pc \in {"turn", "control"} /\ spent.stops < MaxStops
  /\ spent' = [spent EXCEPT !.stops = @ + 1]
  /\ IF runner.pc = "turn"
     THEN AppendRun(runner.run, TRUE, [journal.runs[runner.run] EXCEPT !.bracket.status =
                                         IF agents.now.at = "deposited" THEN "ended" ELSE "suspended"])
     ELSE UNCHANGED journal
  /\ Stop
  /\ agents' = [agents EXCEPT !.now = NoAgent]
  /\ UNCHANGED <<tickets, scan>>

-----------------------------------------------------------------------------
(* The dispatcher's ready scan                                             *)

KeysOf(pairs) == {journal.runs[p[1]].key[p[2]] : p \in pairs}
InFlight == {p \in Reserved : p[1] \in Running /\ p[2] \notin journal.runs[p[1]].filed}

NoScan == [at |-> "none", held |-> {}, known |-> {}, idle |-> {}, listed |-> {}]

BeforeListing ==
  /\ scan.at = "none" /\ spent.scans < MaxScans
  /\ spent' = [spent EXCEPT !.scans = @ + 1]
  /\ scan' = [NoScan EXCEPT !.at = "before", !.held = KeysOf(InFlight), !.known = Reserved,
                            !.idle = KeysOf({p \in Reserved : p[1] \notin Running})]
  /\ UNCHANGED <<journal, tickets, runner, agents>>

List ==
  /\ scan.at = "before"
  /\ scan' = [scan EXCEPT !.at = "listed",
                          !.listed = {[key |-> k, whole |-> tickets[k].whole] : k \in DOMAIN tickets}]
  /\ UNCHANGED <<journal, tickets, runner, agents, spent>>

\* Mutant: only what is in flight after the listing is withheld.
Withheld_After == KeysOf(InFlight)

\* What was in flight before the listing, and every reservation since.
Withheld == scan.held \cup KeysOf(Reserved \ scan.known)

\* What the scan may dispatch.
Dispatchable == {t \in scan.listed : t.key \notin Withheld}

AfterListing ==
  /\ scan.at = "listed"
  /\ scan' = NoScan
  /\ UNCHANGED <<journal, tickets, runner, agents, spent>>

-----------------------------------------------------------------------------

Init ==
  /\ journal = [runs |-> [r \in Runs |-> NoRun], paused |-> FALSE, pending |-> "none", malformed |-> FALSE]
  /\ tickets = <<>>
  /\ runner = Off
  /\ agents = [now |-> NoAgent, old |-> NoAgent]
  /\ scan = NoScan
  /\ spent = [requests |-> 0, faults |-> 0, stops |-> 0, scans |-> 0]

RunnerStep ==
  \/ Launch \/ Begin \/ ControlRead \/ Act \/ Partition \/ Finalize \/ GiveUp \/ Settle
  \/ Select \/ Claim \/ Work \/ StartSession \/ EndTurn \/ FailSession \/ Escalate
  \/ NextProposal \/ Reserve \/ CreateTicket \/ CompleteBlockers \/ CreateFails \/ File \/ Complete

AgentStep(a) == CheckTerminal(a) \/ Deposit(a)

Next ==
  \/ RunnerStep
  \/ \E a \in {"now", "old"} : AgentStep(a)
  \/ AgentFails
  \/ \E command \in {"pause", "resume"} : Request(command)
  \/ Crash \/ Shutdown
  \/ BeforeListing \/ List \/ AfterListing

\* The dispatcher keeps launching, the runner steps, its agent's turn ends.
Fairness == WF_vars(RunnerStep) /\ WF_vars(AgentStep("now"))

Spec == Init /\ [][Next]_vars /\ Fairness

-----------------------------------------------------------------------------
(* Properties                                                              *)

Reviews == [verdict : {"approve", "escalate"}, of : ProposalSets(Observations)]
RunStates ==
  [status : {"none", "running", "failed", "completed", "escalated"}, obs : SUBSET Observations,
   failure : {"none", "retry", "parked"}, tries : [Steps -> Nat], requests : 0..MaxRecoveries,
   unacked : BOOLEAN, exhausted : {"no", "barrier", "seen"}, released : SUBSET Observations,
   proposals : Seq(ProposalSets(Observations)), reviews : Seq(Reviews),
   key : [Clusters -> Nat], filed : SUBSET Clusters,
   bracket : [step : {"none", "synthesize", "review"}, status : {"ended", "open", "suspended"},
              failed : BOOLEAN]]
Decisions == [kind : {"proceed", "park", "pause", "resume", "request", "exhaust"}, run : Runs \cup {0}]
Runners ==
  [pc : {"off", "begin", "control", "act", "partition", "finalize", "giveup", "settle", "select", "claim", "work",
         "synthesize", "review", "turn", "failing", "escalate",
         "file", "reserve", "create", "blockers", "filed"},
   next : {"off", "select", "claim", "work"}, dec : Decisions, run : Runs \cup {0},
   artifact : Seq(ProposalSets(Observations)), verdict : {"none", "approve", "escalate"},
   released : SUBSET Observations, cluster : SUBSET Observations, key : Nat]
Deposits == [verdict : {"none", "approve", "escalate"}, of : ProposalSets(Observations)]
Agents ==
  [on : BOOLEAN, run : Runs \cup {0}, step : {"none", "synthesize", "review"},
   at : {"none", "working", "checked", "refused", "deposited", "failed"},
   says : Seq(Deposits)]
Tickets == [cluster : Clusters, whole : BOOLEAN]

\* The types of the journal's reduction, the source's tickets, the runner, its agents and
\* the scan.
TypeOK ==
  /\ journal \in [runs : [Runs -> RunStates], paused : BOOLEAN,
                  pending : {"none", "pause", "resume"}, malformed : BOOLEAN]
  /\ tickets \in [DOMAIN tickets -> Tickets] /\ DOMAIN tickets \subseteq Nat
  /\ runner \in Runners
  /\ agents \in [now : Agents, old : Agents]
  /\ scan \in [at : {"none", "before", "listed"}, held : SUBSET Nat, known : SUBSET (Runs \X Clusters),
               idle : SUBSET Nat, listed : SUBSET [key : Nat, whole : BOOLEAN]]
  /\ spent \in [requests : Nat, faults : Nat, stops : Nat, scans : Nat]

\* No interleaving of requests, acknowledgements, crashes and agents puts a fact into the
\* journal that its reducer refuses: it would refuse it on every later read.
JournalReduces == ~journal.malformed

\* The source has one ticket of an observation, across crashes, lost answers, retries and
\* runs, with two exceptions.  A run that was given up released the observation, and one of
\* the tickets is under a key of that run.  Or both are under keys of one run for which an
\* agent that outlived its runner deposited another proposal set: the key is the cluster's,
\* so another clustering of the same observation is another proposal.
NoSecondTicket ==
  \A j, k \in DOMAIN tickets :
    \A o \in tickets[j].cluster \cap tickets[k].cluster :
      j # k =>
        \E r \in Runs :
          LET run == journal.runs[r]
              own == KeysOf({r} \X Clusters)
          IN  \/ o \in run.released /\ {j, k} \cap own # {}
              \/ /\ {j, k} \subseteq own
                 /\ \E m, n \in DOMAIN run.proposals :
                      m # n /\ tickets[j].cluster \in run.proposals[m] /\ tickets[k].cluster \in run.proposals[n]

\* What is filed was in the proposals that the approving reviewer saw, unless a session
\* that outlived its runner deposited a second set after the first.
FiledAsReviewed ==
  \A r \in Runs :
    LET run == journal.runs[r]
    IN  run.filed # {} /\ Len(run.proposals) = 1 =>
          \E i \in DOMAIN run.reviews : run.reviews[i].verdict = "approve" /\ run.filed \subseteq run.reviews[i].of

\* A ticket that lacked its blockers when it was listed is dispatched only when its run was
\* not at work when the scan began, whatever reserves, creates and files meanwhile.
HalfMadeWithheld ==
  scan.at = "listed" => \A t \in Dispatchable : ~t.whole => t.key \in scan.idle

\* A run comes to rest: completed, escalated, given up, or paused by a human.
Resting(r) == journal.runs[r].status \in {"completed", "escalated"} \/ journal.runs[r].exhausted # "no"
HarvestSettles ==
  \A r \in Runs : journal.runs[r].status # "none" ~> Resting(r) \/ journal.paused

\* A pause stops the work, or is taken back, whatever the runner is doing.
PauseAnswered == journal.pending = "pause" ~> journal.paused \/ journal.pending # "pause"
=============================================================================
