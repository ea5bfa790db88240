--------------------------- MODULE HarvestProofs ---------------------------
(***************************************************************************)
(* The harvest journal, its tickets and its reviews, for any number of     *)
(* runs, observations, requests, faults, crashes and scans.                *)
(***************************************************************************)
EXTENDS Harvest, FiniteSetTheorems, TLAPS

(***************************************************************************)
(* Where everybody stands: which run the runner and the agents are on, and *)
(* what follows a control boundary.                                        *)
(***************************************************************************)
Filed == {"reserve", "create", "blockers", "filed"}
Files == {"file"} \cup Filed
AtRun == {"settle", "work", "synthesize", "review", "turn", "failing", "escalate"} \cup Files

Fresh == \A r \in Runs : journal.runs[r].status = "none" => journal.runs[r] = NoRun

OnRun ==
  /\ runner.pc \in {"off", "begin", "select", "claim"} \/ runner.next \in {"select", "claim"} => runner.run = 0
  /\ runner.pc \in AtRun => runner.next = "work"
  /\ runner.pc = "claim" => runner.next = "claim"
  /\ runner.pc \in {"control", "act"} => runner.next # "off"
  /\ runner.next = "work" => runner.run # 0
  /\ runner.next = "claim" => StatusIs("none") # {}
  /\ runner.run = 0 => runner.artifact = <<>> /\ runner.verdict = "none"
  /\ runner.run # 0 => journal.runs[runner.run].status # "none"

Says(agent) ==
  agent.on =>
    /\ agent.run # 0 /\ journal.runs[agent.run].status # "none" /\ agent.step # "none"
    /\ agent.at = "checked" =>
         /\ Len(agent.says) = 1
         /\ agent.step = "review" => agent.says[1] \in Reviews /\ journal.runs[agent.run].proposals # <<>>

Answered(run, step) == IF step = "synthesize" THEN run.proposals # <<>> ELSE run.reviews # <<>>

OnAgents ==
  /\ Says(agents.now) /\ Says(agents.old)
  /\ runner.pc \in {"turn", "failing"} =>
       /\ agents.now.run = runner.run /\ agents.now.step # "none"
       /\ agents.now.at = "deposited" => Answered(journal.runs[runner.run], agents.now.step)

\* What is reviewed was proposed, and what is filed was approved.
Grounds ==
  /\ \A r \in Runs : journal.runs[r].reviews # <<>> => journal.runs[r].proposals # <<>>
  /\ runner.pc \in Files => runner.artifact # <<>>
  /\ runner.pc \in Files \/ runner.verdict = "approve" => Approved(journal.runs[runner.run])

(***************************************************************************)
(* What a decision was read from still holds when it is appended: nobody   *)
(* but the runner changes the standing of a run or a key.                  *)
(***************************************************************************)
Standing(r) ==
  r # 0 /\ journal.runs[r].status = "failed" /\ journal.runs[r].exhausted = "no" /\ ~journal.runs[r].unacked

Decided ==
  /\ runner.pc = "act" => runner.dec.kind \in {"pause", "resume", "request", "exhaust"}
  /\ runner.pc \in {"partition", "finalize", "giveup"} => runner.dec.kind = "exhaust" /\ runner.dec.run \in Runs
  /\ runner.pc = "act" /\ runner.dec.kind = "exhaust" => runner.dec.run \in Runs
  /\ runner.pc = "act" /\ runner.dec.kind = "request" =>
       Standing(runner.dec.run) /\ Recoverable(journal.runs[runner.dec.run])
  /\ runner.pc = "giveup" => Standing(runner.dec.run) /\ ~Recoverable(journal.runs[runner.dec.run])

Reserving ==
  /\ runner.pc \in Filed => runner.cluster \in Clusters
  /\ runner.pc = "reserve" => journal.runs[runner.run].key[runner.cluster] = 0

JournalInv == TypeOK /\ Fresh /\ OnRun /\ OnAgents /\ Grounds /\ Decided /\ Reserving /\ JournalReduces

(***************************************************************************)
(* Keys are distinct, and one is reserved only for a cluster that was      *)
(* proposed in its run; an observation that two runs claimed was released  *)
(* by one of them; what is proposed is of what the run claimed, and the    *)
(* runner goes on with a set that was proposed.                            *)
(***************************************************************************)
KeyOf(p) == journal.runs[p[1]].key[p[2]]

KeysAreDistinct ==
  /\ \A p, q \in Reserved : KeyOf(p) = KeyOf(q) => p = q
  /\ \A p \in Reserved : KeyOf(p) <= Cardinality(Reserved)

TicketsAreReserved ==
  \A k \in DOMAIN tickets : \E p \in Reserved : KeyOf(p) = k /\ tickets[k].cluster = p[2]

ClaimsAreDisjoint ==
  \A r \in Runs :
    /\ journal.runs[r].exhausted = "no" => journal.runs[r].released = {}
    /\ \A s \in Runs : r # s =>
         journal.runs[r].obs \cap journal.runs[s].obs \subseteq journal.runs[r].released \cup journal.runs[s].released

Among(sets, set) == \E i \in DOMAIN sets : sets[i] = set
InSome(sets, c) == \E i \in DOMAIN sets : c \in sets[i]

OfClaimed(run) ==
  /\ \A i \in DOMAIN run.proposals : run.proposals[i] \in ProposalSets(run.obs)
  /\ \A c \in Clusters : run.key[c] # 0 => InSome(run.proposals, c)

SaysClaimed(agent) ==
  agent.on /\ agent.at = "checked" /\ agent.step = "synthesize" =>
    agent.says[1].of \in ProposalSets(journal.runs[agent.run].obs)

Proposed ==
  /\ \A r \in Runs : OfClaimed(journal.runs[r])
  /\ SaysClaimed(agents.now) /\ SaysClaimed(agents.old)
  /\ runner.artifact # <<>> => Among(journal.runs[runner.run].proposals, runner.artifact[1])
  /\ runner.pc = "reserve" => runner.cluster \in runner.artifact[1]

Creating ==
  runner.pc \in {"create", "blockers", "filed"} =>
    /\ runner.cluster \in runner.artifact[1]
    /\ runner.key # 0 /\ runner.key = journal.runs[runner.run].key[runner.cluster]

TicketInv == KeysAreDistinct /\ TicketsAreReserved /\ ClaimsAreDisjoint /\ Proposed /\ Creating

(***************************************************************************)
(* While a run has one set of proposals, it is what every review of the    *)
(* run is of, what the runner goes on with and what it files from.         *)
(***************************************************************************)
OneSet(run, set) == Len(run.proposals) = 1 => set = run.proposals[1]

Reviewed(run) ==
  /\ \A i \in DOMAIN run.reviews : OneSet(run, run.reviews[i].of)
  /\ run.filed # {} => Approved(run)
  /\ Len(run.proposals) = 1 => run.filed \subseteq run.proposals[1]

SaysReviewed(agent) ==
  agent.on /\ agent.at = "checked" /\ agent.step = "review" =>
    OneSet(journal.runs[agent.run], agent.says[1].of)

Filing ==
  LET run == journal.runs[runner.run]
  IN  runner.artifact # <<>> => run.proposals # <<>> /\ OneSet(run, runner.artifact[1])

ReviewInv ==
  /\ \A r \in Runs : Reviewed(journal.runs[r])
  /\ SaysReviewed(agents.now) /\ SaysReviewed(agents.old)
  /\ Filing

(***************************************************************************)
(* What is filed is whole.  What a scan knew before the listing is held,   *)
(* idle or whole; a bare ticket that it listed is held, idle or reserved   *)
(* since.                                                                  *)
(***************************************************************************)
WholeIn(made, k) == k \in DOMAIN made /\ made[k].whole
Whole(k) == WholeIn(tickets, k)

FiledIsWhole ==
  /\ \A r \in Runs : \A c \in journal.runs[r].filed : Whole(journal.runs[r].key[c])
  /\ runner.pc \in {"blockers", "filed"} => runner.key \in DOMAIN tickets
  /\ runner.pc = "filed" => Whole(runner.key)

Scanned ==
  /\ scan.at # "none" => scan.known \subseteq Reserved
  /\ scan.at = "before" => \A p \in scan.known : KeyOf(p) \in scan.held \cup scan.idle \/ Whole(KeyOf(p))
  /\ scan.at = "listed" => \A t \in scan.listed :
       t.whole \/ t.key \in scan.held \cup scan.idle \cup KeysOf(Reserved \ scan.known)

ScanInv == FiledIsWhole /\ Scanned

-----------------------------------------------------------------------------
(***************************************************************************)
(* A set of runs has an oldest, and the last of a sequence is one of it.   *)
(***************************************************************************)
LEMMA OldestIn ==
  ASSUME NEW S \in SUBSET Nat, IsFiniteSet(S), S # {}
  PROVE  Oldest(S) \in S
PROOF
  <1> DEFINE Below(x) == {y \in S : y < x}
             T == {Below(x) : x \in S}
             R == StrictSubsetOrdering(S)
  <1>1. T # {} /\ T \subseteq FiniteSubsetsOf(S)
    <2>1. ASSUME NEW x \in S PROVE Below(x) \in FiniteSubsetsOf(S)
      BY FS_FiniteSubsetsOfFinite
    <2> QED BY <2>1
  <1>2. IsWellFoundedOn(R, FiniteSubsetsOf(S))
    BY FS_StrictSubsetOrderingWellFounded
  <1> HIDE DEF R
  <1>3. PICK A \in T : \A B \in T : ~(<<B, A>> \in R)
    <2> HIDE DEF T
    <2> QED BY <1>1, <1>2, WFMin
  <1>4. PICK m \in S : A = Below(m)
    BY <1>3
  <1>5. ASSUME NEW q \in S, q < m PROVE FALSE
    <2>1. Below(q) \in T /\ Below(q) # A /\ Below(q) \subseteq A
      <3>1. q \in A /\ q \notin Below(q) BY <1>4, <1>5
      <3>2. ASSUME NEW y \in Below(q) PROVE y \in A
        <4>1. y \in S /\ y < q /\ y \in Nat /\ q \in Nat /\ m \in Nat
          OBVIOUS
        <4>2. y < m BY <4>1, <1>5
        <4> QED BY <4>1, <4>2, <1>4
      <3> QED BY <3>1, <3>2
    <2>2. <<Below(q), A>> \in R
      BY <2>1, <1>4 DEF R, StrictSubsetOrdering
    <2> QED BY <2>1, <2>2, <1>3
  <1>6. \A q \in S : m <= q
    BY <1>5
  <1> QED BY <1>6 DEF Oldest

LEMMA OldestRun ==
  ASSUME NEW S \in SUBSET Runs, S # {}
  PROVE  Oldest(S) \in S
PROOF
  <1>1. Runs \in SUBSET Nat /\ IsFiniteSet(Runs)
    BY HarvestAssumption, FS_Interval DEF Runs
  <1>2. S \in SUBSET Nat /\ IsFiniteSet(S)
    BY <1>1, FS_Subset
  <1> QED BY <1>2, OldestIn

LEMMA LastOf ==
  ASSUME NEW S, NEW s \in Seq(S), s # <<>>
  PROVE  Last(s) \in S /\ Len(s) \in DOMAIN s /\ Last(s) = s[Len(s)]
  BY DEF Last

LEMMA OneOf ==
  ASSUME NEW S, NEW x \in S
  PROVE  <<x>> \in Seq(S) /\ <<x>> # <<>> /\ <<x>>[1] = x
  OBVIOUS

LEMMA HeadOf ==
  ASSUME NEW S, NEW s \in Seq(S), Len(s) = 1
  PROVE  s[1] \in S
  OBVIOUS

(***************************************************************************)
(* What an append does to one run: its type, and the work that it leaves   *)
(* as it was.                                                              *)
(***************************************************************************)
SameWork(run, new) ==
  /\ new.obs = run.obs /\ new.released = run.released
  /\ new.proposals = run.proposals /\ new.reviews = run.reviews
  /\ new.key = run.key /\ new.filed = run.filed
  /\ new.exhausted = "no" <=> run.exhausted = "no"
  /\ new.status = "none" <=> run.status = "none"

LEMMA FailedRun ==
  ASSUME NEW run \in RunStates, NEW step, NEW retry \in BOOLEAN
  PROVE  Failed(run, step, retry) \in RunStates /\ SameWork(run, Failed(run, step, retry))
PROOF
  <1> DEFINE counted == [run EXCEPT !.tries[step] = @ + 1, !.bracket.failed = TRUE]
             stood == [counted EXCEPT !.failure = IF retry THEN "retry" ELSE "parked",
                                      !.status = IF retry THEN @ ELSE "failed"]
  <1>1. counted \in RunStates /\ SameWork(run, counted) /\ counted.status = run.status
    <2>1. [run.tries EXCEPT ![step] = @ + 1] \in [Steps -> Nat]
      <3>1. run.tries \in [Steps -> Nat]
        BY DEF RunStates
      <3>2. CASE step \in Steps
        BY <3>1, <3>2
      <3>3. CASE step \notin Steps
        BY <3>1, <3>3
      <3> QED BY <3>2, <3>3
    <2>2. [run.bracket EXCEPT !.failed = TRUE] \in
            [step : {"none", "synthesize", "review"}, status : {"ended", "open", "suspended"}, failed : BOOLEAN]
      BY DEF RunStates
    <2> QED BY <2>1, <2>2 DEF RunStates, SameWork
  <1> HIDE DEF counted
  <1>2. run.status = "running" => stood \in RunStates /\ SameWork(run, stood)
    BY <1>1 DEF RunStates, SameWork
  <1> QED BY <1>1, <1>2 DEF Failed, counted

LEMMA ReopenedRun ==
  ASSUME NEW run \in RunStates, NEW human \in BOOLEAN
  PROVE  /\ Reopened(run, human) \in RunStates /\ SameWork(run, Reopened(run, human))
         /\ run.status = "none" => Reopened(run, human) = run \/ run.exhausted # "no"
PROOF
  <1> DEFINE settled == [run EXCEPT !.exhausted = IF human THEN "seen" ELSE @]
             opened == [run EXCEPT !.status = "running", !.failure = "none", !.unacked = FALSE]
  <1>1. settled \in RunStates /\ (run.exhausted # "no" => SameWork(run, settled))
    BY DEF RunStates, SameWork
  <1>2. opened \in RunStates /\ (run.status = "failed" => SameWork(run, opened))
    BY DEF RunStates, SameWork
  <1>3. SameWork(run, run)
    BY DEF SameWork
  <1>4. \/ run.exhausted # "no" /\ Reopened(run, human) = settled
        \/ run.exhausted = "no" /\ run.status = "failed" /\ Reopened(run, human) = opened
        \/ Reopened(run, human) = run
    BY DEF Reopened
  <1> QED BY <1>1, <1>2, <1>3, <1>4

LEMMA OpenedRun ==
  ASSUME NEW run \in RunStates, NEW step \in {"synthesize", "review"}
  PROVE  LET new == [run EXCEPT !.bracket = [step |-> step, status |-> "open", failed |-> FALSE]]
         IN  new \in RunStates /\ SameWork(run, new)
  BY DEF RunStates, SameWork

LEMMA EndedRun ==
  ASSUME NEW run \in RunStates, NEW status \in {"ended", "suspended"}
  PROVE  LET new == [run EXCEPT !.bracket.status = status]
         IN  new \in RunStates /\ SameWork(run, new)
  BY DEF RunStates, SameWork

LEMMA ClosedRun ==
  ASSUME NEW run \in RunStates, NEW status \in {"completed", "escalated"}
  PROVE  LET new == [run EXCEPT !.status = IF @ = "running" THEN status ELSE @]
         IN  new \in RunStates /\ SameWork(run, new)
PROOF
  <1> DEFINE stands == IF run.status = "running" THEN status ELSE run.status
  <1>1. stands \in {"none", "running", "failed", "completed", "escalated"} /\ (stands = "none" <=> run.status = "none")
    BY DEF RunStates
  <1> HIDE DEF stands
  <1>2. [run EXCEPT !.status = stands] \in RunStates /\ SameWork(run, [run EXCEPT !.status = stands])
    BY <1>1 DEF RunStates, SameWork
  <1> QED BY <1>2 DEF stands

LEMMA RequestedRun ==
  ASSUME NEW run \in RunStates, Recoverable(run)
  PROVE  LET new == [run EXCEPT !.requests = @ + 1, !.unacked = TRUE]
         IN  new \in RunStates /\ SameWork(run, new)
PROOF
  <1>1. run.requests + 1 \in 0..MaxRecoveries
    BY HarvestAssumption DEF RunStates, Recoverable
  <1> QED BY <1>1 DEF RunStates, SameWork

LEMMA SaidRun ==
  ASSUME NEW run \in RunStates
  PROVE  /\ \A set \in ProposalSets(Observations) : [run EXCEPT !.proposals = Append(@, set)] \in RunStates
         /\ \A review \in Reviews : [run EXCEPT !.reviews = Append(@, review)] \in RunStates
PROOF
  <1>1. run.proposals \in Seq(ProposalSets(Observations)) /\ run.reviews \in Seq(Reviews)
    BY DEF RunStates
  <1>2. ASSUME NEW set \in ProposalSets(Observations)
        PROVE  [run EXCEPT !.proposals = Append(@, set)] \in RunStates
    <2>1. Append(run.proposals, set) \in Seq(ProposalSets(Observations))
      BY <1>1
    <2> QED BY <2>1 DEF RunStates
  <1>3. ASSUME NEW review \in Reviews
        PROVE  [run EXCEPT !.reviews = Append(@, review)] \in RunStates
    <2>1. Append(run.reviews, review) \in Seq(Reviews)
      BY <1>1
    <2> QED BY <2>1 DEF RunStates
  <1> QED BY <1>2, <1>3

LEMMA FreshRun ==
  /\ NoRun \in RunStates
  /\ \A set \in SUBSET Observations : [NoRun EXCEPT !.status = "running", !.obs = set] \in RunStates
PROOF
  <1>1. NoRun \in RunStates
    BY HarvestAssumption DEF NoRun, NoBracket, RunStates, Steps
  <1>2. ASSUME NEW set \in SUBSET Observations
        PROVE  [NoRun EXCEPT !.status = "running", !.obs = set] \in RunStates
    BY <1>1 DEF RunStates
  <1> QED BY <1>1, <1>2

-----------------------------------------------------------------------------
(***************************************************************************)
(* What a step does to the journal.  Most leave the work of every run as   *)
(* it was; a claim, a give-up, a reservation, a filing and a deposit each  *)
(* change one run.                                                         *)
(***************************************************************************)
Journals ==
  [runs : [Runs -> RunStates], paused : BOOLEAN, pending : {"none", "pause", "resume"}, malformed : BOOLEAN]

Appended(r, run) ==
  /\ journal' \in Journals /\ ~journal'.malformed
  /\ journal'.runs[r] = run
  /\ \A s \in Runs : s # r => journal'.runs[s] = journal.runs[s]

WorkKept ==
  /\ journal' \in Journals /\ ~journal'.malformed
  /\ \A r \in Runs :
       /\ SameWork(journal.runs[r], journal'.runs[r])
       /\ journal.runs[r].status = "none" => journal'.runs[r] = journal.runs[r]

LEMMA AppendOne ==
  ASSUME TypeOK, JournalReduces, NEW r \in Runs, NEW run \in RunStates, NEW ok, ok, AppendRun(r, ok, run)
  PROVE  Appended(r, run)
PROOF
  <1>1. journal \in Journals
    BY DEF TypeOK, Journals
  <1>2. [journal.runs EXCEPT ![r] = run] \in [Runs -> RunStates]
    BY <1>1 DEF Journals
  <1>3. journal' = [journal EXCEPT !.runs = [journal.runs EXCEPT ![r] = run], !.malformed = FALSE]
    BY <1>1 DEF AppendRun, JournalReduces, Journals
  <1>4. journal' \in Journals /\ ~journal'.malformed /\ journal'.runs = [journal.runs EXCEPT ![r] = run]
    BY <1>1, <1>2, <1>3 DEF Journals
  <1> QED BY <1>1, <1>4 DEF Appended, Journals

LEMMA AppendSame ==
  ASSUME TypeOK, JournalReduces, NEW r \in Runs, NEW run \in RunStates, AppendRun(r, TRUE, run),
         journal.runs[r].status # "none", SameWork(journal.runs[r], run)
  PROVE  WorkKept
PROOF
  <1>1. Appended(r, run)
    BY AppendOne
  <1>2. \A s \in Runs : s # r => SameWork(journal.runs[s], journal'.runs[s])
    BY <1>1 DEF Appended, SameWork
  <1> QED BY <1>1, <1>2 DEF Appended, WorkKept

LEMMA KeepJournal ==
  ASSUME TypeOK, JournalReduces, UNCHANGED journal
  PROVE  WorkKept
  BY DEF TypeOK, Journals, JournalReduces, WorkKept, SameWork

\* The runner, at a run, is on one that was claimed.
LEMMA AtClaimed ==
  ASSUME JournalInv, runner.pc \in AtRun
  PROVE  /\ runner.run \in Runs /\ journal.runs[runner.run] \in RunStates
         /\ journal.runs[runner.run].status # "none"
  BY DEF JournalInv, TypeOK, OnRun, Runners

LEMMA SessionsKeep ==
  ASSUME JournalInv, StartSession \/ EndTurn \/ FailSession
  PROVE  WorkKept
PROOF
  <1> DEFINE r == runner.run
             run == journal.runs[r]
  <1> USE DEF JournalInv
  <1>1. CASE StartSession
    <2>1. r \in Runs /\ run \in RunStates /\ run.status # "none"
      BY <1>1, AtClaimed DEF StartSession, AtRun, Files, Filed
    <2> QED BY <2>1, <1>1, OpenedRun, AppendSame DEF StartSession
  <1>2. CASE EndTurn
    <2>1. r \in Runs /\ run \in RunStates /\ run.status # "none"
      BY <1>2, AtClaimed DEF EndTurn, AtRun, Files, Filed
    <2> QED BY <2>1, <1>2, EndedRun, AppendSame DEF EndTurn
  <1>3. CASE FailSession
    <2>1. r \in Runs /\ run \in RunStates /\ run.status # "none"
      BY <1>3, AtClaimed DEF FailSession, AtRun, Files, Filed
    <2> DEFINE again == run.tries[agents.now.step] + 1 < MaxSessionAttempts
    <2>2. again \in BOOLEAN
      OBVIOUS
    <2>3. \E retry \in {FALSE, again} : AppendRun(r, TRUE, Failed(run, agents.now.step, retry))
      BY <1>3 DEF FailSession
    <2> HIDE DEF again
    <2>4. PICK retry \in BOOLEAN : AppendRun(r, TRUE, Failed(run, agents.now.step, retry))
      BY <2>2, <2>3
    <2> QED BY <2>1, <2>4, FailedRun, AppendSame
  <1> QED BY <1>1, <1>2, <1>3

LEMMA FilingKeeps ==
  ASSUME JournalInv, Escalate \/ CreateFails \/ Complete
  PROVE  WorkKept
PROOF
  <1> DEFINE r == runner.run
             run == journal.runs[r]
  <1> USE DEF JournalInv
  <1>1. r \in Runs /\ run \in RunStates /\ run.status # "none"
    BY AtClaimed DEF Escalate, CreateFails, Complete, AtRun, Files, Filed
  <1>2. CASE Escalate
    BY <1>1, <1>2, ClosedRun, AppendSame DEF Escalate
  <1>3. CASE CreateFails
    <2> DEFINE retry == run.tries["file"] + 1 < MaxSessionAttempts
    <2>1. retry \in BOOLEAN
      OBVIOUS
    <2> HIDE DEF retry
    <2>2. AppendRun(r, TRUE, Failed(run, "file", retry))
      BY <1>3 DEF CreateFails, retry
    <2> QED BY <1>1, <2>1, <2>2, FailedRun, AppendSame
  <1>4. CASE Complete
    BY <1>1, <1>4, ClosedRun, AppendSame DEF Complete
  <1> QED BY <1>2, <1>3, <1>4

LEMMA BeginKeeps ==
  ASSUME JournalInv, Begin
  PROVE  WorkKept
PROOF
  <1> DEFINE due == IF Barriers # {} THEN Barriers ELSE IF Parked # {} THEN Parked ELSE Running
             r == Oldest(due)
             run == journal.runs[r]
             answered == IF run.bracket.step = "synthesize" THEN run.proposals # <<>> ELSE run.reviews # <<>>
             lost == due # {} /\ run.bracket.status = "open" /\ ~run.bracket.failed /\ ~answered /\ run.status = "running"
  <1> USE DEF JournalInv
  <1>1. due \subseteq Runs
    BY DEF Barriers, Parked, Running, StatusIs
  <1> HIDE DEF due
  <1>2. CASE lost
    <2>1. r \in Runs
      BY <1>1, <1>2, OldestRun
    <2>2. run \in RunStates /\ run.status # "none"
      BY <1>2, <2>1 DEF TypeOK
    <2>3. AppendRun(r, TRUE, Failed(run, run.bracket.step, FALSE))
      BY <1>2 DEF Begin, due
    <2> QED BY <2>1, <2>2, <2>3, FailedRun, AppendSame
  <1>3. CASE ~lost
    BY <1>3, KeepJournal DEF Begin, due
  <1> QED BY <1>2, <1>3

LEMMA AcknowledgedKeeps ==
  ASSUME JournalInv, NEW kind \in {"pause", "resume"}, journal' = Acknowledged(kind)
  PROVE  WorkKept
PROOF
  <1> DEFINE human == journal.pending = "resume"
             opened == [r \in Runs |-> Reopened(journal.runs[r], human)]
  <1> USE DEF JournalInv
  <1>1. journal \in Journals /\ human \in BOOLEAN
    BY DEF TypeOK, Journals
  <1>2. CASE kind = "pause"
    BY <1>1, <1>2 DEF Acknowledged, Journals, WorkKept, JournalReduces, SameWork
  <1>3. CASE kind = "resume"
    <2> HIDE DEF human
    <2>1. \A r \in Runs :
            LET run == journal.runs[r]
            IN  /\ Reopened(run, human) \in RunStates /\ SameWork(run, Reopened(run, human))
                /\ run.status = "none" => Reopened(run, human) = run
      BY <1>1, ReopenedRun DEF Journals, Fresh, NoRun
    <2>2. opened \in [Runs -> RunStates] /\ \A r \in Runs : opened[r] = Reopened(journal.runs[r], human)
      BY <2>1
    <2>3. journal' = [journal EXCEPT !.paused = FALSE, !.pending = IF @ = "resume" THEN "none" ELSE @,
                                     !.runs = opened]
      BY <1>3 DEF Acknowledged, human
    <2> HIDE DEF opened
    <2>4. journal' \in Journals /\ journal'.runs = opened /\ journal'.malformed = journal.malformed
      BY <1>1, <2>2, <2>3 DEF Journals
    <2> QED BY <2>1, <2>2, <2>4 DEF WorkKept, JournalReduces
  <1> QED BY <1>2, <1>3

LEMMA ActKeeps ==
  ASSUME JournalInv, Act
  PROVE  WorkKept
PROOF
  <1> DEFINE dec == runner.dec
             run == journal.runs[dec.run]
  <1> USE DEF JournalInv
  <1>1. runner.pc = "act" /\ dec.kind \in {"pause", "resume", "request", "exhaust"}
    BY DEF Act, Decided
  <1>2. CASE dec.kind \in {"pause", "resume"}
    BY <1>2, AcknowledgedKeeps DEF Act
  <1>3. CASE dec.kind = "request"
    <2>1. Standing(dec.run) /\ Recoverable(run) /\ dec.run \in Runs /\ run \in RunStates
      BY <1>1, <1>3 DEF Decided, Standing, TypeOK, Runners, Decisions
    <2> DEFINE new == [run EXCEPT !.requests = @ + 1, !.unacked = TRUE]
               ok == run.status = "failed" /\ run.exhausted = "no" /\ ~run.unacked
    <2>2. new \in RunStates /\ SameWork(run, new) /\ run.status # "none"
      BY <2>1, RequestedRun DEF Standing
    <2>3. ok /\ AppendRun(dec.run, ok, new)
      BY <1>3, <2>1 DEF Act, Standing
    <2>4. AppendRun(dec.run, TRUE, new)
      <3> HIDE DEF new, ok
      <3> QED BY <2>3 DEF AppendRun
    <2> QED BY <2>1, <2>2, <2>4, AppendSame
  <1>4. CASE dec.kind = "exhaust"
    BY <1>4, KeepJournal DEF Act
  <1> QED BY <1>1, <1>2, <1>3, <1>4

LEMMA RestKeeps ==
  ASSUME JournalInv, Shutdown \/ \E command \in {"pause", "resume"} : Request(command)
  PROVE  WorkKept
PROOF
  <1> USE DEF JournalInv
  <1>1. CASE Shutdown /\ runner.pc = "turn"
    <2> DEFINE run == journal.runs[runner.run]
               status == IF agents.now.at = "deposited" THEN "ended" ELSE "suspended"
    <2>1. runner.run \in Runs /\ run \in RunStates /\ run.status # "none"
      BY <1>1, AtClaimed DEF AtRun
    <2>2. status \in {"ended", "suspended"}
      OBVIOUS
    <2>3. AppendRun(runner.run, TRUE, [run EXCEPT !.bracket.status = status])
      BY <1>1 DEF Shutdown
    <2> HIDE DEF status
    <2> QED BY <2>1, <2>2, <2>3, EndedRun, AppendSame
  <1>2. CASE Shutdown /\ runner.pc # "turn"
    BY <1>2, KeepJournal DEF Shutdown
  <1>3. ASSUME NEW command \in {"pause", "resume"}, Request(command) PROVE WorkKept
    BY <1>3 DEF Request, TypeOK, Journals, JournalReduces, WorkKept, SameWork
  <1> QED BY <1>1, <1>2, <1>3

LEMMA ClaimEffect ==
  ASSUME JournalInv, Claim
  PROVE  LET r == Oldest(StatusIs("none"))
         IN  /\ r \in Runs /\ journal.runs[r].status = "none"
             /\ Appended(r, [NoRun EXCEPT !.status = "running", !.obs = Unclaimed])
PROOF
  <1> DEFINE r == Oldest(StatusIs("none"))
             new == [NoRun EXCEPT !.status = "running", !.obs = Unclaimed]
  <1> USE DEF JournalInv
  <1>1. StatusIs("none") # {} /\ StatusIs("none") \subseteq Runs
    BY DEF Claim, OnRun, StatusIs
  <1>2. r \in Runs /\ journal.runs[r].status = "none"
    BY <1>1, OldestRun DEF StatusIs
  <1>3. new \in RunStates
    BY FreshRun DEF Unclaimed
  <1>4. Unclaimed \cap Claimed = {}
    BY DEF Unclaimed
  <1>5. AppendRun(r, TRUE, new)
    BY <1>4 DEF Claim, AppendRun
  <1> QED BY <1>2, <1>3, <1>5, AppendOne

LEMMA GiveUpEffect ==
  ASSUME JournalInv, GiveUp
  PROVE  LET r == runner.dec.run
             run == journal.runs[r]
         IN  /\ r \in Runs /\ run \in RunStates /\ run.status = "failed" /\ run.exhausted = "no"
             /\ runner.released \subseteq Observations
             /\ Appended(r, [run EXCEPT !.exhausted = "barrier", !.released = runner.released])
PROOF
  <1> DEFINE r == runner.dec.run
             run == journal.runs[r]
             new == [run EXCEPT !.exhausted = "barrier", !.released = runner.released]
             ok == run.status = "failed" /\ run.exhausted = "no" /\ ~run.unacked /\ run.requests = MaxRecoveries
  <1> USE DEF JournalInv
  <1>1. r \in Runs /\ run \in RunStates /\ Standing(r) /\ ~Recoverable(run)
    BY DEF GiveUp, Decided, TypeOK, Runners, Decisions, Standing
  <1>2. ok
    BY <1>1, HarvestAssumption DEF Standing, Recoverable, RunStates
  <1>3. runner.released \subseteq Observations
    BY DEF TypeOK, Runners
  <1>4. new \in RunStates
    BY <1>1, <1>3 DEF RunStates
  <1>5. AppendRun(r, ok, new)
    BY DEF GiveUp
  <1>6. Appended(r, new)
    <2> HIDE DEF new, ok
    <2> QED BY <1>1, <1>2, <1>4, <1>5, AppendOne
  <1> QED BY <1>1, <1>2, <1>3, <1>6

LEMMA ReservedIsFinite ==
  ASSUME JournalInv
  PROVE  /\ IsFiniteSet(Reserved) /\ Cardinality(Reserved) \in Nat
         /\ NewKey = 1 + Cardinality(Reserved) /\ NewKey \in Nat
PROOF
  <1>1. IsFiniteSet(Runs) /\ IsFiniteSet(Clusters)
    <2>1. IsFiniteSet(SUBSET Observations) /\ Clusters \subseteq SUBSET Observations
      BY HarvestAssumption, FS_SUBSET DEF Clusters
    <2>2. IsFiniteSet(Clusters)
      BY <2>1, FS_Subset
    <2>3. IsFiniteSet(1..MaxRuns)
      BY FS_Interval, HarvestAssumption
    <2> QED BY <2>2, <2>3 DEF Runs
  <1>2. IsFiniteSet(Runs \X Clusters)
    BY <1>1, FS_Product
  <1>3. IsFiniteSet(Reserved)
    BY <1>2, FS_Subset DEF Reserved
  <1> QED BY <1>3, FS_CardinalityType DEF NewKey

LEMMA ReserveEffect ==
  ASSUME JournalInv, Reserve
  PROVE  LET r == runner.run
             run == journal.runs[r]
         IN  \E c \in Clusters :
               /\ r \in Runs /\ run \in RunStates /\ run.status # "none"
               /\ runner.cluster = c /\ run.key[c] = 0
               /\ Appended(r, [run EXCEPT !.key[c] = NewKey])
PROOF
  <1> DEFINE r == runner.run
             run == journal.runs[r]
  <1> USE DEF JournalInv
  <1>1. r \in Runs /\ run \in RunStates /\ run.status # "none"
    BY AtClaimed DEF Reserve, AtRun, Files, Filed
  <1>2. PICK c \in Clusters : runner.cluster = c /\ run.key[c] = 0
    BY DEF Reserve, Reserving, Filed
  <1> DEFINE new == [run EXCEPT !.key[c] = NewKey]
  <1>3. new \in RunStates
    <2>1. [run.key EXCEPT ![c] = NewKey] \in [Clusters -> Nat]
      BY <1>1, ReservedIsFinite DEF RunStates
    <2> QED BY <1>1, <2>1 DEF RunStates
  <1>4. AppendRun(r, run.key[c] = 0, new)
    BY <1>2 DEF Reserve
  <1>5. Appended(r, new)
    <2> DEFINE ok == run.key[c] = 0
    <2>1. ok /\ AppendRun(r, ok, new)
      BY <1>2, <1>4
    <2> HIDE DEF new, ok
    <2> QED BY <1>1, <1>3, <2>1, AppendOne
  <1> QED BY <1>1, <1>2, <1>5

LEMMA FileEffect ==
  ASSUME JournalInv, File
  PROVE  LET r == runner.run
             run == journal.runs[r]
         IN  /\ r \in Runs /\ run \in RunStates /\ run.status # "none"
             /\ Appended(r, [run EXCEPT !.filed = @ \cup {runner.cluster}])
PROOF
  <1> DEFINE r == runner.run
             run == journal.runs[r]
             new == [run EXCEPT !.filed = @ \cup {runner.cluster}]
  <1> USE DEF JournalInv
  <1>1. r \in Runs /\ run \in RunStates /\ run.status # "none"
    BY AtClaimed DEF File, AtRun, Files, Filed
  <1>2. new \in RunStates
    <2>1. runner.cluster \in Clusters
      BY DEF File, Reserving, Filed
    <2> QED BY <1>1, <2>1 DEF RunStates
  <1>3. AppendRun(r, TRUE, new)
    BY DEF File
  <1>4. Appended(r, new)
    BY <1>1, <1>2, <1>3, AppendOne
  <1> QED BY <1>1, <1>4

\* What a deposit makes of the run.
DepositedRun(run, agent) ==
  IF agent.step = "synthesize" THEN [run EXCEPT !.proposals = Append(@, agent.says[1].of)]
  ELSE [run EXCEPT !.reviews = Append(@, agent.says[1])]

LEMMA DepositEffect ==
  ASSUME JournalInv, NEW a \in {"now", "old"}, Deposit(a)
  PROVE  LET r == agents[a].run
             run == journal.runs[r]
         IN  /\ agents[a] \in Agents /\ Says(agents[a])
             /\ r \in Runs /\ run \in RunStates /\ run.status # "none"
             /\ Appended(r, DepositedRun(run, agents[a]))
PROOF
  <1> DEFINE agent == agents[a]
             r == agent.run
             run == journal.runs[r]
             new == DepositedRun(run, agent)
  <1> USE DEF JournalInv
  <1>1. agent \in Agents /\ Says(agent)
    BY DEF TypeOK, OnAgents
  <1>2. r \in Runs /\ run \in RunStates /\ run.status # "none" /\ agent.step \in {"synthesize", "review"}
    BY <1>1 DEF Deposit, Says, Agents, TypeOK
  <1>3. agent.says \in Seq(Deposits) /\ Len(agent.says) = 1
    BY <1>1 DEF Deposit, Says, Agents
  <1>4. agent.says[1] \in Deposits
    BY <1>3, HeadOf
  <1>5. new \in RunStates
    <2>1. CASE agent.step = "synthesize"
      <3>1. agent.says[1].of \in ProposalSets(Observations)
        BY <1>4 DEF Deposits
      <3> QED BY <1>2, <2>1, <3>1, SaidRun DEF DepositedRun
    <2>2. CASE agent.step = "review"
      <3>1. agent.says[1] \in Reviews
        BY <1>1, <2>2 DEF Deposit, Says
      <3> QED BY <1>2, <2>2, <3>1, SaidRun DEF DepositedRun
    <2> QED BY <1>2, <2>1, <2>2
  <1>6. AppendRun(r, TRUE, new)
    BY DEF Deposit, DepositedRun
  <1>7. Appended(r, new)
    <2> HIDE DEF new
    <2> QED BY <1>2, <1>5, <1>6, AppendOne
  <1> QED BY <1>1, <1>2, <1>7

LEMMA StepKinds ==
  ASSUME JournalInv, [Next]_vars
  PROVE  WorkKept \/ Claim \/ GiveUp \/ Reserve \/ File \/ \E a \in {"now", "old"} : Deposit(a)
PROOF
  <1>1. ASSUME UNCHANGED journal PROVE WorkKept
    BY <1>1, KeepJournal DEF JournalInv
  <1>2. CASE \/ Launch \/ ControlRead \/ Partition \/ Finalize \/ Settle \/ Select \/ Work \/ NextProposal \/ CreateTicket
             \/ CompleteBlockers
    BY <1>1, <1>2 DEF Launch, ControlRead, Partition, Finalize, Settle, Select, Work, NextProposal, CreateTicket, CompleteBlockers
  <1>3. CASE StartSession \/ EndTurn \/ FailSession
    BY <1>3, SessionsKeep
  <1>4. CASE Escalate \/ CreateFails \/ Complete
    BY <1>4, FilingKeeps
  <1>5. CASE Begin \/ Act
    BY <1>5, BeginKeeps, ActKeeps
  <1>6. CASE Claim \/ GiveUp \/ Reserve \/ File
    BY <1>6
  <1>7. CASE RunnerStep
    BY <1>2, <1>3, <1>4, <1>5, <1>6, <1>7 DEF RunnerStep
  <1>8. ASSUME NEW a \in {"now", "old"}, AgentStep(a)
        PROVE  WorkKept \/ Deposit(a)
    <2>1. CASE CheckTerminal(a)
      <3>1. UNCHANGED journal
        BY <2>1 DEF CheckTerminal
      <3> QED BY <3>1, <1>1
    <2> QED BY <2>1, <1>8 DEF AgentStep
  <1>9. CASE AgentFails \/ Crash \/ BeforeListing \/ List \/ AfterListing \/ UNCHANGED vars
    BY <1>1, <1>9 DEF AgentFails, Crash, BeforeListing, List, AfterListing, vars
  <1>10. CASE Shutdown \/ \E command \in {"pause", "resume"} : Request(command)
    BY <1>10, RestKeeps
  <1> QED BY <1>7, <1>8, <1>9, <1>10 DEF Next

(***************************************************************************)
(* The journal keeps its type and reduces, what was claimed stays claimed, *)
(* and a run that was not started is as new.                               *)
(***************************************************************************)
LEMMA ChangedRun ==
  ASSUME JournalInv, NEW r \in Runs, NEW new, Appended(r, new), new.status # "none"
  PROVE  /\ journal' \in Journals /\ ~journal'.malformed /\ Fresh'
         /\ \A s \in Runs : journal.runs[s].status # "none" => journal'.runs[s].status # "none"
  BY DEF Appended, JournalInv, Fresh

LEMMA JournalNext ==
  ASSUME JournalInv, [Next]_vars
  PROVE  /\ journal' \in Journals /\ ~journal'.malformed /\ Fresh'
         /\ \A s \in Runs : journal.runs[s].status # "none" => journal'.runs[s].status # "none"
PROOF
  <1>1. CASE WorkKept
    BY <1>1 DEF WorkKept, SameWork, JournalInv, Fresh
  <1>2. CASE Claim
    <2> DEFINE new == [NoRun EXCEPT !.status = "running", !.obs = Unclaimed]
    <2>1. PICK r \in Runs : Appended(r, new)
      BY <1>2, ClaimEffect
    <2>2. new.status # "none"
      BY DEF NoRun
    <2> HIDE DEF new
    <2> QED BY <2>1, <2>2, ChangedRun
  <1>3. CASE GiveUp
    <2> DEFINE run == journal.runs[runner.dec.run]
               new == [run EXCEPT !.exhausted = "barrier", !.released = runner.released]
    <2>1. runner.dec.run \in Runs /\ run \in RunStates /\ run.status = "failed" /\ Appended(runner.dec.run, new)
      BY <1>3, GiveUpEffect
    <2>2. new.status # "none"
      BY <2>1 DEF RunStates
    <2> HIDE DEF new
    <2> QED BY <2>1, <2>2, ChangedRun
  <1>4. CASE Reserve
    <2> DEFINE run == journal.runs[runner.run]
    <2>1. PICK c \in Clusters :
            /\ runner.run \in Runs /\ run \in RunStates /\ run.status # "none"
            /\ Appended(runner.run, [run EXCEPT !.key[c] = NewKey])
      BY <1>4, ReserveEffect
    <2> DEFINE new == [run EXCEPT !.key[c] = NewKey]
    <2>2. new.status # "none"
      BY <2>1 DEF RunStates
    <2> HIDE DEF new
    <2> QED BY <2>1, <2>2, ChangedRun DEF new
  <1>5. CASE File
    <2> DEFINE run == journal.runs[runner.run]
               new == [run EXCEPT !.filed = @ \cup {runner.cluster}]
    <2>1. runner.run \in Runs /\ run \in RunStates /\ run.status # "none" /\ Appended(runner.run, new)
      BY <1>5, FileEffect
    <2>2. new.status # "none"
      BY <2>1 DEF RunStates
    <2> HIDE DEF new
    <2> QED BY <2>1, <2>2, ChangedRun
  <1>6. ASSUME NEW a \in {"now", "old"}, Deposit(a)
        PROVE  /\ journal' \in Journals /\ ~journal'.malformed /\ Fresh'
               /\ \A s \in Runs : journal.runs[s].status # "none" => journal'.runs[s].status # "none"
    <2> DEFINE r == agents[a].run
               run == journal.runs[r]
               new == DepositedRun(run, agents[a])
    <2>1. r \in Runs /\ run \in RunStates /\ run.status # "none" /\ Appended(r, new)
      BY <1>6, DepositEffect
    <2>2. new.status # "none"
      BY <2>1 DEF RunStates, DepositedRun
    <2> HIDE DEF new
    <2> QED BY <2>1, <2>2, ChangedRun
  <1> QED BY <1>1, <1>2, <1>3, <1>4, <1>5, <1>6, StepKinds

-----------------------------------------------------------------------------
(***************************************************************************)
(* The types.                                                              *)
(***************************************************************************)
\* A request and a give-up are decided of a parked run that nothing has reopened.
LEMMA DecisionFacts ==
  ASSUME JournalInv
  PROVE  /\ Decision \in Decisions
         /\ Decision.kind = "request" => Standing(Decision.run) /\ Recoverable(journal.runs[Decision.run])
         /\ Decision.kind = "exhaust" => Standing(Decision.run) /\ ~Recoverable(journal.runs[Decision.run])
PROOF
  <1> DEFINE first == Oldest(Parked)
             none(kind) == [kind |-> kind, run |-> 0]
             some(kind) == [kind |-> kind, run |-> first]
             settled == ~Barred /\ Parked # {} /\ \A r \in Parked : ~journal.runs[r].unacked
  <1>1. Parked # {} => first \in Parked
    BY OldestRun DEF Parked, StatusIs
  <1>2. Parked \subseteq Runs /\ \A r \in Parked : journal.runs[r].status = "failed" /\ journal.runs[r].exhausted = "no"
    BY DEF Parked, StatusIs
  <1>3. \A r \in Runs : r # 0
    BY DEF Runs
  <1>4. \/ Decision \in {none("resume"), none("park"), none("pause"), none("proceed")}
        \/ settled /\ Decision = IF Recoverable(journal.runs[first]) THEN some("request") ELSE some("exhaust")
    BY DEF Decision
  <1> HIDE DEF first
  <1>5. CASE Decision \in {none("resume"), none("park"), none("pause"), none("proceed")}
    BY <1>5 DEF Decisions
  <1>6. CASE settled /\ Decision = IF Recoverable(journal.runs[first]) THEN some("request") ELSE some("exhaust")
    <2>1. first \in Runs /\ Standing(first)
      BY <1>1, <1>2, <1>3, <1>6 DEF Standing
    <2>2. CASE Recoverable(journal.runs[first])
      BY <1>6, <2>1, <2>2 DEF Decisions
    <2>3. CASE ~Recoverable(journal.runs[first])
      BY <1>6, <2>1, <2>3 DEF Decisions
    <2> QED BY <2>2, <2>3
  <1> QED BY <1>4, <1>5, <1>6

LEMMA OffType ==
  /\ Off \in Runners /\ Off.pc = "off" /\ Off.next = "off" /\ Off.run = 0
  /\ Off.artifact = <<>> /\ Off.verdict = "none"
  BY DEF Off, Runners, Decisions

LEMMA LastProposals ==
  ASSUME JournalInv, NEW r \in Runs
  PROVE  /\ journal.runs[r] \in RunStates
         /\ journal.runs[r].proposals \in Seq(ProposalSets(Observations)) /\ journal.runs[r].reviews \in Seq(Reviews)
         /\ journal.runs[r].proposals # <<>> => Last(journal.runs[r].proposals) \in ProposalSets(Observations)
         /\ journal.runs[r].reviews # <<>> => Last(journal.runs[r].reviews) \in Reviews
PROOF
  <1>1. journal.runs[r] \in RunStates
    BY DEF JournalInv, TypeOK
  <1>2. journal.runs[r].proposals \in Seq(ProposalSets(Observations)) /\ journal.runs[r].reviews \in Seq(Reviews)
    BY <1>1 DEF RunStates
  <1> QED BY <1>1, <1>2, LastOf

\* What an exhausted run releases, and where the runner goes on with it.
LEMMA ReleasedType ==
  ASSUME JournalInv, NEW r \in Runs
  PROVE  Released(journal.runs[r]) \in SUBSET Observations
PROOF
  <1> DEFINE run == journal.runs[r]
             set == Last(run.proposals)
  <1>1. run.obs \in SUBSET Observations
    BY LastProposals DEF RunStates
  <1>2. run.proposals # <<>> => set \in SUBSET (SUBSET Observations)
    BY LastProposals DEF ProposalSets
  <1> HIDE DEF set
  <1>3. run.proposals # <<>> => UNION (set \ run.filed) \in SUBSET Observations
    BY <1>2
  <1> QED BY <1>1, <1>3 DEF Released, set

LEMMA BackOrOn ==
  ASSUME JournalInv, Partition \/ Finalize
  PROVE  /\ UNCHANGED journal /\ runner.dec.kind = "exhaust"
         /\ \/ runner' = Off
            \/ Finalize /\ Decision = runner.dec /\ runner' = [runner EXCEPT !.pc = "giveup"]
            \/ runner.next # "off" /\ runner' = [runner EXCEPT !.pc = "control", !.released = {}]
            \/ /\ Partition /\ \E released \in SUBSET Observations :
                               runner' = [runner EXCEPT !.pc = "finalize", !.released = released]
PROOF
  <1>1. runner \in Runners /\ runner.dec.kind = "exhaust"
    BY DEF Partition, Finalize, JournalInv, TypeOK, Decided
  <1>2. CASE Finalize
    BY <1>1, <1>2 DEF Finalize, Back, Go, Stop, StillExhausts
  <1>3. CASE Partition
    <2> DEFINE run == journal.runs[runner.dec.run]
    <2>1. runner.dec.run \in Runs
      BY <1>1, <1>3 DEF Partition, JournalInv, Decided
    <2>2. Released(run) \in SUBSET Observations
      BY <2>1, ReleasedType
    <2> QED BY <1>1, <1>3, <2>2 DEF Partition, Back, Stop
  <1> QED BY <1>2, <1>3

LEMMA ControlType ==
  ASSUME JournalInv,
         Launch \/ Begin \/ ControlRead \/ Act \/ Partition \/ Finalize \/ GiveUp \/ Settle \/ Select \/ Claim
  PROVE  runner' \in Runners
PROOF
  <1>1. runner \in Runners /\ Decision \in Decisions
    BY DecisionFacts DEF JournalInv, TypeOK
  <1>2. ASSUME runner' = Off PROVE runner' \in Runners
    BY <1>2, OffType
  <1>3. ASSUME NEW pc \in {"begin", "control", "partition", "giveup", "select", "claim", "work"},
               runner' = [runner EXCEPT !.pc = pc]
        PROVE  runner' \in Runners
    BY <1>1, <1>3 DEF Runners
  <1>4. ASSUME NEW next \in {"select", "claim"}, runner' = [runner EXCEPT !.pc = "control", !.next = next]
        PROVE  runner' \in Runners
    BY <1>1, <1>4 DEF Runners
  <1>5. ASSUME NEW r \in Runs, runner' = [runner EXCEPT !.pc = "control", !.next = "work", !.run = r]
        PROVE  runner' \in Runners
    BY <1>1, <1>5 DEF Runners
  <1>6. CASE Launch \/ Begin
    <2>1. runner' = [runner EXCEPT !.pc = "begin"] \/ runner' = [runner EXCEPT !.pc = "control", !.next = "select"]
      BY <1>6 DEF Launch, Begin, Go, Control
    <2> QED BY <1>3, <1>4, <2>1
  <1>7. CASE ControlRead
    <2>1. runner.next \in {"select", "claim", "work"}
      BY <1>1, <1>7 DEF ControlRead, JournalInv, OnRun, Runners
    <2>2. \/ runner' = [runner EXCEPT !.pc = runner.next] \/ runner' = Off
          \/ runner' = [runner EXCEPT !.pc = "act", !.dec = Decision]
      BY <1>7 DEF ControlRead, Go, Stop
    <2>3. CASE runner' = [runner EXCEPT !.pc = runner.next]
      BY <1>1, <2>1, <2>3 DEF Runners
    <2>4. CASE runner' = [runner EXCEPT !.pc = "act", !.dec = Decision]
      BY <1>1, <2>4 DEF Runners
    <2> QED BY <1>2, <2>2, <2>3, <2>4
  <1>8. CASE Act
    <2>1. runner.dec.kind \in {"pause", "resume", "request", "exhaust"}
      BY <1>8 DEF Act, JournalInv, Decided
    <2>2. runner' = [runner EXCEPT !.pc = "control"] \/ runner' = [runner EXCEPT !.pc = "partition"]
      BY <1>8, <2>1 DEF Act, Go
    <2> QED BY <1>3, <2>2
  <1>9. CASE Partition \/ Finalize \/ GiveUp
    <2>1. \/ runner' = Off \/ runner' = [runner EXCEPT !.pc = "giveup"]
          \/ \E pc \in {"control", "finalize"}, released \in SUBSET Observations :
               runner' = [runner EXCEPT !.pc = pc, !.released = released]
      BY <1>9, BackOrOn DEF GiveUp, Stop
    <2>2. ASSUME NEW pc \in {"control", "finalize"}, NEW released \in SUBSET Observations,
                 runner' = [runner EXCEPT !.pc = pc, !.released = released]
          PROVE  runner' \in Runners
      BY <1>1, <2>2 DEF Runners
    <2> QED BY <1>2, <1>3, <2>1, <2>2
  <1>10. CASE Settle
    <2>1. runner' = Off \/ runner' = [runner EXCEPT !.pc = "partition", !.next = "off", !.dec = Decision]
      BY <1>10 DEF Settle, Stop
    <2>2. CASE runner' = [runner EXCEPT !.pc = "partition", !.next = "off", !.dec = Decision]
      BY <1>1, <2>2 DEF Runners
    <2> QED BY <1>2, <2>1, <2>2
  <1>11. CASE Select
    <2> DEFINE r == Oldest(Running)
    <2>1. Running # {} => r \in Runs
      BY OldestRun DEF Running, StatusIs
    <2>2. \/ runner' = Off \/ runner' = [runner EXCEPT !.pc = "control", !.next = "claim"]
          \/ Running # {} /\ runner' = [runner EXCEPT !.pc = "control", !.next = "work", !.run = r]
      BY <1>11 DEF Select, Stop, Control
    <2> HIDE DEF r
    <2> QED BY <1>2, <1>4, <1>5, <2>1, <2>2
  <1>12. CASE Claim
    <2> DEFINE r == Oldest(StatusIs("none"))
    <2>1. r \in Runs /\ runner' = [runner EXCEPT !.pc = "control", !.next = "work", !.run = r]
      BY <1>12, ClaimEffect DEF Claim
    <2> HIDE DEF r
    <2> QED BY <1>5, <2>1
  <1> QED BY <1>6, <1>7, <1>8, <1>9, <1>10, <1>11, <1>12

LEMMA WorkType ==
  ASSUME JournalInv, Work
  PROVE  runner' \in Runners
PROOF
  <1> DEFINE run == journal.runs[runner.run]
             verdict == Verdict(run)
             step == IF run.proposals = <<>> THEN "synthesize" ELSE "review"
             artifact == IF runner.artifact # <<>> \/ run.proposals = <<>> THEN runner.artifact
                         ELSE <<Last(run.proposals)>>
             pc == CASE verdict = "approve" -> "file"
                     [] verdict = "escalate" -> "escalate"
                     [] OTHER -> IF SpentBudget(run, step) THEN "settle" ELSE step
  <1>1. runner \in Runners /\ runner.run \in Runs
    BY AtClaimed DEF JournalInv, TypeOK, Work, AtRun, Files, Filed
  <1>2. artifact \in Seq(ProposalSets(Observations))
    <2>1. run.proposals # <<>> => Last(run.proposals) \in ProposalSets(Observations)
      BY <1>1, LastProposals
    <2>2. runner.artifact \in Seq(ProposalSets(Observations))
      BY <1>1 DEF Runners
    <2> QED BY <2>1, <2>2, OneOf
  <1>3. verdict \in {"none", "approve", "escalate"}
    BY <1>1 DEF Verdict, Runners
  <1>4. step \in {"synthesize", "review"}
    OBVIOUS
  <1>5. pc \in {"file", "escalate", "settle", "synthesize", "review"}
    <2> HIDE DEF verdict, step
    <2> QED BY <1>4
  <1>6. runner' = [runner EXCEPT !.artifact = artifact, !.verdict = verdict, !.pc = pc]
    BY DEF Work
  <1> HIDE DEF artifact, verdict, pc
  <1> QED BY <1>1, <1>2, <1>3, <1>5, <1>6 DEF Runners

LEMMA EndTurnType ==
  ASSUME JournalInv, EndTurn
  PROVE  runner' \in Runners
PROOF
  <1> DEFINE run == journal.runs[runner.run]
             own == agents.now.at = "deposited"
             pc == IF own THEN "control" ELSE "failing"
             artifact == IF own /\ agents.now.step = "synthesize" THEN <<Last(run.proposals)>> ELSE runner.artifact
             verdict == IF own /\ agents.now.step = "review" THEN Last(run.reviews).verdict ELSE runner.verdict
  <1>1. runner \in Runners /\ runner.run \in Runs
    BY AtClaimed DEF JournalInv, TypeOK, EndTurn, AtRun, Files, Filed
  <1>2. own => Answered(run, agents.now.step)
    BY DEF JournalInv, OnAgents, EndTurn
  <1>3. runner.artifact \in Seq(ProposalSets(Observations)) /\ runner.verdict \in {"none", "approve", "escalate"}
    BY <1>1 DEF Runners
  <1>4. artifact \in Seq(ProposalSets(Observations))
    <2>1. run.proposals # <<>> => Last(run.proposals) \in ProposalSets(Observations)
      BY <1>1, LastProposals
    <2> QED BY <1>2, <1>3, <2>1, OneOf DEF Answered
  <1>5. verdict \in {"none", "approve", "escalate"}
    <2>1. run.reviews # <<>> => Last(run.reviews).verdict \in {"approve", "escalate"}
      BY <1>1, LastProposals DEF Reviews
    <2> QED BY <1>2, <1>3, <2>1 DEF Answered
  <1>6. pc \in {"control", "failing"}
    OBVIOUS
  <1>7. runner' = [runner EXCEPT !.pc = pc, !.next = "work", !.artifact = artifact, !.verdict = verdict]
    BY DEF EndTurn
  <1> HIDE DEF artifact, verdict, pc
  <1> QED BY <1>1, <1>4, <1>5, <1>6, <1>7 DEF Runners

LEMMA UnfiledType ==
  ASSUME JournalInv, runner.pc \in Files
  PROVE  Unfiled \subseteq Clusters
PROOF
  <1>1. runner.artifact \in Seq(ProposalSets(Observations)) /\ runner.artifact # <<>>
    BY DEF JournalInv, TypeOK, Runners, Grounds
  <1>2. runner.artifact[1] \in ProposalSets(Observations)
    BY <1>1
  <1> QED BY <1>2 DEF Unfiled, Creates, ProposalSets, Clusters

LEMMA FilingType ==
  ASSUME JournalInv, \/ StartSession \/ FailSession \/ Escalate
                     \/ NextProposal \/ Reserve \/ CreateTicket \/ CompleteBlockers \/ CreateFails \/ File \/ Complete
  PROVE  runner' \in Runners
PROOF
  <1>1. runner \in Runners
    BY DEF JournalInv, TypeOK
  <1>2. CASE \/ StartSession \/ FailSession \/ Escalate \/ CreateTicket \/ CompleteBlockers \/ CreateFails \/ File \/ Complete
    <2>1. runner' = Off \/ \E pc \in {"turn", "settle", "blockers", "filed", "file"} : runner' = [runner EXCEPT !.pc = pc]
      BY <1>2 DEF StartSession, FailSession, Escalate, CreateTicket, CompleteBlockers, CreateFails, File, Complete, Go, Stop
    <2> QED BY <1>1, <2>1, OffType DEF Runners
  <1>3. CASE NextProposal
    <2> DEFINE run == journal.runs[runner.run]
    <2>1. run \in RunStates
      BY <1>3, AtClaimed DEF NextProposal, AtRun, Files, Filed
    <2>2. Unfiled \subseteq Clusters /\ Clusters \subseteq SUBSET Observations
      BY <1>3, UnfiledType DEF NextProposal, Files, Filed, Clusters
    <2>3. PICK c \in Unfiled :
            runner' = [runner EXCEPT !.cluster = c, !.key = run.key[c], !.pc = IF run.key[c] = 0 THEN "reserve" ELSE "create"]
      BY <1>3 DEF NextProposal
    <2>4. run.key[c] \in Nat
      BY <2>1, <2>2 DEF RunStates
    <2> QED BY <1>1, <2>2, <2>3, <2>4 DEF Runners
  <1>4. CASE Reserve
    <2>1. runner' = [runner EXCEPT !.key = NewKey, !.pc = "create"]
      BY <1>4 DEF Reserve
    <2> QED BY <1>1, <2>1, ReservedIsFinite DEF Runners
  <1> QED BY <1>2, <1>3, <1>4

LEMMA RunnerType ==
  ASSUME JournalInv, [Next]_vars
  PROVE  runner' \in Runners
PROOF
  <1>1. CASE RunnerStep
    BY <1>1, ControlType, WorkType, EndTurnType, FilingType DEF RunnerStep
  <1>2. CASE Crash \/ Shutdown
    BY <1>2, OffType DEF Crash, Shutdown, Stop
  <1>3. CASE UNCHANGED runner
    BY <1>3 DEF JournalInv, TypeOK
  <1>4. ASSUME NEW a \in {"now", "old"}, AgentStep(a) PROVE UNCHANGED runner
    BY <1>4 DEF AgentStep, CheckTerminal, Deposit
  <1>5. CASE AgentFails \/ BeforeListing \/ List \/ AfterListing \/ UNCHANGED vars
             \/ \E command \in {"pause", "resume"} : Request(command)
    BY <1>3, <1>5 DEF AgentFails, BeforeListing, List, AfterListing, vars, Request
  <1> QED BY <1>1, <1>2, <1>3, <1>4, <1>5 DEF Next

LEMMA NoAgentType == NoAgent \in Agents /\ ~NoAgent.on
PROOF
  <1>1. <<>> \in Seq(Deposits)
    OBVIOUS
  <1> QED BY <1>1 DEF NoAgent, Agents

LEMMA TerminalType ==
  ASSUME JournalInv, NEW agent \in Agents, agent.on, Says(agent), Admissible(agent), NEW t \in Terminals(agent)
  PROVE  /\ t \in Deposits
         /\ agent.step = "review" => t \in Reviews /\ journal.runs[agent.run].proposals # <<>>
         /\ agent.step = "review" => t.of = Last(journal.runs[agent.run].proposals)
         /\ agent.step = "synthesize" => t.of \in ProposalSets(journal.runs[agent.run].obs)
PROOF
  <1> DEFINE run == journal.runs[agent.run]
  <1>1. agent.run \in Runs /\ agent.step \in {"synthesize", "review"}
    BY DEF Says, Agents
  <1>2. run.obs \in SUBSET Observations
    BY <1>1, LastProposals DEF RunStates
  <1>3. CASE agent.step = "synthesize"
    <2>1. PICK set \in ProposalSets(run.obs) : t = [verdict |-> "none", of |-> set]
      BY <1>3 DEF Terminals
    <2>2. set \in ProposalSets(Observations)
      BY <1>2 DEF ProposalSets
    <2> QED BY <1>3, <2>1, <2>2 DEF Deposits
  <1>4. CASE agent.step = "review"
    <2>1. run.proposals # <<>>
      BY <1>4 DEF Admissible
    <2>2. PICK v \in {"approve", "escalate"} : t = [verdict |-> v, of |-> Last(run.proposals)]
      BY <1>4 DEF Terminals
    <2>3. Last(run.proposals) \in ProposalSets(Observations)
      BY <1>1, <2>1, LastProposals
    <2> QED BY <1>4, <2>1, <2>2, <2>3 DEF Deposits, Reviews
  <1> QED BY <1>1, <1>3, <1>4

\* What an agent's own step makes of it.
Checked(agent, new) ==
  \/ /\ Admissible(agent)
     /\ \E t \in Terminals(agent) : new = [agent EXCEPT !.at = "checked", !.says = <<t>>]
  \/ new = [agent EXCEPT !.on = FALSE, !.at = "refused"]

LEMMA AgentsStep ==
  ASSUME JournalInv, NEW a \in {"now", "old"}, AgentStep(a)
  PROVE  \E new : /\ agents[a] \in Agents /\ agents[a].on /\ Says(agents[a])
                  /\ IF a = "now" THEN agents'.now = new /\ agents'.old = agents.old
                     ELSE agents'.now = agents.now /\ agents'.old = new
                  /\ agents' = [agents EXCEPT ![a] = new]
                  /\ \/ CheckTerminal(a) /\ Checked(agents[a], new)
                     \/ Deposit(a) /\ new = [agents[a] EXCEPT !.on = FALSE, !.at = "deposited", !.says = <<>>]
PROOF
  <1> DEFINE agent == agents[a]
  <1>1. agents \in [now : Agents, old : Agents] /\ Says(agent) /\ agent.on /\ agent \in Agents
    BY DEF JournalInv, TypeOK, OnAgents, AgentStep, CheckTerminal, Deposit
  <1>2. CASE Deposit(a)
    <2> DEFINE new == [agent EXCEPT !.on = FALSE, !.at = "deposited", !.says = <<>>]
    <2>1. agents' = [agents EXCEPT ![a] = new]
      BY <1>1, <1>2 DEF Deposit
    <2> HIDE DEF new
    <2>2. IF a = "now" THEN agents'.now = new /\ agents'.old = agents.old
          ELSE agents'.now = agents.now /\ agents'.old = new
      BY <1>1, <2>1
    <2> QED BY <1>1, <1>2, <2>1, <2>2 DEF new
  <1>3. CASE CheckTerminal(a)
    <2>1. \E new : agents' = [agents EXCEPT ![a] = new] /\ Checked(agent, new)
      <3>1. CASE Admissible(agent)
        <4>1. PICK t \in Terminals(agent) : agents' = [agents EXCEPT ![a].at = "checked", ![a].says = <<t>>]
          BY <1>3, <3>1 DEF CheckTerminal
        <4>2. agents' = [agents EXCEPT ![a] = [agent EXCEPT !.at = "checked", !.says = <<t>>]]
          BY <1>1, <4>1
        <4> QED BY <3>1, <4>2 DEF Checked
      <3>2. CASE ~Admissible(agent)
        <4>1. agents' = [agents EXCEPT ![a] = [agent EXCEPT !.on = FALSE, !.at = "refused"]]
          BY <1>1, <1>3, <3>2 DEF CheckTerminal
        <4> QED BY <4>1 DEF Checked
      <3> QED BY <3>1, <3>2
    <2>2. PICK new : agents' = [agents EXCEPT ![a] = new] /\ Checked(agent, new)
      BY <2>1
    <2>3. IF a = "now" THEN agents'.now = new /\ agents'.old = agents.old
          ELSE agents'.now = agents.now /\ agents'.old = new
      BY <1>1, <2>2
    <2> QED BY <1>1, <1>3, <2>2, <2>3
  <1> QED BY <1>2, <1>3 DEF AgentStep

LEMMA CheckedType ==
  ASSUME JournalInv, NEW agent \in Agents, agent.on, Says(agent), NEW new, Checked(agent, new)
  PROVE  /\ new \in Agents /\ new.run = agent.run /\ new.step = agent.step
         /\ new.at \in {"checked", "refused"}
         /\ new.on => /\ new.at = "checked" /\ Len(new.says) = 1
                      /\ Admissible(agent) /\ new.says[1] \in Terminals(agent)
PROOF
  <1>1. CASE new = [agent EXCEPT !.on = FALSE, !.at = "refused"]
    BY <1>1 DEF Agents
  <1>2. ASSUME Admissible(agent), NEW t \in Terminals(agent),
               new = [agent EXCEPT !.at = "checked", !.says = <<t>>]
        PROVE  /\ new \in Agents /\ new.run = agent.run /\ new.step = agent.step
               /\ new.at = "checked" /\ Len(new.says) = 1 /\ new.says[1] \in Terminals(agent)
    <2>1. t \in Deposits
      BY <1>2, TerminalType
    <2> DEFINE says == <<t>>
    <2>2. says \in Seq(Deposits) /\ Len(says) = 1 /\ says[1] = t
      BY <2>1
    <2> HIDE DEF says
    <2>3. new = [agent EXCEPT !.at = "checked", !.says = says]
      BY <1>2 DEF says
    <2> QED BY <1>2, <2>2, <2>3 DEF Agents
  <1> QED BY <1>1, <1>2 DEF Checked

LEMMA AgentsType ==
  ASSUME JournalInv, [Next]_vars
  PROVE  agents' \in [now : Agents, old : Agents]
PROOF
  <1>1. agents \in [now : Agents, old : Agents] /\ runner \in Runners
    BY DEF JournalInv, TypeOK
  <1>2. CASE StartSession
    <2> DEFINE new == [on |-> TRUE, run |-> runner.run, step |-> runner.pc, at |-> "working", says |-> <<>>]
    <2>1. new \in Agents
      <3>1. <<>> \in Seq(Deposits) /\ runner.pc \in {"synthesize", "review"} /\ runner.run \in Runs \cup {0}
        BY <1>1, <1>2 DEF StartSession, Runners
      <3> QED BY <3>1 DEF Agents
    <2>2. agents' = [agents EXCEPT !.now = new]
      BY <1>2 DEF StartSession
    <2> HIDE DEF new
    <2> QED BY <1>1, <2>1, <2>2
  <1>3. CASE RunnerStep /\ ~StartSession
    <2>1. UNCHANGED agents
      BY <1>3 DEF RunnerStep, Launch, Begin, ControlRead, Act, Partition, Finalize, GiveUp, Settle, Select, Claim, Work, EndTurn,
           FailSession, Escalate, NextProposal, Reserve, CreateTicket, CompleteBlockers, CreateFails, File, Complete, Others
    <2> QED BY <1>1, <2>1
  <1>4. ASSUME NEW a \in {"now", "old"}, AgentStep(a) PROVE agents' \in [now : Agents, old : Agents]
    <2>1. PICK new : /\ agents[a] \in Agents /\ agents[a].on /\ Says(agents[a])
                     /\ agents' = [agents EXCEPT ![a] = new]
                     /\ \/ CheckTerminal(a) /\ Checked(agents[a], new)
                        \/ Deposit(a) /\ new = [agents[a] EXCEPT !.on = FALSE, !.at = "deposited", !.says = <<>>]
      BY <1>4, AgentsStep
    <2>2. new \in Agents
      <3>1. <<>> \in Seq(Deposits)
        OBVIOUS
      <3>2. CASE Checked(agents[a], new)
        BY <2>1, <3>2, CheckedType
      <3>3. CASE new = [agents[a] EXCEPT !.on = FALSE, !.at = "deposited", !.says = <<>>]
        BY <2>1, <3>1, <3>3 DEF Agents
      <3> QED BY <2>1, <3>2, <3>3
    <2> QED BY <1>1, <2>1, <2>2
  <1>5. CASE AgentFails
    <2> DEFINE new == [agents.now EXCEPT !.on = FALSE, !.at = "failed", !.says = <<>>]
    <2>1. new \in Agents
      <3>1. <<>> \in Seq(Deposits)
        OBVIOUS
      <3> QED BY <1>1, <3>1 DEF Agents
    <2>2. agents' = [agents EXCEPT !.now = new]
      BY <1>1, <1>5 DEF AgentFails
    <2> HIDE DEF new
    <2> QED BY <1>1, <2>1, <2>2
  <1>6. CASE Crash \/ Shutdown
    <2> DEFINE left == IF agents.now.on /\ ~agents.old.on THEN agents.now ELSE agents.old
    <2>1. left \in Agents /\ agents.now \in Agents /\ agents.old \in Agents
      BY <1>1
    <2> HIDE DEF left
    <2>2. agents' = [now |-> NoAgent, old |-> left] \/ agents' = [agents EXCEPT !.now = NoAgent]
      BY <1>6 DEF Crash, Shutdown, left
    <2> QED BY <1>1, <2>1, <2>2, NoAgentType
  <1>7. CASE BeforeListing \/ List \/ AfterListing \/ UNCHANGED vars
             \/ \E command \in {"pause", "resume"} : Request(command)
    BY <1>1, <1>7 DEF BeforeListing, List, AfterListing, vars, Request
  <1> QED BY <1>2, <1>3, <1>4, <1>5, <1>6, <1>7 DEF Next

LEMMA TicketsType ==
  ASSUME JournalInv, [Next]_vars
  PROVE  tickets' \in [DOMAIN tickets' -> Tickets] /\ DOMAIN tickets' \subseteq Nat
PROOF
  <1>1. tickets \in [DOMAIN tickets -> Tickets] /\ DOMAIN tickets \subseteq Nat /\ runner \in Runners
    BY DEF JournalInv, TypeOK
  <1>2. CASE CreateTicket
    <2>1. tickets' = IF runner.key \in DOMAIN tickets THEN tickets
                     ELSE [k \in DOMAIN tickets \cup {runner.key} |->
                             IF k = runner.key THEN [cluster |-> runner.cluster, whole |-> FALSE] ELSE tickets[k]]
      BY <1>2 DEF CreateTicket
    <2>2. runner.cluster \in Clusters /\ runner.key \in Nat
      BY <1>1, <1>2 DEF CreateTicket, JournalInv, Reserving, Filed, Runners
    <2> QED BY <1>1, <2>1, <2>2 DEF Tickets
  <1>3. CASE CompleteBlockers
    <2>1. tickets' = [tickets EXCEPT ![runner.key].whole = TRUE]
      BY <1>3 DEF CompleteBlockers
    <2> QED BY <1>1, <2>1 DEF Tickets
  <1>4. ASSUME UNCHANGED tickets
        PROVE  tickets' \in [DOMAIN tickets' -> Tickets] /\ DOMAIN tickets' \subseteq Nat
    BY <1>1, <1>4
  <1>5. CASE RunnerStep /\ ~CreateTicket /\ ~CompleteBlockers
    <2>1. UNCHANGED tickets
      BY <1>5 DEF RunnerStep, Launch, Begin, ControlRead, Act, Partition, Finalize, GiveUp, Settle, Select, Claim, Work, StartSession,
           EndTurn, FailSession, Escalate, NextProposal, Reserve, CreateFails, File, Complete, Others
    <2> QED BY <1>4, <2>1
  <1>6. ASSUME NEW a \in {"now", "old"}, AgentStep(a) PROVE UNCHANGED tickets
    BY <1>6 DEF AgentStep, CheckTerminal, Deposit
  <1>7. CASE AgentFails \/ Crash \/ Shutdown \/ BeforeListing \/ List \/ AfterListing \/ UNCHANGED vars
             \/ \E command \in {"pause", "resume"} : Request(command)
    BY <1>4, <1>7 DEF AgentFails, Crash, Shutdown, BeforeListing, List, AfterListing, vars, Request
  <1> QED BY <1>2, <1>3, <1>4, <1>5, <1>6, <1>7 DEF Next

Scans == [at : {"none", "before", "listed"}, held : SUBSET Nat, known : SUBSET (Runs \X Clusters),
          idle : SUBSET Nat, listed : SUBSET [key : Nat, whole : BOOLEAN]]

LEMMA KeysOfType ==
  ASSUME JournalInv, NEW S \in SUBSET Reserved
  PROVE  KeysOf(S) \subseteq Nat /\ S \subseteq Runs \X Clusters
PROOF
  <1>1. \A p \in S : p[1] \in Runs /\ p[2] \in Clusters
    BY DEF Reserved
  <1>2. ASSUME NEW r \in Runs, NEW c \in Clusters PROVE journal.runs[r].key[c] \in Nat
    BY LastProposals DEF RunStates
  <1> QED BY <1>1, <1>2 DEF KeysOf, Reserved

LEMMA ScanType ==
  ASSUME JournalInv, [Next]_vars
  PROVE  scan' \in Scans
PROOF
  <1>1. scan \in Scans /\ tickets \in [DOMAIN tickets -> Tickets] /\ DOMAIN tickets \subseteq Nat
    BY DEF JournalInv, TypeOK, Scans
  <1>2. CASE BeforeListing
    <2> DEFINE held == KeysOf(InFlight)
               idle == KeysOf({p \in Reserved : p[1] \notin Running})
    <2>1. held \subseteq Nat /\ idle \subseteq Nat /\ Reserved \subseteq Runs \X Clusters
      BY KeysOfType DEF InFlight
    <2>2. scan' = [NoScan EXCEPT !.at = "before", !.held = held, !.known = Reserved, !.idle = idle]
      BY <1>2 DEF BeforeListing
    <2> HIDE DEF held, idle
    <2> QED BY <2>1, <2>2 DEF NoScan, Scans
  <1>3. CASE List
    <2> DEFINE listed == {[key |-> k, whole |-> tickets[k].whole] : k \in DOMAIN tickets}
    <2>1. listed \subseteq [key : Nat, whole : BOOLEAN]
      BY <1>1 DEF Tickets
    <2>2. scan' = [scan EXCEPT !.at = "listed", !.listed = listed]
      BY <1>3 DEF List
    <2> HIDE DEF listed
    <2> QED BY <1>1, <2>1, <2>2 DEF Scans
  <1>4. CASE AfterListing
    BY <1>4 DEF AfterListing, NoScan, Scans
  <1>5. CASE RunnerStep
    <2>1. UNCHANGED scan
      BY <1>5 DEF RunnerStep, Launch, Begin, ControlRead, Act, Partition, Finalize, GiveUp, Settle, Select, Claim, Work, StartSession,
           EndTurn, FailSession, Escalate, NextProposal, Reserve, CreateTicket, CompleteBlockers, CreateFails, File, Complete,
           Others
    <2> QED BY <1>1, <2>1
  <1>6. ASSUME NEW a \in {"now", "old"}, AgentStep(a) PROVE UNCHANGED scan
    BY <1>6 DEF AgentStep, CheckTerminal, Deposit
  <1>7. CASE AgentFails \/ Crash \/ Shutdown \/ UNCHANGED vars \/ \E command \in {"pause", "resume"} : Request(command)
    <2>1. UNCHANGED scan
      BY <1>7 DEF AgentFails, Crash, Shutdown, vars, Request
    <2> QED BY <1>1, <2>1
  <1> QED BY <1>1, <1>2, <1>3, <1>4, <1>5, <1>6, <1>7 DEF Next

LEMMA SpentType ==
  ASSUME JournalInv, [Next]_vars
  PROVE  spent' \in [requests : Nat, faults : Nat, stops : Nat, scans : Nat]
PROOF
  <1>1. spent \in [requests : Nat, faults : Nat, stops : Nat, scans : Nat]
    BY DEF JournalInv, TypeOK
  <1>2. CASE UNCHANGED spent
    BY <1>1, <1>2
  <1>3. CASE CreateFails \/ AgentFails
    <2>1. spent' = [spent EXCEPT !.faults = @ + 1]
      BY <1>3 DEF CreateFails, AgentFails
    <2> QED BY <1>1, <2>1
  <1>4. CASE RunnerStep /\ ~CreateFails
    <2>1. UNCHANGED spent
      BY <1>4 DEF RunnerStep, Launch, Begin, ControlRead, Act, Partition, Finalize, GiveUp, Settle, Select, Claim, Work, StartSession,
           EndTurn, FailSession, Escalate, NextProposal, Reserve, CreateTicket, CompleteBlockers, File, Complete, Others
    <2> QED BY <1>2, <2>1
  <1>5. CASE Crash \/ Shutdown
    <2>1. spent' = [spent EXCEPT !.stops = @ + 1]
      BY <1>5 DEF Crash, Shutdown
    <2> QED BY <1>1, <2>1
  <1>6. CASE BeforeListing
    <2>1. spent' = [spent EXCEPT !.scans = @ + 1]
      BY <1>6 DEF BeforeListing
    <2> QED BY <1>1, <2>1
  <1>7. ASSUME NEW command \in {"pause", "resume"}, Request(command)
        PROVE  spent' \in [requests : Nat, faults : Nat, stops : Nat, scans : Nat]
    BY <1>1, <1>7 DEF Request
  <1>8. ASSUME NEW a \in {"now", "old"}, AgentStep(a) PROVE UNCHANGED spent
    BY <1>8 DEF AgentStep, CheckTerminal, Deposit
  <1>9. CASE List \/ AfterListing \/ UNCHANGED vars
    BY <1>2, <1>9 DEF List, AfterListing, vars
  <1> QED BY <1>2, <1>3, <1>4, <1>5, <1>6, <1>7, <1>8, <1>9 DEF Next

LEMMA TypesNext ==
  ASSUME JournalInv, [Next]_vars
  PROVE  TypeOK'
  BY JournalNext, RunnerType, AgentsType, TicketsType, ScanType, SpentType DEF TypeOK, Journals, Scans

-----------------------------------------------------------------------------
(***************************************************************************)
(* A run that was started keeps its claim, its terminals and its keys, and *)
(* only a claim starts one.                                                *)
(***************************************************************************)
Prefix(s, t) == Len(s) <= Len(t) /\ \A i \in DOMAIN s : t[i] = s[i]

Extended(run, new) ==
  /\ run.status # "none" => new.status # "none" /\ new.obs = run.obs
  /\ Prefix(run.proposals, new.proposals) /\ Prefix(run.reviews, new.reviews)
  /\ \A c \in Clusters : run.key[c] # 0 => new.key[c] = run.key[c]

LEMMA SelfExtended ==
  ASSUME NEW run \in RunStates
  PROVE  Extended(run, run)
  BY DEF RunStates, Extended, Prefix

LEMMA GrownByOne ==
  ASSUME JournalInv, NEW r \in Runs, NEW new, Appended(r, new), Extended(journal.runs[r], new)
  PROVE  \A s \in Runs : Extended(journal.runs[s], journal'.runs[s])
  BY LastProposals, SelfExtended DEF Appended

LEMMA AppendIsPrefix ==
  ASSUME NEW S, NEW s \in Seq(S), NEW x \in S
  PROVE  Prefix(s, Append(s, x)) /\ Prefix(s, s)
  BY DEF Prefix

LEMMA RunsGrow ==
  ASSUME JournalInv, [Next]_vars
  PROVE  \A s \in Runs : Extended(journal.runs[s], journal'.runs[s])
PROOF
  <1>1. CASE WorkKept
    <2> SUFFICES ASSUME NEW s \in Runs
                 PROVE  Extended(journal.runs[s], journal'.runs[s])
      OBVIOUS
    <2>1. SameWork(journal.runs[s], journal'.runs[s])
      BY <1>1 DEF WorkKept
    <2>2. Extended(journal.runs[s], journal.runs[s])
      BY LastProposals, SelfExtended
    <2> QED BY <2>1, <2>2 DEF SameWork, Extended
  <1>2. CASE Claim
    <2> DEFINE r == Oldest(StatusIs("none"))
               new == [NoRun EXCEPT !.status = "running", !.obs = Unclaimed]
    <2>1. r \in Runs /\ journal.runs[r].status = "none" /\ Appended(r, new)
      BY <1>2, ClaimEffect
    <2> HIDE DEF r
    <2>2. journal.runs[r] = NoRun
      BY <2>1 DEF JournalInv, Fresh
    <2>3. Extended(NoRun, new)
      BY DEF Extended, Prefix, NoRun
    <2> HIDE DEF new
    <2> QED BY <2>1, <2>2, <2>3, GrownByOne
  <1>3. CASE GiveUp
    <2> DEFINE run == journal.runs[runner.dec.run]
               new == [run EXCEPT !.exhausted = "barrier", !.released = runner.released]
    <2>1. runner.dec.run \in Runs /\ run \in RunStates /\ Appended(runner.dec.run, new)
      BY <1>3, GiveUpEffect
    <2>2. Extended(run, new)
      BY <2>1 DEF RunStates, Extended, Prefix
    <2> HIDE DEF new
    <2> QED BY <2>1, <2>2, GrownByOne
  <1>4. CASE Reserve
    <2> DEFINE run == journal.runs[runner.run]
    <2>1. PICK c \in Clusters :
            /\ runner.run \in Runs /\ run \in RunStates /\ run.key[c] = 0
            /\ Appended(runner.run, [run EXCEPT !.key[c] = NewKey])
      BY <1>4, ReserveEffect
    <2> DEFINE new == [run EXCEPT !.key[c] = NewKey]
    <2>2. Extended(run, new)
      BY <2>1 DEF RunStates, Extended, Prefix
    <2> HIDE DEF new
    <2> QED BY <2>1, <2>2, GrownByOne DEF new
  <1>5. CASE File
    <2> DEFINE run == journal.runs[runner.run]
               new == [run EXCEPT !.filed = @ \cup {runner.cluster}]
    <2>1. runner.run \in Runs /\ run \in RunStates /\ Appended(runner.run, new)
      BY <1>5, FileEffect
    <2>2. Extended(run, new)
      BY <2>1 DEF RunStates, Extended, Prefix
    <2> HIDE DEF new
    <2> QED BY <2>1, <2>2, GrownByOne
  <1>6. ASSUME NEW a \in {"now", "old"}, Deposit(a)
        PROVE  \A s \in Runs : Extended(journal.runs[s], journal'.runs[s])
    <2> DEFINE r == agents[a].run
               run == journal.runs[r]
               new == DepositedRun(run, agents[a])
    <2>1. r \in Runs /\ run \in RunStates /\ Appended(r, new)
      BY <1>6, DepositEffect
    <2>2. Extended(run, new)
      <3> DEFINE agent == agents[a]
      <3>1. agent \in Agents /\ Says(agent) /\ Len(agent.says) = 1
        BY <1>6, DepositEffect DEF Deposit, Says
      <3>2. agent.says[1] \in Deposits
        BY <3>1, HeadOf DEF Agents
      <3>3. run.proposals \in Seq(ProposalSets(Observations)) /\ run.reviews \in Seq(Reviews)
        BY <2>1 DEF RunStates
      <3>4. CASE agent.step = "synthesize"
        <4>1. Prefix(run.proposals, Append(run.proposals, agent.says[1].of)) /\ Prefix(run.reviews, run.reviews)
          <5>1. agent.says[1].of \in ProposalSets(Observations)
            BY <3>2 DEF Deposits
          <5>2. Prefix(run.reviews, run.reviews)
            BY <3>3 DEF Prefix
          <5> QED BY <3>3, <5>1, <5>2, AppendIsPrefix
        <4>2. new = [run EXCEPT !.proposals = Append(@, agent.says[1].of)]
          BY <3>4 DEF DepositedRun
        <4> HIDE DEF new, agent
        <4> QED BY <2>1, <4>1, <4>2 DEF RunStates, Extended
      <3>5. CASE agent.step # "synthesize"
        <4>1. Prefix(run.reviews, Append(run.reviews, agent.says[1])) /\ Prefix(run.proposals, run.proposals)
          <5>1. agent.says[1] \in Reviews
            BY <1>6, <3>1, <3>5 DEF Deposit, Says, Agents
          <5>2. Prefix(run.proposals, run.proposals)
            BY <3>3 DEF Prefix
          <5> QED BY <3>3, <5>1, <5>2, AppendIsPrefix
        <4>2. new = [run EXCEPT !.reviews = Append(@, agent.says[1])]
          BY <3>5 DEF DepositedRun
        <4> HIDE DEF new, agent
        <4> QED BY <2>1, <4>1, <4>2 DEF RunStates, Extended
      <3> QED BY <3>4, <3>5
    <2> HIDE DEF new
    <2> QED BY <2>1, <2>2, GrownByOne
  <1> QED BY <1>1, <1>2, <1>3, <1>4, <1>5, <1>6, StepKinds

LEMMA NoneStays ==
  ASSUME JournalInv, [Next]_vars, ~Claim
  PROVE  StatusIs("none") # {} => StatusIs("none")' # {}
PROOF
  <1>1. ASSUME NEW r \in Runs, NEW new, Appended(r, new), journal.runs[r].status # "none"
        PROVE  \A s \in Runs : journal.runs[s].status = "none" => journal'.runs[s].status = "none"
    BY <1>1 DEF Appended
  <1>2. \A s \in Runs : journal.runs[s].status = "none" => journal'.runs[s].status = "none"
    <2>1. CASE WorkKept
      BY <2>1 DEF WorkKept
    <2>2. CASE GiveUp
      <3>1. \E r \in Runs : \E new : Appended(r, new) /\ journal.runs[r].status = "failed"
        BY <2>2, GiveUpEffect
      <3> QED BY <3>1, <1>1
    <2>3. CASE Reserve
      <3>1. \E r \in Runs : \E new : Appended(r, new) /\ journal.runs[r].status # "none"
        BY <2>3, ReserveEffect
      <3> QED BY <3>1, <1>1
    <2>4. CASE File
      <3>1. \E r \in Runs : \E new : Appended(r, new) /\ journal.runs[r].status # "none"
        BY <2>4, FileEffect
      <3> QED BY <3>1, <1>1
    <2>5. ASSUME NEW a \in {"now", "old"}, Deposit(a)
          PROVE  \E r \in Runs : \E new : Appended(r, new) /\ journal.runs[r].status # "none"
      BY <2>5, DepositEffect
    <2> QED BY <1>1, <2>1, <2>2, <2>3, <2>4, <2>5, StepKinds
  <1> QED BY <1>2 DEF StatusIs

-----------------------------------------------------------------------------
(***************************************************************************)
(* Where everybody stands.                                                 *)
(***************************************************************************)
\* The part of OnRun that is about the runner alone, and about the run it is on.
Placed(w) ==
  /\ w.pc \in {"off", "begin", "select", "claim"} \/ w.next \in {"select", "claim"} => w.run = 0
  /\ w.pc \in AtRun => w.next = "work"
  /\ w.pc = "claim" => w.next = "claim"
  /\ w.pc \in {"control", "act"} => w.next # "off"
  /\ w.next = "work" => w.run # 0
  /\ w.run = 0 => w.artifact = <<>> /\ w.verdict = "none"

LEMMA OnRunParts ==
  ASSUME JournalInv, [Next]_vars, Placed(runner'), runner'.next = "claim" => StatusIs("none")' # {},
         runner'.run # 0 => runner'.run = runner.run \/ (runner'.run \in Runs /\ journal'.runs[runner'.run].status # "none")
  PROVE  OnRun'
PROOF
  <1>1. runner'.run # 0 => journal'.runs[runner'.run].status # "none"
    <2>1. CASE runner'.run = runner.run /\ runner.run # 0
      <3>1. runner.run \in Runs /\ journal.runs[runner.run].status # "none"
        BY <2>1 DEF JournalInv, TypeOK, Runners, OnRun
      <3> QED BY <2>1, <3>1, JournalNext
    <2> QED BY <2>1
  <1> QED BY <1>1 DEF OnRun, Placed

LEMMA OffPlaced == Placed(Off)
  BY DEF Off, Placed, AtRun, Files, Filed

LEMMA ControlOnRun ==
  ASSUME JournalInv, [Next]_vars,
         Launch \/ Begin \/ ControlRead \/ Act \/ Partition \/ Finalize \/ GiveUp \/ Settle \/ Select \/ Claim
  PROVE  OnRun'
PROOF
  <1>1. runner \in Runners /\ OnRun
    BY DEF JournalInv, TypeOK
  <1>2. ~Claim /\ runner.next = "claim" => StatusIs("none")' # {}
    BY <1>1, NoneStays DEF OnRun
  <1>3. ASSUME runner' = Off PROVE OnRun'
    BY <1>3, OffPlaced, OnRunParts DEF Off
  <1>4. CASE Launch
    <2>1. runner' = [runner EXCEPT !.pc = "begin"] /\ runner.pc = "off"
      BY <1>4 DEF Launch, Go
    <2>2. Placed(runner') /\ runner'.run = runner.run /\ runner'.next = runner.next
      BY <1>1, <2>1 DEF OnRun, Placed, Runners, AtRun, Files, Filed
    <2> QED BY <2>1, <2>2, <1>2, <1>4, OnRunParts DEF Launch, Claim
  <1>5. CASE Begin
    <2>1. runner' = [runner EXCEPT !.pc = "control", !.next = "select"] /\ runner.pc = "begin"
      BY <1>5 DEF Begin, Control
    <2>2. Placed(runner') /\ runner'.run = runner.run /\ runner'.next = "select"
      BY <1>1, <2>1 DEF OnRun, Placed, Runners, AtRun, Files, Filed
    <2> QED BY <2>2, OnRunParts
  <1>6. CASE ControlRead
    <2>1. runner.pc = "control" /\ \/ runner' = [runner EXCEPT !.pc = runner.next] \/ runner' = Off
                                   \/ runner' = [runner EXCEPT !.pc = "act", !.dec = Decision]
      BY <1>6 DEF ControlRead, Go, Stop
    <2>2. CASE runner' # Off
      <3>1. Placed(runner') /\ runner'.run = runner.run /\ runner'.next = runner.next
        BY <1>1, <2>1, <2>2 DEF OnRun, Placed, Runners, AtRun, Files, Filed
      <3> QED BY <2>1, <3>1, <1>2, OnRunParts DEF Claim
    <2> QED BY <1>3, <2>2
  <1>7. CASE Act
    <2>1. runner.dec.kind \in {"pause", "resume", "request", "exhaust"}
      BY <1>7 DEF Act, JournalInv, Decided
    <2>2. runner.pc = "act" /\ \E pc \in {"control", "partition"} : runner' = [runner EXCEPT !.pc = pc]
      BY <1>7, <2>1 DEF Act, Go
    <2>3. Placed(runner') /\ runner'.run = runner.run /\ runner'.next = runner.next
      BY <1>1, <2>2 DEF OnRun, Placed, Runners, AtRun, Files, Filed
    <2> QED BY <2>2, <2>3, <1>2, OnRunParts DEF Claim
  <1>8. CASE Partition \/ Finalize \/ GiveUp
    <2>1. /\ runner.pc \in {"partition", "finalize", "giveup"}
          /\ \/ runner' = Off \/ runner' = [runner EXCEPT !.pc = "giveup"]
             \/ runner.next # "off" /\ runner' = [runner EXCEPT !.pc = "control", !.released = {}]
             \/ \E released : runner' = [runner EXCEPT !.pc = "finalize", !.released = released]
      BY <1>8, BackOrOn DEF Partition, Finalize, GiveUp, Stop
    <2>2. CASE runner' # Off
      <3>1. Placed(runner') /\ runner'.run = runner.run /\ runner'.next = runner.next
        BY <1>1, <2>1, <2>2 DEF OnRun, Placed, Runners, AtRun, Files, Filed
      <3> QED BY <2>1, <3>1, <1>2, OnRunParts DEF Claim
    <2> QED BY <1>3, <2>2
  <1>9. CASE Settle
    <2>1. /\ runner.pc = "settle"
          /\ runner' = Off \/ runner' = [runner EXCEPT !.pc = "partition", !.next = "off", !.dec = Decision]
      BY <1>9 DEF Settle, Stop
    <2>2. CASE runner' # Off
      <3>1. runner'.pc = "partition" /\ runner'.run = runner.run /\ runner'.next = "off"
        BY <1>1, <2>1, <2>2 DEF Runners
      <3>2. runner'.artifact = runner.artifact /\ runner'.verdict = runner.verdict /\ runner.run # 0
        BY <1>1, <2>1, <2>2 DEF Runners, OnRun, AtRun
      <3>3. Placed(runner')
        BY <3>1, <3>2 DEF Placed, AtRun, Files, Filed
      <3> QED BY <3>1, <3>3, OnRunParts
    <2> QED BY <1>3, <2>2
  <1>10. CASE Select
    <2>1. Running # {} => Oldest(Running) \in Running
      BY OldestRun DEF Running, StatusIs
    <2>2. /\ runner.pc = "select" /\ UNCHANGED journal
          /\ \/ runner' = Off
             \/ StatusIs("none") # {} /\ runner' = [runner EXCEPT !.pc = "control", !.next = "claim"]
             \/ Running # {} /\ runner' = [runner EXCEPT !.pc = "control", !.next = "work", !.run = Oldest(Running)]
      BY <1>10 DEF Select, Stop, Control
    <2>3. CASE StatusIs("none") # {} /\ runner' = [runner EXCEPT !.pc = "control", !.next = "claim"]
      <3>1. Placed(runner') /\ runner'.run = runner.run
        BY <1>1, <2>2, <2>3 DEF OnRun, Placed, Runners, AtRun, Files, Filed
      <3>2. StatusIs("none")' # {}
        BY <2>2, <2>3, NoneStays DEF Claim
      <3> QED BY <3>1, <3>2, OnRunParts
    <2>4. CASE Running # {} /\ runner' = [runner EXCEPT !.pc = "control", !.next = "work", !.run = Oldest(Running)]
      <3> DEFINE r == Oldest(Running)
      <3>1. r \in Runs /\ journal.runs[r].status = "running" /\ r # 0
        BY <2>1, <2>4 DEF Running, StatusIs, Runs
      <3> HIDE DEF r
      <3>2. runner' = [runner EXCEPT !.pc = "control", !.next = "work", !.run = r]
        BY <2>4 DEF r
      <3>3. Placed(runner') /\ runner'.run = r /\ runner'.next = "work"
        BY <1>1, <2>2, <3>1, <3>2 DEF OnRun, Placed, Runners, AtRun, Files, Filed
      <3>4. journal'.runs[r].status # "none"
        BY <2>2, <3>1
      <3> QED BY <3>1, <3>3, <3>4, OnRunParts
    <2> QED BY <1>3, <2>2, <2>3, <2>4
  <1>11. CASE Claim
    <2> DEFINE r == Oldest(StatusIs("none"))
    <2>1. r \in Runs /\ r # 0 /\ journal'.runs[r].status # "none"
      <3> DEFINE new == [NoRun EXCEPT !.status = "running", !.obs = Unclaimed]
      <3>1. r \in Runs /\ Appended(r, new)
        BY <1>11, ClaimEffect
      <3>2. new.status # "none"
        BY DEF NoRun
      <3> HIDE DEF r, new
      <3> QED BY <3>1, <3>2 DEF Appended, Runs
    <2>2. runner.pc = "claim" /\ runner' = [runner EXCEPT !.pc = "control", !.next = "work", !.run = r]
      BY <1>11 DEF Claim
    <2> HIDE DEF r
    <2>3. Placed(runner') /\ runner'.run = r /\ runner'.next = "work"
      BY <1>1, <2>1, <2>2 DEF OnRun, Placed, Runners, AtRun, Files, Filed
    <2> QED BY <2>1, <2>3, OnRunParts
  <1> QED BY <1>4, <1>5, <1>6, <1>7, <1>8, <1>9, <1>10, <1>11

LEMMA RunnerOnRun ==
  ASSUME JournalInv, [Next]_vars, RunnerStep,
         ~(Launch \/ Begin \/ ControlRead \/ Act \/ Partition \/ Finalize \/ GiveUp \/ Settle \/ Select \/ Claim)
  PROVE  OnRun'
PROOF
  <1>1. runner \in Runners /\ OnRun
    BY DEF JournalInv, TypeOK
  <1>2. ASSUME runner' = Off PROVE OnRun'
    BY <1>2, OffPlaced, OnRunParts DEF Off
  <1>3. ASSUME runner.pc \in AtRun, runner'.pc \in AtRun \cup {"control"}, runner'.next = "work", runner'.run = runner.run
        PROVE  OnRun'
    <2>1. runner.run # 0
      BY <1>1, <1>3 DEF OnRun
    <2>2. Placed(runner')
      BY <1>3, <2>1 DEF Placed, AtRun, Files, Filed
    <2> QED BY <1>3, <2>2, OnRunParts
  <1>4. CASE Work
    <2> DEFINE run == journal.runs[runner.run]
               verdict == Verdict(run)
               step == IF run.proposals = <<>> THEN "synthesize" ELSE "review"
               artifact == IF runner.artifact # <<>> \/ run.proposals = <<>> THEN runner.artifact
                           ELSE <<Last(run.proposals)>>
               pc == CASE verdict = "approve" -> "file"
                       [] verdict = "escalate" -> "escalate"
                       [] OTHER -> IF SpentBudget(run, step) THEN "settle" ELSE step
    <2>1. runner.pc = "work" /\ runner' = [runner EXCEPT !.artifact = artifact, !.verdict = verdict, !.pc = pc]
      BY <1>4 DEF Work
    <2>2. pc \in {"file", "escalate", "settle", "synthesize", "review"}
      <3>1. step \in {"synthesize", "review"}
        OBVIOUS
      <3> HIDE DEF verdict, step
      <3> QED BY <3>1
    <2> HIDE DEF pc, artifact, verdict
    <2>3. runner.pc \in AtRun /\ runner'.pc \in AtRun /\ runner'.next = "work" /\ runner'.run = runner.run
      BY <1>1, <2>1, <2>2 DEF OnRun, AtRun, Files, Filed, Runners
    <2> QED BY <1>3, <2>3
  <1>5. CASE EndTurn
    <2> DEFINE pc == IF agents.now.at = "deposited" THEN "control" ELSE "failing"
    <2>1. runner.pc = "turn" /\ \E artifact, verdict :
            runner' = [runner EXCEPT !.pc = pc, !.next = "work", !.artifact = artifact, !.verdict = verdict]
      BY <1>5 DEF EndTurn
    <2>2. pc \in {"control", "failing"}
      OBVIOUS
    <2> HIDE DEF pc
    <2>3. runner.pc \in AtRun /\ runner'.pc \in AtRun \cup {"control"} /\ runner'.next = "work" /\ runner'.run = runner.run
      BY <1>1, <2>1, <2>2 DEF AtRun, Files, Filed, Runners
    <2> QED BY <1>3, <2>3
  <1>6. CASE StartSession \/ FailSession \/ Escalate \/ CreateTicket \/ CompleteBlockers \/ CreateFails \/ File \/ Complete
    <2>1. runner.pc \in AtRun
      BY <1>6 DEF StartSession, FailSession, Escalate, CreateTicket, CompleteBlockers, CreateFails, File, Complete, AtRun, Files, Filed
    <2>2. runner' = Off \/ \E pc \in {"turn", "settle", "blockers", "filed", "file"} : runner' = [runner EXCEPT !.pc = pc]
      BY <1>6 DEF StartSession, FailSession, Escalate, CreateTicket, CompleteBlockers, CreateFails, File, Complete, Go, Stop
    <2>3. CASE runner' # Off
      <3>1. runner'.pc \in AtRun /\ runner'.next = "work" /\ runner'.run = runner.run
        BY <1>1, <2>1, <2>2, <2>3 DEF OnRun, AtRun, Files, Filed, Runners
      <3> QED BY <1>3, <2>1, <3>1
    <2> QED BY <1>2, <2>3
  <1>7. CASE NextProposal \/ Reserve
    <2>1. runner.pc \in {"file", "reserve"} /\ \E pc \in {"reserve", "create"} : \E set, key :
            runner' = [runner EXCEPT !.cluster = set, !.key = key, !.pc = pc]
      <3>1. CASE Reserve
        <4>1. runner' = [runner EXCEPT !.cluster = runner.cluster, !.key = NewKey, !.pc = "create"]
          BY <1>1, <3>1 DEF Reserve, Runners
        <4> QED BY <3>1, <4>1 DEF Reserve
      <3>2. CASE NextProposal
        <4>1. PICK c \in Unfiled :
                runner' = [runner EXCEPT !.cluster = c, !.key = journal.runs[runner.run].key[c],
                                         !.pc = IF journal.runs[runner.run].key[c] = 0 THEN "reserve" ELSE "create"]
          BY <3>2 DEF NextProposal
        <4> DEFINE pc == IF journal.runs[runner.run].key[c] = 0 THEN "reserve" ELSE "create"
        <4>2. pc \in {"reserve", "create"}
          OBVIOUS
        <4>3. \E set, key : runner' = [runner EXCEPT !.cluster = set, !.key = key, !.pc = pc]
          BY <4>1
        <4> HIDE DEF pc
        <4> QED BY <3>2, <4>2, <4>3 DEF NextProposal
      <3> QED BY <1>7, <3>1, <3>2
    <2>2. runner.pc \in AtRun /\ runner'.pc \in AtRun /\ runner'.next = "work" /\ runner'.run = runner.run
      BY <1>1, <2>1 DEF OnRun, AtRun, Files, Filed, Runners
    <2> QED BY <1>3, <2>2
  <1> QED BY <1>4, <1>5, <1>6, <1>7 DEF RunnerStep

LEMMA OnRunNext ==
  ASSUME JournalInv, [Next]_vars
  PROVE  OnRun'
PROOF
  <1>1. CASE RunnerStep
    BY <1>1, ControlOnRun, RunnerOnRun
  <1>2. ASSUME runner' = Off PROVE OnRun'
    BY <1>2, OffPlaced, OnRunParts DEF Off
  <1>3. CASE Crash \/ Shutdown
    BY <1>2, <1>3 DEF Crash, Shutdown, Stop
  <1>4. ASSUME UNCHANGED runner, ~Claim PROVE OnRun'
    <2>1. Placed(runner') /\ runner'.run = runner.run /\ runner'.next = runner.next
      BY <1>4 DEF JournalInv, OnRun, Placed
    <2>2. runner.next = "claim" => StatusIs("none")' # {}
      BY <1>4, NoneStays DEF JournalInv, OnRun
    <2> QED BY <2>1, <2>2, OnRunParts
  <1>5. ~RunnerStep => ~Claim
    BY DEF RunnerStep
  <1>6. ASSUME NEW a \in {"now", "old"}, AgentStep(a) PROVE UNCHANGED runner
    BY <1>6 DEF AgentStep, CheckTerminal, Deposit
  <1>7. CASE AgentFails \/ BeforeListing \/ List \/ AfterListing \/ UNCHANGED vars
             \/ \E command \in {"pause", "resume"} : Request(command)
    <2>1. UNCHANGED runner
      BY <1>7 DEF AgentFails, BeforeListing, List, AfterListing, vars, Request
    <2> QED BY <1>1, <1>4, <1>5, <2>1
  <1> QED BY <1>1, <1>3, <1>4, <1>5, <1>6, <1>7 DEF Next

LEMMA SaysStays ==
  ASSUME JournalInv, [Next]_vars, NEW agent \in Agents, Says(agent)
  PROVE  Says(agent)'
PROOF
  <1>1. CASE agent.on
    <2>1. agent.run \in Runs
      BY <1>1 DEF Says, Agents
    <2>2. Extended(journal.runs[agent.run], journal'.runs[agent.run])
      BY <2>1, RunsGrow
    <2>3. /\ journal.runs[agent.run].proposals \in Seq(ProposalSets(Observations))
          /\ journal'.runs[agent.run].proposals \in Seq(ProposalSets(Observations))
      BY <2>1, LastProposals, JournalNext DEF Journals, RunStates
    <2>4. journal.runs[agent.run].proposals # <<>> => journal'.runs[agent.run].proposals # <<>>
      BY <2>2, <2>3 DEF Extended, Prefix
    <2> QED BY <1>1, <2>1, <2>2, <2>4 DEF Says, Extended
  <1>2. CASE ~agent.on
    BY <1>2 DEF Says
  <1> QED BY <1>1, <1>2 DEF Agents

LEMMA AnsweredStays ==
  ASSUME JournalInv, [Next]_vars, NEW r \in Runs, NEW step, Answered(journal.runs[r], step)
  PROVE  Answered(journal'.runs[r], step)
PROOF
  <1>1. Extended(journal.runs[r], journal'.runs[r])
    BY RunsGrow
  <1>2. /\ journal.runs[r].proposals \in Seq(ProposalSets(Observations)) /\ journal'.runs[r].proposals \in Seq(ProposalSets(Observations))
        /\ journal.runs[r].reviews \in Seq(Reviews) /\ journal'.runs[r].reviews \in Seq(Reviews)
    BY LastProposals, JournalNext DEF Journals, RunStates
  <1> QED BY <1>1, <1>2 DEF Extended, Prefix, Answered

\* What the runner knows of the session whose turn it runs.
Turn == runner.pc \in {"turn", "failing"} =>
  /\ agents.now.run = runner.run /\ agents.now.step # "none"
  /\ agents.now.at = "deposited" => Answered(journal.runs[runner.run], agents.now.step)

LEMMA TurnStays ==
  ASSUME JournalInv, [Next]_vars, Turn,
         runner'.pc \in {"turn", "failing"} => runner.pc \in {"turn", "failing"} /\ runner'.run = runner.run,
         agents'.now.run = agents.now.run, agents'.now.step = agents.now.step,
         agents'.now.at = "deposited" => agents.now.at = "deposited"
  PROVE  Turn'
PROOF
  <1>1. runner.pc \in {"turn", "failing"} => runner.run \in Runs
    BY AtClaimed DEF AtRun
  <1> QED BY <1>1, AnsweredStays DEF Turn

LEMMA RunnerTurns ==
  ASSUME JournalInv, [Next]_vars, RunnerStep
  PROVE  Says(agents.now)' /\ Says(agents.old)' /\ Turn'
PROOF
  <1>1. runner \in Runners /\ agents \in [now : Agents, old : Agents] /\ Says(agents.now) /\ Says(agents.old) /\ Turn
    BY DEF JournalInv, TypeOK, OnAgents, Turn
  <1>2. ASSUME NEW agent \in Agents, Says(agent) PROVE Says(agent)'
    BY <1>2, SaysStays
  <1>3. agents'.old = agents.old => Says(agents.old)'
    BY <1>1, <1>2 DEF Says
  <1>4. agents'.now = agents.now => Says(agents.now)'
    BY <1>1, <1>2 DEF Says
  <1>5. CASE StartSession
    <2> DEFINE new == [on |-> TRUE, run |-> runner.run, step |-> runner.pc, at |-> "working", says |-> <<>>]
    <2>1. agents'.now = new /\ agents'.old = agents.old /\ runner' = [runner EXCEPT !.pc = "turn"]
      BY <1>1, <1>5 DEF StartSession, Go
    <2>2. runner.pc \in {"synthesize", "review"}
      BY <1>5 DEF StartSession
    <2>3. runner.run \in Runs /\ journal.runs[runner.run].status # "none" /\ runner.run # 0
      BY <2>2, AtClaimed DEF AtRun, Runs
    <2>4. journal'.runs[runner.run].status # "none"
      BY <2>3, JournalNext
    <2>5. Says(agents.now)'
      BY <2>1, <2>2, <2>3, <2>4 DEF Says
    <2>6. Turn'
      BY <1>1, <2>1, <2>2 DEF Turn, Runners
    <2> QED BY <1>3, <2>1, <2>5, <2>6
  <1>6. CASE EndTurn
    <2>1. UNCHANGED agents
      BY <1>6 DEF EndTurn, Others
    <2>2. runner.pc = "turn" /\ runner'.run = runner.run
      <3> DEFINE pc == IF agents.now.at = "deposited" THEN "control" ELSE "failing"
      <3>1. runner.pc = "turn" /\ \E artifact, verdict :
              runner' = [runner EXCEPT !.pc = pc, !.next = "work", !.artifact = artifact, !.verdict = verdict]
        BY <1>6 DEF EndTurn
      <3> QED BY <1>1, <3>1 DEF Runners
    <2>3. Turn'
      BY <1>1, <2>1, <2>2, TurnStays
    <2> QED BY <1>3, <1>4, <2>1, <2>3
  <1>7. CASE ~StartSession /\ ~EndTurn
    <2>1. UNCHANGED agents
      BY <1>7 DEF RunnerStep, Launch, Begin, ControlRead, Act, Partition, Finalize, GiveUp, Settle, Select, Claim, Work,
           FailSession, Escalate, NextProposal, Reserve, CreateTicket, CompleteBlockers, CreateFails, File, Complete, Others
    <2>2. runner'.pc \notin {"turn", "failing"}
      <3>1. CASE ControlRead
        <4>1. runner.next # "off"
          BY <3>1 DEF ControlRead, JournalInv, OnRun
        <4>2. \/ runner' = [runner EXCEPT !.pc = runner.next] \/ runner' = Off
              \/ runner' = [runner EXCEPT !.pc = "act", !.dec = Decision]
          BY <3>1 DEF ControlRead, Go, Stop
        <4>3. runner.next \in {"select", "claim", "work"}
          BY <1>1, <4>1 DEF Runners
        <4> QED BY <1>1, <4>2, <4>3, OffType DEF Runners
      <3>2. CASE Act
        <4>1. runner.dec.kind \in {"pause", "resume", "request", "exhaust"}
          BY <3>2 DEF Act, JournalInv, Decided
        <4> QED BY <1>1, <3>2, <4>1 DEF Act, Go, Runners
      <3>3. CASE Work
        <4> DEFINE verdict == Verdict(journal.runs[runner.run])
                   step == IF journal.runs[runner.run].proposals = <<>> THEN "synthesize" ELSE "review"
                   spentAll == SpentBudget(journal.runs[runner.run], step)
                   pc == CASE verdict = "approve" -> "file"
                           [] verdict = "escalate" -> "escalate"
                           [] OTHER -> IF spentAll THEN "settle" ELSE step
        <4>1. step \in {"synthesize", "review"}
          OBVIOUS
        <4>2. \E artifact : runner' = [runner EXCEPT !.artifact = artifact, !.verdict = verdict, !.pc = pc]
          BY <3>3 DEF Work
        <4> HIDE DEF verdict, step, spentAll
        <4>3. pc \in {"file", "escalate", "settle", "synthesize", "review"}
          BY <4>1
        <4> HIDE DEF pc
        <4> QED BY <1>1, <4>2, <4>3 DEF Runners
      <3>4. CASE NextProposal
        <4>1. PICK c \in Unfiled :
                runner' = [runner EXCEPT !.cluster = c, !.key = journal.runs[runner.run].key[c],
                                         !.pc = IF journal.runs[runner.run].key[c] = 0 THEN "reserve" ELSE "create"]
          BY <3>4 DEF NextProposal
        <4> QED BY <1>1, <4>1 DEF Runners
      <3>5. CASE Launch \/ Begin \/ Partition \/ Finalize \/ GiveUp \/ Settle \/ Claim
        <4>1. CASE Launch \/ Partition \/ Finalize \/ GiveUp
          <5>1. \/ runner' = Off \/ \E pc \in {"begin", "giveup"} : runner' = [runner EXCEPT !.pc = pc]
                \/ \E pc \in {"control", "finalize"} : \E released :
                     runner' = [runner EXCEPT !.pc = pc, !.released = released]
            BY <4>1, BackOrOn DEF Launch, GiveUp, Go, Stop
          <5> QED BY <1>1, <5>1, OffType DEF Runners
        <4>2. CASE Begin
          <5>1. runner' = [runner EXCEPT !.pc = "control", !.next = "select"]
            BY <4>2 DEF Begin, Control
          <5> QED BY <1>1, <5>1 DEF Runners
        <4>3. CASE Settle
          <5>1. runner' = Off \/ runner' = [runner EXCEPT !.pc = "partition", !.next = "off", !.dec = Decision]
            BY <4>3 DEF Settle, Stop
          <5> QED BY <1>1, <5>1, OffType DEF Runners
        <4>4. CASE Claim
          <5> DEFINE r == Oldest(StatusIs("none"))
          <5>1. runner' = [runner EXCEPT !.pc = "control", !.next = "work", !.run = r]
            BY <4>4 DEF Claim
          <5> HIDE DEF r
          <5> QED BY <1>1, <5>1 DEF Runners
        <4> QED BY <3>5, <4>1, <4>2, <4>3, <4>4
      <3>6. CASE Select
        <4>1. \/ runner' = Off \/ runner' = [runner EXCEPT !.pc = "control", !.next = "claim"]
              \/ runner' = [runner EXCEPT !.pc = "control", !.next = "work", !.run = Oldest(Running)]
          BY <3>6 DEF Select, Stop, Control
        <4> QED BY <1>1, <4>1, OffType DEF Runners
      <3>7. CASE FailSession \/ Escalate \/ CreateTicket \/ CompleteBlockers \/ CreateFails \/ File \/ Complete
        <4>1. runner' = Off \/ \E pc \in {"settle", "blockers", "filed", "file"} : runner' = [runner EXCEPT !.pc = pc]
          BY <3>7 DEF FailSession, Escalate, CreateTicket, CompleteBlockers, CreateFails, File, Complete, Go, Stop
        <4> QED BY <1>1, <4>1, OffType DEF Runners
      <3>8. CASE Reserve
        BY <1>1, <3>8 DEF Reserve, Runners
      <3> QED BY <1>7, <3>1, <3>2, <3>3, <3>4, <3>5, <3>6, <3>7, <3>8 DEF RunnerStep
    <2>3. Turn'
      BY <2>2 DEF Turn
    <2> QED BY <1>3, <1>4, <2>1, <2>3
  <1> QED BY <1>5, <1>6, <1>7

LEMMA OnAgentsNext ==
  ASSUME JournalInv, [Next]_vars
  PROVE  OnAgents'
PROOF
  <1>1. /\ runner \in Runners /\ agents \in [now : Agents, old : Agents]
        /\ Says(agents.now) /\ Says(agents.old) /\ Turn
    BY DEF JournalInv, TypeOK, OnAgents, Turn
  <1>2. ASSUME NEW agent \in Agents, Says(agent) PROVE Says(agent)'
    BY <1>2, SaysStays
  <1>3. agents'.old = agents.old => Says(agents.old)'
    BY <1>1, <1>2 DEF Says
  <1>4. agents'.now = agents.now => Says(agents.now)'
    BY <1>1, <1>2 DEF Says
  <1>5. ASSUME NEW new, ~new.on PROVE Says(new)'
    BY <1>5 DEF Says
  <1>6. CASE RunnerStep
    BY <1>6, RunnerTurns DEF OnAgents, Turn
  <1>7. ASSUME NEW a \in {"now", "old"}, AgentStep(a) PROVE OnAgents'
    <2>1. PICK new : /\ agents[a] \in Agents /\ agents[a].on /\ Says(agents[a])
                     /\ IF a = "now" THEN agents'.now = new /\ agents'.old = agents.old
                        ELSE agents'.now = agents.now /\ agents'.old = new
                     /\ \/ CheckTerminal(a) /\ Checked(agents[a], new)
                        \/ Deposit(a) /\ new = [agents[a] EXCEPT !.on = FALSE, !.at = "deposited", !.says = <<>>]
      BY <1>7, AgentsStep
    <2>2. UNCHANGED runner
      BY <1>7 DEF AgentStep, CheckTerminal, Deposit
    <2>3. CASE Checked(agents[a], new)
      <3>1. /\ new \in Agents /\ new.run = agents[a].run /\ new.step = agents[a].step /\ new.at \in {"checked", "refused"}
            /\ new.on => /\ new.at = "checked" /\ Len(new.says) = 1
                         /\ Admissible(agents[a]) /\ new.says[1] \in Terminals(agents[a])
        BY <2>1, <2>3, CheckedType
      <3>2. Says(new)
        <4>1. CASE new.on
          <5>1. new.step = "review" => new.says[1] \in Reviews /\ journal.runs[agents[a].run].proposals # <<>>
            BY <2>1, <3>1, <4>1, TerminalType
          <5> QED BY <2>1, <3>1, <5>1 DEF Says
        <4>2. CASE ~new.on
          BY <4>2 DEF Says
        <4> QED BY <3>1, <4>1, <4>2 DEF Agents
      <3>3. Says(new)'
        BY <1>2, <3>1, <3>2
      <3>4. Says(agents.now)' /\ Says(agents.old)'
        <4>1. CASE a = "now"
          BY <1>3, <2>1, <3>3, <4>1 DEF Says
        <4>2. CASE a = "old"
          BY <1>4, <2>1, <3>3, <4>2 DEF Says
        <4> QED BY <4>1, <4>2
      <3>5. Turn'
        <4>1. /\ agents'.now.run = agents.now.run /\ agents'.now.step = agents.now.step
              /\ agents'.now.at = "deposited" => agents.now.at = "deposited"
          <5>1. CASE a = "now"
            BY <2>1, <3>1, <5>1
          <5>2. CASE a = "old"
            BY <2>1, <5>2
          <5> QED BY <5>1, <5>2
        <4> QED BY <1>1, <2>2, <4>1, TurnStays
      <3> QED BY <3>4, <3>5 DEF OnAgents, Turn
    <2>4. CASE Deposit(a) /\ new = [agents[a] EXCEPT !.on = FALSE, !.at = "deposited", !.says = <<>>]
      <3>1. ~new.on /\ new.run = agents[a].run /\ new.step = agents[a].step
        BY <2>1, <2>4 DEF Agents
      <3>2. Says(new)'
        BY <1>5, <3>1
      <3>3. Says(agents.now)' /\ Says(agents.old)'
        <4>1. CASE a = "now"
          BY <1>3, <2>1, <3>2, <4>1 DEF Says
        <4>2. CASE a = "old"
          BY <1>4, <2>1, <3>2, <4>2 DEF Says
        <4> QED BY <4>1, <4>2
      <3>4. CASE a = "old"
        <4>1. agents'.now = agents.now
          BY <2>1, <3>4
        <4>2. Turn'
          BY <1>1, <2>2, <4>1, TurnStays
        <4> QED BY <3>3, <4>2 DEF OnAgents, Turn
      <3>5. CASE a = "now"
        <4> DEFINE r == agents.now.run
                   run == journal.runs[r]
        <4>1. agents'.now = new /\ agents[a] = agents.now
          BY <2>1, <3>5
        <4>2. r \in Runs /\ run \in RunStates /\ Appended(r, DepositedRun(run, agents[a])) /\ Len(agents.now.says) = 1
          BY <2>4, <4>1, DepositEffect DEF Deposit, Says
        <4>3. journal'.runs[r] = DepositedRun(run, agents.now)
          BY <4>1, <4>2 DEF Appended
        <4>4. Answered(journal'.runs[r], agents.now.step)
          <5>1. run.proposals \in Seq(ProposalSets(Observations)) /\ run.reviews \in Seq(Reviews)
            BY <4>2 DEF RunStates
          <5>2. agents.now.says \in Seq(Deposits)
            BY <1>1 DEF Agents
          <5>3. ASSUME NEW S, NEW s \in Seq(S), NEW x \in S PROVE Append(s, x) # <<>>
            <6>1. Append(s, x) \in Seq(S) /\ Len(Append(s, x)) = Len(s) + 1 /\ Len(s) \in Nat
              OBVIOUS
            <6>2. Len(Append(s, x)) # 0
              BY <6>1
            <6>3. Append(s, x) = <<>> => Len(Append(s, x)) = 0
              <7>1. Len(<<>>) = 0
                OBVIOUS
              <7> QED BY <7>1
            <6> QED BY <6>2, <6>3
          <5>4. agents.now.says[1] \in Deposits /\ (agents.now.step # "synthesize" => agents.now.says[1] \in Reviews)
            <6>1. agents.now.says[1] \in Deposits
              BY <4>2, <5>2, HeadOf
            <6>2. agents.now.on /\ agents.now.at = "checked" /\ agents.now.step \in {"none", "synthesize", "review"}
              BY <1>1, <2>4, <4>1 DEF Deposit, Agents
            <6> QED BY <1>1, <6>1, <6>2 DEF Says
          <5>5. CASE agents.now.step = "synthesize"
            <6>1. journal'.runs[r] = [run EXCEPT !.proposals = Append(@, agents.now.says[1].of)]
              BY <4>3, <5>5 DEF DepositedRun
            <6>2. journal'.runs[r].proposals = Append(run.proposals, agents.now.says[1].of)
              BY <4>2, <6>1 DEF RunStates
            <6>3. agents.now.says[1].of \in ProposalSets(Observations)
              BY <5>4 DEF Deposits
            <6>4. Append(run.proposals, agents.now.says[1].of) # <<>>
              BY <5>1, <5>3, <6>3
            <6> QED BY <5>5, <6>2, <6>4 DEF Answered
          <5>6. CASE agents.now.step # "synthesize"
            <6>1. journal'.runs[r] = [run EXCEPT !.reviews = Append(@, agents.now.says[1])]
              BY <4>3, <5>6 DEF DepositedRun
            <6>2. journal'.runs[r].reviews = Append(run.reviews, agents.now.says[1])
              BY <4>2, <6>1 DEF RunStates
            <6>3. Append(run.reviews, agents.now.says[1]) # <<>>
              BY <5>1, <5>3, <5>4, <5>6
            <6> QED BY <5>6, <6>2, <6>3 DEF Answered
          <5> QED BY <5>5, <5>6
        <4>5. Turn'
          BY <1>1, <2>2, <3>1, <4>1, <4>4 DEF Turn
        <4> QED BY <3>3, <4>5 DEF OnAgents, Turn
      <3> QED BY <3>4, <3>5
    <2> QED BY <2>1, <2>3, <2>4
  <1>8. CASE AgentFails
    <2> DEFINE new == [agents.now EXCEPT !.on = FALSE, !.at = "failed", !.says = <<>>]
    <2>1. ~new.on /\ new.at = "failed" /\ new.run = agents.now.run /\ new.step = agents.now.step
      BY <1>1 DEF Agents
    <2>2. agents'.now = new /\ agents'.old = agents.old /\ UNCHANGED runner
      <3>1. agents' = [agents EXCEPT !.now = new] /\ UNCHANGED runner
        BY <1>1, <1>8 DEF AgentFails
      <3> HIDE DEF new
      <3> QED BY <1>1, <3>1
    <2> HIDE DEF new
    <2>3. Says(agents.now)' /\ Says(agents.old)'
      BY <1>3, <1>5, <2>1, <2>2 DEF Says
    <2>4. Turn'
      BY <1>1, <2>1, <2>2, TurnStays
    <2> QED BY <2>3, <2>4 DEF OnAgents, Turn
  <1>9. CASE Crash \/ Shutdown
    <2>1. runner'.pc = "off"
      BY <1>9, OffType DEF Crash, Shutdown, Stop
    <2>2. agents'.now = NoAgent /\ agents'.old \in {agents.now, agents.old}
      <3>1. CASE Crash
        <4> DEFINE left == IF agents.now.on /\ ~agents.old.on THEN agents.now ELSE agents.old
        <4>1. left \in {agents.now, agents.old} /\ agents' = [now |-> NoAgent, old |-> left]
          BY <3>1 DEF Crash
        <4> HIDE DEF left
        <4> QED BY <4>1
      <3>2. CASE Shutdown
        <4>1. agents' = [agents EXCEPT !.now = NoAgent]
          BY <3>2 DEF Shutdown
        <4> QED BY <1>1, <4>1
      <3> QED BY <1>9, <3>1, <3>2
    <2>3. Says(agents.now)'
      BY <1>5, <2>2, NoAgentType DEF Says
    <2>4. Says(agents.old)'
      <3>1. agents'.old \in Agents /\ Says(agents'.old)
        BY <1>1, <2>2
      <3>2. ASSUME NEW agent \in Agents, Says(agent), agents'.old = agent PROVE Says(agents.old)'
        <4>1. Says(agent)'
          BY <1>2, <3>2
        <4> QED BY <3>2, <4>1 DEF Says
      <3> QED BY <1>1, <2>2, <3>2
    <2> QED BY <2>1, <2>3, <2>4 DEF OnAgents
  <1>10. CASE BeforeListing \/ List \/ AfterListing \/ UNCHANGED vars
              \/ \E command \in {"pause", "resume"} : Request(command)
    <2>1. UNCHANGED <<runner, agents>>
      BY <1>10 DEF BeforeListing, List, AfterListing, vars, Request
    <2>2. Turn'
      BY <1>1, <2>1, TurnStays
    <2> QED BY <1>3, <1>4, <2>1, <2>2 DEF OnAgents, Turn
  <1> QED BY <1>6, <1>7, <1>8, <1>9, <1>10 DEF Next

-----------------------------------------------------------------------------
(***************************************************************************)
(* How the runner moves: it stops, or goes on with what it has in hand, or *)
(* takes a run up with nothing in hand, or looks at where its run stands,  *)
(* or ends a turn.  Where it files it came from by filing.                 *)
(***************************************************************************)
InHand == /\ runner'.run = runner.run /\ runner'.artifact = runner.artifact /\ runner'.verdict = runner.verdict
          /\ runner'.pc \in Files => runner.pc \in Files

TakesUp == /\ runner.run = 0 /\ runner'.pc = "control" /\ runner'.artifact = <<>> /\ runner'.verdict = "none"

Moved == runner' = Off \/ InHand \/ TakesUp \/ Work \/ EndTurn

FilingSteps ==
  runner'.pc \in Filed => NextProposal \/ Reserve \/ CreateTicket \/ CompleteBlockers \/ UNCHANGED runner

LEMMA SteppedMoves ==
  ASSUME runner \in Runners,
         NEW pc \in {"begin", "control", "act", "partition", "giveup", "settle", "select", "claim", "work", "turn", "file"},
         pc = "file" => runner.pc \in Files,
         NEW next, NEW dec, runner' = [runner EXCEPT !.pc = pc, !.next = next, !.dec = dec]
  PROVE  Moved /\ FilingSteps /\ runner'.pc = pc /\ runner'.dec = dec
  BY DEF Runners, Moved, InHand, FilingSteps, Filed, Files

LEMMA ReleasedMoves ==
  ASSUME runner \in Runners, NEW pc \in {"control", "finalize"}, NEW released,
         runner' = [runner EXCEPT !.pc = pc, !.released = released]
  PROVE  Moved /\ FilingSteps
  BY DEF Runners, Moved, InHand, FilingSteps, Filed, Files

LEMMA ControlMoves ==
  ASSUME JournalInv,
         Launch \/ Begin \/ ControlRead \/ Act \/ Partition \/ Finalize \/ GiveUp \/ Settle \/ Select \/ Claim
  PROVE  Moved /\ FilingSteps
PROOF
  <1>1. runner \in Runners /\ OnRun
    BY DEF JournalInv, TypeOK
  <1>2. ASSUME runner' = Off PROVE Moved /\ FilingSteps
    BY <1>2, OffType DEF Moved, FilingSteps, Filed
  <1>3. ASSUME runner.run = 0, NEW r, runner' = [runner EXCEPT !.pc = "control", !.next = "work", !.run = r]
        PROVE  Moved /\ FilingSteps
    BY <1>1, <1>3 DEF Runners, OnRun, Moved, TakesUp, FilingSteps, Filed
  <1> DEFINE Stepped(pc, next, dec) == runner' = [runner EXCEPT !.pc = pc, !.next = next, !.dec = dec]
  <1>4. CASE Launch \/ Begin
    <2>1. Stepped("begin", runner.next, runner.dec) \/ Stepped("control", "select", runner.dec)
      BY <1>1, <1>4 DEF Launch, Begin, Go, Control, Runners
    <2> QED BY <1>1, <2>1, SteppedMoves
  <1>5. CASE ControlRead
    <2>1. runner.next \in {"select", "claim", "work"}
      BY <1>1, <1>5 DEF ControlRead, OnRun, Runners
    <2>2. runner' = Off \/ Stepped(runner.next, runner.next, runner.dec) \/ Stepped("act", runner.next, Decision)
      BY <1>1, <1>5 DEF ControlRead, Go, Stop, Runners
    <2>3. CASE Stepped(runner.next, runner.next, runner.dec)
      <3> DEFINE pc == runner.next
      <3>1. pc \in {"begin", "control", "act", "partition", "giveup", "settle", "select", "claim", "work", "turn", "file"}
            /\ pc # "file"
        BY <2>1
      <3>2. Stepped(pc, runner.next, runner.dec)
        BY <2>3
      <3> HIDE DEF pc
      <3> QED BY <1>1, <3>1, <3>2, SteppedMoves
    <2>4. CASE Stepped("act", runner.next, Decision)
      BY <1>1, <2>4, SteppedMoves
    <2> QED BY <1>2, <2>2, <2>3, <2>4
  <1>6. CASE Act
    <2>1. runner.dec.kind \in {"pause", "resume", "request", "exhaust"}
      BY <1>6 DEF Act, JournalInv, Decided
    <2>2. Stepped("control", runner.next, runner.dec) \/ Stepped("partition", runner.next, runner.dec)
      BY <1>1, <1>6, <2>1 DEF Act, Go, Runners
    <2> QED BY <1>1, <2>2, SteppedMoves
  <1>7. CASE Partition \/ Finalize \/ GiveUp
    <2>1. \/ runner' = Off \/ runner' = [runner EXCEPT !.pc = "giveup"]
          \/ \E pc \in {"control", "finalize"} : \E released :
               runner' = [runner EXCEPT !.pc = pc, !.released = released]
      BY <1>7, BackOrOn DEF GiveUp, Stop
    <2>2. CASE runner' = [runner EXCEPT !.pc = "giveup"]
      <3>1. Stepped("giveup", runner.next, runner.dec)
        BY <1>1, <2>2 DEF Runners
      <3> QED BY <1>1, <3>1, SteppedMoves
    <2> QED BY <1>1, <1>2, <2>1, <2>2, ReleasedMoves
  <1>8. CASE Settle
    <2>1. runner' = Off \/ Stepped("partition", "off", Decision)
      BY <1>8 DEF Settle, Stop
    <2> QED BY <1>1, <1>2, <2>1, SteppedMoves
  <1>9. CASE Select
    <2>1. runner.run = 0
      BY <1>1, <1>9 DEF Select, OnRun
    <2>2. \/ runner' = Off \/ Stepped("control", "claim", runner.dec)
          \/ runner' = [runner EXCEPT !.pc = "control", !.next = "work", !.run = Oldest(Running)]
      BY <1>1, <1>9 DEF Select, Stop, Control, Runners
    <2> QED BY <1>1, <1>2, <1>3, <2>1, <2>2, SteppedMoves
  <1>10. CASE Claim
    <2>1. runner.run = 0
      BY <1>1, <1>10 DEF Claim, OnRun
    <2>2. \E r : runner' = [runner EXCEPT !.pc = "control", !.next = "work", !.run = r]
      BY <1>10 DEF Claim
    <2> QED BY <1>3, <2>1, <2>2
  <1> QED BY <1>4, <1>5, <1>6, <1>7, <1>8, <1>9, <1>10

LEMMA Moves ==
  ASSUME JournalInv, [Next]_vars
  PROVE  Moved /\ FilingSteps
PROOF
  <1>1. runner \in Runners
    BY DEF JournalInv, TypeOK
  <1>2. ASSUME runner' = Off PROVE Moved /\ FilingSteps
    BY <1>2, OffType DEF Moved, FilingSteps, Filed
  <1>3. ASSUME UNCHANGED runner PROVE Moved /\ FilingSteps
    BY <1>3 DEF Moved, InHand, FilingSteps
  <1>4. ASSUME NEW pc \in {"turn", "settle", "file"}, pc = "file" => runner.pc \in Files,
               runner' = [runner EXCEPT !.pc = pc]
        PROVE  Moved /\ FilingSteps
    <2>1. runner' = [runner EXCEPT !.pc = pc, !.next = runner.next, !.dec = runner.dec]
      BY <1>1, <1>4 DEF Runners
    <2> DEFINE next == runner.next
               dec == runner.dec
    <2>2. runner' = [runner EXCEPT !.pc = pc, !.next = next, !.dec = dec]
      BY <2>1
    <2>3. pc \in {"begin", "control", "act", "partition", "giveup", "settle", "select", "claim", "work", "turn", "file"}
      BY <1>4
    <2> HIDE DEF next, dec
    <2> QED BY <1>1, <1>4, <2>2, <2>3, SteppedMoves
  <1>5. CASE StartSession \/ FailSession \/ Escalate \/ CreateFails \/ File \/ Complete
    <2>1. runner' = Off \/ \E pc \in {"turn", "settle", "file"} :
            (pc = "file" => runner.pc \in Files) /\ runner' = [runner EXCEPT !.pc = pc]
      BY <1>5 DEF StartSession, FailSession, Escalate, CreateFails, File, Complete, Go, Stop, Files, Filed
    <2> QED BY <1>2, <1>4, <2>1
  <1>6. CASE CreateTicket \/ CompleteBlockers
    <2>1. runner.pc \in Files /\ \E pc : runner' = [runner EXCEPT !.pc = pc]
      BY <1>6 DEF CreateTicket, CompleteBlockers, Go, Files, Filed
    <2> QED BY <1>1, <1>6, <2>1 DEF Moved, InHand, FilingSteps, Runners
  <1>7. CASE NextProposal \/ Reserve
    <2>1. runner.pc \in Files /\ \E pc, cluster, key : runner' = [runner EXCEPT !.pc = pc, !.cluster = cluster, !.key = key]
      <3>1. CASE Reserve
        <4>1. runner' = [runner EXCEPT !.pc = "create", !.cluster = runner.cluster, !.key = NewKey]
          BY <1>1, <3>1 DEF Reserve, Runners
        <4>2. runner.pc \in Files
          BY <3>1 DEF Reserve, Files, Filed
        <4> QED BY <4>1, <4>2
      <3>2. CASE NextProposal
        <4> DEFINE run == journal.runs[runner.run]
        <4>1. PICK c \in Unfiled :
                runner' = [runner EXCEPT !.cluster = c, !.key = run.key[c],
                                         !.pc = IF run.key[c] = 0 THEN "reserve" ELSE "create"]
          BY <3>2 DEF NextProposal
        <4> DEFINE pc == IF run.key[c] = 0 THEN "reserve" ELSE "create"
        <4>2. runner' = [runner EXCEPT !.pc = pc, !.cluster = c, !.key = run.key[c]]
          BY <4>1
        <4> HIDE DEF pc
        <4> QED BY <3>2, <4>2 DEF NextProposal, Files, Filed
      <3> QED BY <1>7, <3>1, <3>2
    <2> QED BY <1>1, <1>7, <2>1 DEF Moved, InHand, FilingSteps, Runners
  <1>8. CASE Work
    <2> DEFINE run == journal.runs[runner.run]
               verdict == Verdict(run)
               step == IF run.proposals = <<>> THEN "synthesize" ELSE "review"
               pc == CASE verdict = "approve" -> "file"
                       [] verdict = "escalate" -> "escalate"
                       [] OTHER -> IF SpentBudget(run, step) THEN "settle" ELSE step
    <2>1. \E artifact : runner' = [runner EXCEPT !.artifact = artifact, !.verdict = verdict, !.pc = pc]
      BY <1>8 DEF Work
    <2>2. pc \notin Filed
      <3>1. step \in {"synthesize", "review"}
        OBVIOUS
      <3> HIDE DEF verdict, step
      <3> QED BY <3>1 DEF Filed
    <2> HIDE DEF pc, verdict
    <2> QED BY <1>1, <1>8, <2>1, <2>2 DEF Moved, FilingSteps, Runners
  <1>9. CASE EndTurn
    <2> DEFINE pc == IF agents.now.at = "deposited" THEN "control" ELSE "failing"
    <2>1. \E artifact, verdict :
            runner' = [runner EXCEPT !.pc = pc, !.next = "work", !.artifact = artifact, !.verdict = verdict]
      BY <1>9 DEF EndTurn
    <2>2. pc \notin Filed
      BY DEF Filed
    <2> HIDE DEF pc
    <2> QED BY <1>1, <1>9, <2>1, <2>2 DEF Moved, FilingSteps, Runners
  <1>10. CASE RunnerStep
    BY <1>5, <1>6, <1>7, <1>8, <1>9, <1>10, ControlMoves DEF RunnerStep
  <1>11. CASE Crash \/ Shutdown
    BY <1>2, <1>11 DEF Crash, Shutdown, Stop
  <1>12. ASSUME NEW a \in {"now", "old"}, AgentStep(a) PROVE UNCHANGED runner
    BY <1>12 DEF AgentStep, CheckTerminal, Deposit
  <1>13. CASE AgentFails \/ BeforeListing \/ List \/ AfterListing \/ UNCHANGED vars
             \/ \E command \in {"pause", "resume"} : Request(command)
    BY <1>3, <1>13 DEF AgentFails, BeforeListing, List, AfterListing, vars, Request
  <1> QED BY <1>3, <1>10, <1>11, <1>12, <1>13 DEF Next

LEMMA WorkMoves ==
  ASSUME JournalInv, Work
  PROVE  LET run == journal.runs[runner.run]
         IN  /\ runner.run \in Runs /\ runner'.run = runner.run /\ UNCHANGED journal
             /\ runner'.artifact = (IF runner.artifact # <<>> \/ run.proposals = <<>> THEN runner.artifact
                                    ELSE <<Last(run.proposals)>>)
             /\ runner'.verdict = Verdict(run)
             /\ runner'.pc \in Files => runner'.verdict = "approve"
PROOF
  <1> DEFINE run == journal.runs[runner.run]
             verdict == Verdict(run)
             step == IF run.proposals = <<>> THEN "synthesize" ELSE "review"
             artifact == IF runner.artifact # <<>> \/ run.proposals = <<>> THEN runner.artifact
                         ELSE <<Last(run.proposals)>>
             pc == CASE verdict = "approve" -> "file"
                     [] verdict = "escalate" -> "escalate"
                     [] OTHER -> IF SpentBudget(run, step) THEN "settle" ELSE step
  <1>1. runner \in Runners /\ runner.run \in Runs /\ UNCHANGED journal
    BY AtClaimed DEF JournalInv, TypeOK, Work, AtRun, Files, Filed
  <1>2. pc \in Files => verdict = "approve"
    <2>1. step \in {"synthesize", "review"}
      OBVIOUS
    <2> HIDE DEF verdict, step
    <2> QED BY <2>1 DEF Files, Filed
  <1>3. runner' = [runner EXCEPT !.artifact = artifact, !.verdict = verdict, !.pc = pc]
    BY DEF Work
  <1> HIDE DEF artifact, verdict, pc
  <1>4. runner'.run = runner.run /\ runner'.artifact = artifact /\ runner'.verdict = verdict /\ runner'.pc = pc
    BY <1>1, <1>3 DEF Runners
  <1> QED BY <1>1, <1>2, <1>4 DEF artifact, verdict

LEMMA EndTurnMoves ==
  ASSUME JournalInv, EndTurn
  PROVE  LET run == journal.runs[runner.run]
         IN  /\ runner.run \in Runs /\ runner'.run = runner.run /\ WorkKept /\ runner'.pc \notin Files
             /\ \/ runner'.artifact = runner.artifact
                \/ run.proposals # <<>> /\ runner'.artifact = <<Last(run.proposals)>>
             /\ \/ runner'.verdict = runner.verdict
                \/ run.reviews # <<>> /\ runner'.verdict = Last(run.reviews).verdict
PROOF
  <1> DEFINE run == journal.runs[runner.run]
             own == agents.now.at = "deposited"
             pc == IF own THEN "control" ELSE "failing"
             artifact == IF own /\ agents.now.step = "synthesize" THEN <<Last(run.proposals)>> ELSE runner.artifact
             verdict == IF own /\ agents.now.step = "review" THEN Last(run.reviews).verdict ELSE runner.verdict
  <1>1. runner \in Runners /\ runner.run \in Runs
    BY AtClaimed DEF JournalInv, TypeOK, EndTurn, AtRun, Files, Filed
  <1>2. own => Answered(run, agents.now.step)
    BY DEF JournalInv, OnAgents, EndTurn
  <1>3. artifact = runner.artifact \/ (run.proposals # <<>> /\ artifact = <<Last(run.proposals)>>)
    BY <1>2 DEF Answered
  <1>4. verdict = runner.verdict \/ (run.reviews # <<>> /\ verdict = Last(run.reviews).verdict)
    BY <1>2 DEF Answered
  <1>5. pc \notin Files
    BY DEF Files, Filed
  <1>6. WorkKept
    BY SessionsKeep
  <1>7. runner' = [runner EXCEPT !.pc = pc, !.next = "work", !.artifact = artifact, !.verdict = verdict]
    BY DEF EndTurn
  <1> HIDE DEF artifact, verdict, pc
  <1>8. runner'.run = runner.run /\ runner'.artifact = artifact /\ runner'.verdict = verdict /\ runner'.pc = pc
    BY <1>1, <1>7 DEF Runners
  <1> QED BY <1>1, <1>3, <1>4, <1>5, <1>6, <1>8

LEMMA ApprovedStays ==
  ASSUME JournalInv, [Next]_vars, NEW r \in Runs, Approved(journal.runs[r])
  PROVE  Approved(journal'.runs[r])
PROOF
  <1> DEFINE run == journal.runs[r]
             new == journal'.runs[r]
  <1>1. Prefix(run.reviews, new.reviews)
    BY RunsGrow DEF Extended
  <1>2. run.reviews \in Seq(Reviews) /\ new.reviews \in Seq(Reviews)
    BY LastProposals, JournalNext DEF Journals, RunStates
  <1>3. PICK i \in DOMAIN run.reviews : run.reviews[i].verdict = "approve"
    BY DEF Approved
  <1>4. i \in DOMAIN new.reviews /\ new.reviews[i] = run.reviews[i]
    BY <1>1, <1>2, <1>3 DEF Prefix
  <1> QED BY <1>3, <1>4 DEF Approved

LEMMA ReviewedWasProposed ==
  ASSUME JournalInv, [Next]_vars, NEW r \in Runs, journal'.runs[r].reviews # <<>>
  PROVE  journal'.runs[r].proposals # <<>>
PROOF
  <1> DEFINE run == journal.runs[r]
             new == journal'.runs[r]
  <1>1. run.reviews # <<>> => run.proposals # <<>>
    BY DEF JournalInv, Grounds
  <1>2. run.proposals # <<>> => new.proposals # <<>>
    <2>1. Prefix(run.proposals, new.proposals)
      BY RunsGrow DEF Extended
    <2>2. run.proposals \in Seq(ProposalSets(Observations)) /\ new.proposals \in Seq(ProposalSets(Observations))
      BY LastProposals, JournalNext DEF Journals, RunStates
    <2> QED BY <2>1, <2>2 DEF Prefix
  <1>3. ASSUME new.reviews = run.reviews PROVE new.proposals # <<>>
    BY <1>1, <1>2, <1>3
  <1>4. CASE WorkKept
    BY <1>3, <1>4 DEF WorkKept, SameWork
  <1>5. ASSUME NEW s \in Runs, NEW run2 \in RunStates, NEW new2, Appended(s, new2),
               journal.runs[s] = run2, new2.reviews = run2.reviews
        PROVE  new.reviews = run.reviews
    BY <1>5 DEF Appended
  <1>6. CASE Claim
    <2> DEFINE s == Oldest(StatusIs("none"))
               claim == [NoRun EXCEPT !.status = "running", !.obs = Unclaimed]
    <2>1. s \in Runs /\ Appended(s, claim)
      BY <1>6, ClaimEffect
    <2>2. claim.reviews = <<>>
      BY DEF NoRun
    <2> HIDE DEF s, claim
    <2>3. r # s
      BY <2>1, <2>2 DEF Appended
    <2> QED BY <1>3, <2>1, <2>3 DEF Appended
  <1>7. CASE GiveUp
    <2> DEFINE old == journal.runs[runner.dec.run]
               given == [old EXCEPT !.exhausted = "barrier", !.released = runner.released]
    <2>1. runner.dec.run \in Runs /\ old \in RunStates /\ Appended(runner.dec.run, given)
      BY <1>7, GiveUpEffect
    <2>2. given.reviews = old.reviews
      BY <2>1 DEF RunStates
    <2> HIDE DEF given
    <2> QED BY <1>3, <1>5, <2>1, <2>2
  <1>8. CASE Reserve
    <2> DEFINE old == journal.runs[runner.run]
    <2>1. PICK c \in Clusters : /\ runner.run \in Runs /\ old \in RunStates
                                    /\ Appended(runner.run, [old EXCEPT !.key[c] = NewKey])
      BY <1>8, ReserveEffect
    <2> DEFINE reserved == [old EXCEPT !.key[c] = NewKey]
    <2>2. Appended(runner.run, reserved) /\ reserved.reviews = old.reviews
      BY <2>1 DEF RunStates
    <2> HIDE DEF reserved
    <2> QED BY <1>3, <1>5, <2>1, <2>2
  <1>9. CASE File
    <2> DEFINE old == journal.runs[runner.run]
               filed == [old EXCEPT !.filed = @ \cup {runner.cluster}]
    <2>1. runner.run \in Runs /\ old \in RunStates /\ Appended(runner.run, filed)
      BY <1>9, FileEffect
    <2>2. filed.reviews = old.reviews
      BY <2>1 DEF RunStates
    <2> HIDE DEF filed
    <2> QED BY <1>3, <1>5, <2>1, <2>2
  <1>10. ASSUME NEW a \in {"now", "old"}, Deposit(a) PROVE new.proposals # <<>>
    <2> DEFINE s == agents[a].run
               old == journal.runs[s]
               said == DepositedRun(old, agents[a])
    <2>1. agents[a] \in Agents /\ Says(agents[a]) /\ s \in Runs /\ old \in RunStates /\ Appended(s, said)
      BY <1>10, DepositEffect
    <2>2. CASE r # s
      BY <1>3, <2>1, <2>2 DEF Appended
    <2>3. CASE agents[a].step = "synthesize"
      <3>1. said.reviews = old.reviews
        BY <2>1, <2>3 DEF DepositedRun, RunStates
      <3> HIDE DEF said
      <3> QED BY <1>3, <1>5, <2>1, <3>1
    <2>4. CASE r = s /\ agents[a].step # "synthesize"
      <3>1. run.proposals # <<>>
        BY <1>10, <2>1, <2>4 DEF Deposit, Says, Agents
      <3> QED BY <1>2, <3>1
    <2> QED BY <2>2, <2>3, <2>4
  <1> QED BY <1>4, <1>6, <1>7, <1>8, <1>9, <1>10, StepKinds

LEMMA VerdictApproves ==
  ASSUME JournalInv, runner.run \in Runs, Verdict(journal.runs[runner.run]) = "approve"
  PROVE  Approved(journal.runs[runner.run]) /\ journal.runs[runner.run].proposals # <<>>
PROOF
  <1>1. Approved(journal.runs[runner.run])
    BY DEF Verdict, JournalInv, Grounds
  <1>2. journal.runs[runner.run].reviews # <<>>
    BY <1>1 DEF Approved
  <1> QED BY <1>1, <1>2 DEF JournalInv, Grounds

LEMMA GroundsNext ==
  ASSUME JournalInv, [Next]_vars
  PROVE  Grounds'
PROOF
  <1> DEFINE run == journal.runs[runner.run]
             Backed == /\ runner.pc \in Files => runner.artifact # <<>>
                       /\ runner.pc \in Files \/ runner.verdict = "approve" => Approved(journal.runs[runner.run])
  <1> SUFFICES Backed'
    BY ReviewedWasProposed DEF Grounds
  <1>1. runner \in Runners /\ OnRun /\ Backed
    BY DEF JournalInv, TypeOK, Grounds
  <1>2. runner.run # 0 => runner.run \in Runs
    BY <1>1 DEF Runners
  <1>3. runner.pc \in Files => runner.run # 0
    BY <1>1 DEF OnRun, AtRun
  <1>4. runner.verdict = "approve" => runner.run # 0
    BY <1>1 DEF OnRun
  <1>5. ASSUME runner.run # 0, runner'.run = runner.run, Approved(run) PROVE Approved(journal.runs[runner.run])'
    BY <1>2, <1>5, ApprovedStays
  <1>6. CASE runner' = Off
    BY <1>6, OffType DEF Files, Filed
  <1>7. CASE InHand
    BY <1>1, <1>3, <1>4, <1>5, <1>7 DEF InHand
  <1>8. CASE TakesUp
    BY <1>8 DEF TakesUp, Files, Filed
  <1>9. CASE Work
    <2>1. /\ runner.run \in Runs /\ runner'.run = runner.run /\ UNCHANGED journal
          /\ runner'.verdict = Verdict(run)
          /\ runner'.artifact = (IF runner.artifact # <<>> \/ run.proposals = <<>> THEN runner.artifact
                                 ELSE <<Last(run.proposals)>>)
          /\ runner'.pc \in Files => runner'.verdict = "approve"
      BY <1>9, WorkMoves
    <2>2. runner'.verdict = "approve" => Approved(run) /\ run.proposals # <<>>
      BY <2>1, VerdictApproves
    <2>3. runner'.pc \in Files => runner'.artifact # <<>>
      <3>1. \A x : <<x>> # <<>>
        OBVIOUS
      <3> QED BY <2>1, <2>2, <3>1
    <2> QED BY <2>1, <2>2, <2>3
  <1>10. CASE EndTurn
    <2>1. /\ runner.run \in Runs /\ runner'.run = runner.run /\ WorkKept /\ runner'.pc \notin Files
          /\ \/ runner'.verdict = runner.verdict
             \/ run.reviews # <<>> /\ runner'.verdict = Last(run.reviews).verdict
      BY <1>10, EndTurnMoves
    <2>2. run.reviews # <<>> => Last(run.reviews) = run.reviews[Len(run.reviews)] /\ Len(run.reviews) \in DOMAIN run.reviews
      BY <2>1, LastProposals, LastOf
    <2>3. runner'.verdict = "approve" => Approved(run)
      BY <1>1, <2>1, <2>2 DEF Approved
    <2>4. runner.run # 0
      BY <2>1 DEF Runs
    <2> QED BY <1>5, <2>1, <2>3, <2>4
  <1> QED BY <1>6, <1>7, <1>8, <1>9, <1>10, Moves DEF Moved

-----------------------------------------------------------------------------
(***************************************************************************)
(* What the runner read still holds.                                       *)
(***************************************************************************)
LEMMA StandingStays ==
  ASSUME JournalInv, [Next]_vars, UNCHANGED runner, NEW r \in Runs, ~RunnerStep
  PROVE  /\ journal'.runs[r].status = journal.runs[r].status
         /\ journal'.runs[r].exhausted = journal.runs[r].exhausted
         /\ journal'.runs[r].unacked = journal.runs[r].unacked
         /\ journal'.runs[r].requests = journal.runs[r].requests
         /\ journal'.runs[r].key = journal.runs[r].key
PROOF
  <1>1. ASSUME NEW a \in {"now", "old"}, Deposit(a)
        PROVE  /\ journal'.runs[r].status = journal.runs[r].status
               /\ journal'.runs[r].exhausted = journal.runs[r].exhausted
               /\ journal'.runs[r].unacked = journal.runs[r].unacked
               /\ journal'.runs[r].requests = journal.runs[r].requests
               /\ journal'.runs[r].key = journal.runs[r].key
    <2> DEFINE s == agents[a].run
               old == journal.runs[s]
               said == DepositedRun(old, agents[a])
    <2>1. s \in Runs /\ old \in RunStates /\ Appended(s, said)
      BY <1>1, DepositEffect
    <2>2. /\ said.status = old.status /\ said.exhausted = old.exhausted /\ said.unacked = old.unacked
          /\ said.requests = old.requests /\ said.key = old.key
      BY <2>1 DEF DepositedRun, RunStates
    <2> HIDE DEF said
    <2> QED BY <2>1, <2>2 DEF Appended
  <1>2. ASSUME NEW a \in {"now", "old"}, CheckTerminal(a) PROVE UNCHANGED journal
    BY <1>2 DEF CheckTerminal
  <1>3. CASE AgentFails \/ BeforeListing \/ List \/ AfterListing \/ UNCHANGED vars
    BY <1>3 DEF AgentFails, BeforeListing, List, AfterListing, vars
  <1>4. ASSUME NEW command \in {"pause", "resume"}, Request(command) PROVE journal'.runs = journal.runs
    BY <1>4 DEF Request, JournalInv, TypeOK
  <1>5. CASE Crash \/ Shutdown
    <2>1. runner.pc # "off" /\ runner'.pc = "off"
      BY <1>5, OffType DEF Crash, Shutdown, Stop
    <2> QED BY <2>1
  <1> QED BY <1>1, <1>2, <1>3, <1>4, <1>5 DEF Next, AgentStep

\* Where the steps with a run in hand lead.
LEMMA StepsTo ==
  ASSUME JournalInv, Work \/ EndTurn \/ NextProposal \/ Reserve
  PROVE  runner'.pc \in Files \cup {"escalate", "settle", "synthesize", "review", "control", "failing"}
PROOF
  <1>1. runner \in Runners
    BY DEF JournalInv, TypeOK
  <1> DEFINE run == journal.runs[runner.run]
  <1>2. CASE Work
    <2> DEFINE verdict == Verdict(run)
               step == IF run.proposals = <<>> THEN "synthesize" ELSE "review"
               pc == CASE verdict = "approve" -> "file"
                       [] verdict = "escalate" -> "escalate"
                       [] OTHER -> IF SpentBudget(run, step) THEN "settle" ELSE step
    <2>1. \E artifact : runner' = [runner EXCEPT !.artifact = artifact, !.verdict = verdict, !.pc = pc]
      BY <1>2 DEF Work
    <2>2. pc \in {"file", "escalate", "settle", "synthesize", "review"}
      <3>1. step \in {"synthesize", "review"}
        OBVIOUS
      <3> HIDE DEF verdict, step
      <3> QED BY <3>1
    <2> HIDE DEF pc, verdict
    <2> QED BY <1>1, <2>1, <2>2 DEF Runners, Files, Filed
  <1>3. CASE EndTurn
    <2> DEFINE pc == IF agents.now.at = "deposited" THEN "control" ELSE "failing"
    <2>1. \E artifact, verdict :
            runner' = [runner EXCEPT !.pc = pc, !.next = "work", !.artifact = artifact, !.verdict = verdict]
      BY <1>3 DEF EndTurn
    <2>2. pc \in {"control", "failing"}
      OBVIOUS
    <2> HIDE DEF pc
    <2> QED BY <1>1, <2>1, <2>2 DEF Runners
  <1>4. CASE NextProposal
    <2>1. PICK c \in Unfiled :
            runner' = [runner EXCEPT !.cluster = c, !.key = run.key[c], !.pc = IF run.key[c] = 0 THEN "reserve" ELSE "create"]
      BY <1>4 DEF NextProposal
    <2> QED BY <1>1, <2>1 DEF Runners, Files, Filed
  <1>5. CASE Reserve
    <2>1. runner' = [runner EXCEPT !.key = NewKey, !.pc = "create"]
      BY <1>5 DEF Reserve
    <2> QED BY <1>1, <2>1 DEF Runners, Files, Filed
  <1> QED BY <1>2, <1>3, <1>4, <1>5

LEMMA DecidedNext ==
  ASSUME JournalInv, [Next]_vars
  PROVE  Decided'
PROOF
  <1>1. runner \in Runners /\ Decided
    BY DEF JournalInv, TypeOK
  <1>2. runner.dec.run # 0 => runner.dec.run \in Runs
    BY <1>1 DEF Runners, Decisions
  <1>3. CASE ~RunnerStep /\ UNCHANGED runner
    BY <1>1, <1>2, <1>3, StandingStays DEF Decided, Standing, Recoverable
  <1>4. CASE runner'.pc \notin {"act", "partition", "finalize", "giveup"}
    BY <1>4 DEF Decided
  <1>5. CASE ControlRead
    <2>1. /\ UNCHANGED journal
          /\ \/ runner'.pc \notin {"act", "partition", "finalize", "giveup"}
             \/ runner'.pc = "act" /\ runner'.dec = Decision /\ Decision.kind \notin {"proceed", "park"}
      <3>1. runner.next \in {"select", "claim", "work"}
        BY <1>1, <1>5 DEF ControlRead, JournalInv, OnRun, Runners
      <3>2. /\ UNCHANGED journal
            /\ \/ runner' = [runner EXCEPT !.pc = runner.next] \/ runner' = Off
               \/ Decision.kind \notin {"proceed", "park"} /\ runner' = [runner EXCEPT !.pc = "act", !.dec = Decision]
        BY <1>5 DEF ControlRead, Go, Stop
      <3> QED BY <1>1, <3>1, <3>2, OffType DEF Runners
    <2> QED BY <1>4, <2>1, DecisionFacts DEF Decided, Decisions, Standing, Recoverable
  <1>6. CASE Act
    <2>1. runner'.pc = "control" \/ (runner.dec.kind = "exhaust" /\ runner'.pc = "partition" /\ runner'.dec = runner.dec)
      BY <1>1, <1>6 DEF Act, Go, Decided, Runners
    <2> QED BY <1>1, <1>4, <1>6, <2>1 DEF Act, Decided
  <1>7. CASE Partition \/ Finalize
    <2>1. /\ UNCHANGED journal /\ runner.pc \in {"partition", "finalize"}
          /\ \/ runner' = Off \/ runner' = [runner EXCEPT !.pc = "control", !.released = {}]
             \/ Decision = runner.dec /\ runner' = [runner EXCEPT !.pc = "giveup"]
             \/ \E released : runner' = [runner EXCEPT !.pc = "finalize", !.released = released]
      BY <1>7, BackOrOn DEF Partition, Finalize
    <2>2. CASE Decision = runner.dec /\ runner' = [runner EXCEPT !.pc = "giveup"]
      <3>1. runner'.pc = "giveup" /\ runner'.dec = Decision /\ Decision.kind = "exhaust"
        BY <1>1, <2>1, <2>2 DEF Decided, Runners
      <3>2. runner'.pc # "act" /\ journal' = journal
        BY <2>1, <3>1
      <3>3. runner'.dec.run \in Runs
        BY <1>1, <2>1, <2>2 DEF Decided, Runners
      <3> QED BY <3>1, <3>2, <3>3, DecisionFacts DEF Decided, Standing, Recoverable
    <2>3. ASSUME NEW released, runner' = [runner EXCEPT !.pc = "finalize", !.released = released] PROVE Decided'
      <3>1. runner'.pc = "finalize" /\ runner'.dec = runner.dec
        BY <1>1, <2>3 DEF Runners
      <3> QED BY <1>1, <2>1, <3>1 DEF Decided
    <2> QED BY <1>1, <1>4, <2>1, <2>2, <2>3, OffType DEF Runners
  <1>8. CASE Settle
    <2>1. \/ runner' = Off
          \/ Decision.kind = "exhaust" /\ runner' = [runner EXCEPT !.pc = "partition", !.next = "off", !.dec = Decision]
      BY <1>8 DEF Settle, Stop
    <2>2. \/ runner'.pc = "off"
          \/ Decision.kind = "exhaust" /\ runner'.pc = "partition" /\ runner'.dec = Decision
      BY <1>1, <2>1, OffType DEF Runners
    <2> QED BY <1>4, <2>2, DecisionFacts DEF Decided, Decisions, Standing
  <1>9. CASE Launch \/ Begin \/ GiveUp \/ Select \/ Claim
    <2>1. runner' = Off \/ runner'.pc \in {"begin", "control"}
      BY <1>1, <1>9 DEF Launch, Begin, GiveUp, Select, Claim, Go, Control, Stop, Runners
    <2> QED BY <1>4, <2>1, OffType
  <1>10. CASE \/ StartSession \/ FailSession \/ Escalate \/ CreateTicket \/ CompleteBlockers \/ CreateFails \/ File
              \/ Complete
    <2>1. runner' = Off \/ \E pc \in {"turn", "settle", "blockers", "filed", "file"} : runner' = [runner EXCEPT !.pc = pc]
      BY <1>10 DEF StartSession, FailSession, Escalate, CreateTicket, CompleteBlockers, CreateFails, File, Complete, Go, Stop
    <2>2. runner'.pc \notin {"act", "partition", "finalize", "giveup"}
      BY <1>1, <2>1, OffType DEF Runners
    <2> QED BY <1>4, <2>2
  <1>11. CASE Work \/ EndTurn \/ NextProposal \/ Reserve
    <2>1. runner'.pc \notin {"act", "partition", "finalize", "giveup"}
      <3>1. runner'.pc \in Files \cup {"escalate", "settle", "synthesize", "review", "control", "failing"}
        BY <1>11, StepsTo
      <3> QED BY <3>1 DEF Files, Filed
    <2> QED BY <1>4, <2>1
  <1>12. CASE RunnerStep
    BY <1>5, <1>6, <1>7, <1>8, <1>9, <1>10, <1>11, <1>12 DEF RunnerStep
  <1>13. CASE Crash \/ Shutdown
    BY <1>4, <1>13, OffType DEF Crash, Shutdown, Stop
  <1>14. ASSUME NEW a \in {"now", "old"}, AgentStep(a) PROVE UNCHANGED runner
    BY <1>14 DEF AgentStep, CheckTerminal, Deposit
  <1>15. CASE AgentFails \/ BeforeListing \/ List \/ AfterListing \/ UNCHANGED vars
             \/ \E command \in {"pause", "resume"} : Request(command)
    <2>1. UNCHANGED runner
      BY <1>15 DEF AgentFails, BeforeListing, List, AfterListing, vars, Request
    <2> QED BY <1>3, <1>12, <2>1
  <1> QED BY <1>3, <1>12, <1>13, <1>14, <1>15 DEF Next

LEMMA NextProposalMoves ==
  ASSUME JournalInv, NextProposal
  PROVE  /\ runner'.run = runner.run /\ runner'.artifact = runner.artifact
         /\ \E c \in Clusters :
              /\ c \in runner.artifact[1] /\ runner'.cluster = c /\ runner'.key = journal.runs[runner.run].key[c]
              /\ runner'.pc = IF journal.runs[runner.run].key[c] = 0 THEN "reserve" ELSE "create"
PROOF
  <1> DEFINE run == journal.runs[runner.run]
  <1>1. runner \in Runners
    BY DEF JournalInv, TypeOK
  <1>2. Unfiled \subseteq Clusters
    BY UnfiledType DEF NextProposal, Files
  <1>3. PICK c \in Unfiled :
          runner' = [runner EXCEPT !.cluster = c, !.key = run.key[c], !.pc = IF run.key[c] = 0 THEN "reserve" ELSE "create"]
    BY DEF NextProposal
  <1>4. c \in runner.artifact[1]
    BY DEF Unfiled, Creates
  <1> QED BY <1>1, <1>2, <1>3, <1>4 DEF Runners

LEMMA FilingMoves ==
  ASSUME JournalInv, Reserve \/ CreateTicket \/ CompleteBlockers
  PROVE  /\ runner'.run = runner.run /\ runner'.artifact = runner.artifact /\ runner'.cluster = runner.cluster
         /\ Reserve => runner.pc = "reserve" /\ runner'.pc = "create" /\ runner'.key = NewKey
         /\ CreateTicket => runner.pc = "create" /\ runner'.pc = "blockers" /\ runner'.key = runner.key /\ UNCHANGED journal
         /\ CompleteBlockers =>
              runner.pc = "blockers" /\ runner'.pc = "filed" /\ runner'.key = runner.key /\ UNCHANGED journal
PROOF
  <1>1. runner \in Runners
    BY DEF JournalInv, TypeOK
  <1>2. CASE Reserve
    <2>1. runner.pc = "reserve" /\ runner' = [runner EXCEPT !.key = NewKey, !.pc = "create"]
      BY <1>2 DEF Reserve
    <2> QED BY <1>1, <2>1 DEF Runners, CreateTicket, CompleteBlockers
  <1>3. CASE CreateTicket
    <2>1. runner.pc = "create" /\ runner' = [runner EXCEPT !.pc = "blockers"] /\ UNCHANGED journal
      BY <1>3 DEF CreateTicket, Go
    <2> QED BY <1>1, <2>1 DEF Runners, Reserve, CompleteBlockers
  <1>4. CASE CompleteBlockers
    <2>1. runner.pc = "blockers" /\ runner' = [runner EXCEPT !.pc = "filed"] /\ UNCHANGED journal
      BY <1>4 DEF CompleteBlockers, Go
    <2> QED BY <1>1, <2>1 DEF Runners, Reserve, CreateTicket
  <1> QED BY <1>2, <1>3, <1>4

\* Where it files, every step of the runner's moves it.
LEMMA FilingGoesOn ==
  ASSUME JournalInv, RunnerStep, runner.pc \in Filed
  PROVE  runner' # runner
PROOF
  <1>1. runner \in Runners
    BY DEF JournalInv, TypeOK
  <1>2. Reserve \/ CreateTicket \/ CompleteBlockers \/ CreateFails \/ File
    BY DEF RunnerStep, Filed, Launch, Begin, ControlRead, Act, Partition, Finalize, GiveUp, Settle, Select, Claim, Work, StartSession,
       EndTurn, FailSession, Escalate, NextProposal, Complete
  <1>3. CASE Reserve \/ CreateTicket \/ CompleteBlockers
    BY <1>3, FilingMoves
  <1>4. CASE CreateFails \/ File
    <2>1. runner.pc \in Filed /\ (runner' = [runner EXCEPT !.pc = "settle"] \/ runner' = [runner EXCEPT !.pc = "file"])
      BY <1>4 DEF CreateFails, File, Go, Filed
    <2>2. runner'.pc \in {"settle", "file"}
      BY <1>1, <2>1 DEF Runners
    <2> QED BY <2>1, <2>2 DEF Filed
  <1> QED BY <1>2, <1>3, <1>4

LEMMA FilingRun ==
  ASSUME JournalInv, runner.pc \in Filed
  PROVE  runner.run \in Runs /\ journal.runs[runner.run] \in RunStates
  BY AtClaimed DEF Filed, AtRun, Files

LEMMA ReservingNext ==
  ASSUME JournalInv, [Next]_vars
  PROVE  Reserving'
PROOF
  <1> SUFFICES ASSUME runner'.pc \in Filed
               PROVE  /\ runner'.cluster \in Clusters
                      /\ runner'.pc = "reserve" => journal'.runs[runner'.run].key[runner'.cluster] = 0
    BY DEF Reserving, Filed
  <1>1. CASE NextProposal
    <2>1. /\ runner'.cluster \in Clusters
          /\ runner'.pc = "reserve" => journal.runs[runner.run].key[runner'.cluster] = 0
      BY <1>1, NextProposalMoves
    <2>2. runner'.run = runner.run /\ UNCHANGED journal
      BY <1>1, NextProposalMoves DEF NextProposal
    <2> QED BY <2>1, <2>2
  <1>2. CASE Reserve \/ CreateTicket \/ CompleteBlockers
    BY <1>2, FilingMoves DEF JournalInv, Reserving, Filed
  <1>3. CASE UNCHANGED runner
    <2>1. ~RunnerStep /\ runner.run \in Runs
      BY <1>3, FilingGoesOn, FilingRun
    <2>2. journal'.runs[runner.run].key = journal.runs[runner.run].key
      BY <1>3, <2>1, StandingStays
    <2> QED BY <1>3, <2>2 DEF JournalInv, Reserving, Filed
  <1> QED BY <1>1, <1>2, <1>3, Moves DEF FilingSteps

-----------------------------------------------------------------------------
LEMMA JournalInit ==
  ASSUME Init
  PROVE  JournalInv
PROOF
  <1>1. NoRun \in RunStates /\ journal.runs = [r \in Runs |-> NoRun] /\ journal.malformed = FALSE
    BY FreshRun DEF Init
  <1>2. TypeOK
    <2>1. journal \in [runs : [Runs -> RunStates], paused : BOOLEAN, pending : {"none", "pause", "resume"},
                       malformed : BOOLEAN]
      BY <1>1 DEF Init
    <2>2. tickets \in [DOMAIN tickets -> Tickets] /\ DOMAIN tickets \subseteq Nat
      <3>1. tickets = <<>> /\ DOMAIN tickets = {}
        BY DEF Init
      <3> QED BY <3>1
    <2>3. agents \in [now : Agents, old : Agents] /\ runner \in Runners
      BY OffType, NoAgentType DEF Init
    <2>4. scan \in [at : {"none", "before", "listed"}, held : SUBSET Nat, known : SUBSET (Runs \X Clusters),
                    idle : SUBSET Nat, listed : SUBSET [key : Nat, whole : BOOLEAN]]
      BY DEF Init, NoScan
    <2>5. spent \in [requests : Nat, faults : Nat, stops : Nat, scans : Nat]
      BY DEF Init
    <2> QED BY <2>1, <2>2, <2>3, <2>4, <2>5 DEF TypeOK
  <1>3. runner = Off /\ agents.now = NoAgent /\ agents.old = NoAgent
    BY DEF Init
  <1>4. Fresh
    BY <1>1 DEF Fresh
  <1>5. OnRun
    BY <1>3, OffPlaced, OffType DEF OnRun, Placed
  <1>6. OnAgents
    BY <1>3, NoAgentType, OffType DEF OnAgents, Says
  <1>7. Grounds
    <2>1. \A r \in Runs : journal.runs[r].reviews = <<>>
      BY <1>1 DEF NoRun
    <2> QED BY <1>3, <2>1, OffType DEF Grounds, Files, Filed
  <1>8. Decided /\ Reserving
    BY <1>3, OffType DEF Decided, Reserving, Filed
  <1> QED BY <1>1, <1>2, <1>4, <1>5, <1>6, <1>7, <1>8 DEF JournalInv, JournalReduces

LEMMA JournalStep ==
  ASSUME JournalInv, [Next]_vars
  PROVE  JournalInv'
PROOF
  <1>1. Fresh' /\ JournalReduces'
    BY JournalNext DEF JournalReduces
  <1> QED BY <1>1, TypesNext, OnRunNext, OnAgentsNext, GroundsNext, DecidedNext, ReservingNext DEF JournalInv

(***************************************************************************)
(* What the runner and its agents go by when they append still holds then, *)
(* since nobody else changes it in between (harvest-runner.ts,             *)
(* cli/harvest.ts).                                                        *)
(***************************************************************************)
THEOREM JournalIsSound == Spec => []JournalInv
PROOF
  <1>1. Init => JournalInv
    BY JournalInit
  <1>2. JournalInv /\ [Next]_vars => JournalInv'
    BY JournalStep
  <1> QED BY <1>1, <1>2, PTL DEF Spec

(***************************************************************************)
(* No interleaving of requests, acknowledgements, recoveries, crashes and  *)
(* agents puts a fact into the journal that its reducer refuses: a claim   *)
(* is of what nobody has, a recovery of a run that still stands parked, a  *)
(* reservation of what has no key.  (foldHarvest throws otherwise, on      *)
(* every later read.)                                                      *)
(***************************************************************************)
THEOREM JournalNeverRefused == Spec => []JournalReduces
PROOF
  <1>1. JournalInv => JournalReduces
    BY DEF JournalInv
  <1> QED BY <1>1, JournalIsSound, PTL

-----------------------------------------------------------------------------
(***************************************************************************)
(* What becomes of one run.                                                *)
(***************************************************************************)
SameClaim(run, new) ==
  new.obs = run.obs /\ new.released = run.released /\ (new.exhausted = "no" <=> run.exhausted = "no")
SameTerminals(run, new) == new.proposals = run.proposals /\ new.reviews = run.reviews

IsClaimed(r, new) ==
  /\ Claim /\ r = Oldest(StatusIs("none")) /\ journal.runs[r] = NoRun
  /\ new = [NoRun EXCEPT !.status = "running", !.obs = Unclaimed]

IsGivenUp(run, new) ==
  /\ GiveUp /\ run.exhausted = "no" /\ new.exhausted # "no"
  /\ new.obs = run.obs /\ SameTerminals(run, new) /\ new.key = run.key /\ new.filed = run.filed

IsReserved(r, run, new) ==
  /\ Reserve /\ r = runner.run /\ SameClaim(run, new) /\ SameTerminals(run, new) /\ new.filed = run.filed
  /\ \E c \in Clusters : runner.cluster = c /\ run.key[c] = 0 /\ new.key = [run.key EXCEPT ![c] = NewKey]

IsFiled(r, run, new) ==
  /\ File /\ r = runner.run /\ SameClaim(run, new) /\ SameTerminals(run, new) /\ new.key = run.key
  /\ new.filed = run.filed \cup {runner.cluster}

IsAnswered(r, run, new) ==
  /\ SameClaim(run, new) /\ new.key = run.key /\ new.filed = run.filed
  /\ \E a \in {"now", "old"} :
       /\ Deposit(a) /\ r = agents[a].run
       /\ IF agents[a].step = "synthesize"
          THEN new.proposals = Append(run.proposals, agents[a].says[1].of) /\ new.reviews = run.reviews
          ELSE new.reviews = Append(run.reviews, agents[a].says[1]) /\ new.proposals = run.proposals

RunStep(r) ==
  \/ SameWork(journal.runs[r], journal'.runs[r])
  \/ IsClaimed(r, journal'.runs[r])
  \/ IsGivenUp(journal.runs[r], journal'.runs[r])
  \/ IsReserved(r, journal.runs[r], journal'.runs[r])
  \/ IsFiled(r, journal.runs[r], journal'.runs[r])
  \/ IsAnswered(r, journal.runs[r], journal'.runs[r])

LEMMA OtherRuns ==
  ASSUME NEW s \in Runs, NEW new, Appended(s, new), RunStep(s), NEW r \in Runs
  PROVE  RunStep(r)
PROOF
  <1>1. CASE r = s
    BY <1>1
  <1>2. CASE r # s
    BY <1>2 DEF Appended, RunStep, SameWork
  <1> QED BY <1>1, <1>2

LEMMA RunSteps ==
  ASSUME JournalInv, [Next]_vars
  PROVE  \A r \in Runs : RunStep(r)
PROOF
  <1>1. CASE WorkKept
    BY <1>1 DEF WorkKept, RunStep
  <1>2. CASE Claim
    <2> DEFINE s == Oldest(StatusIs("none"))
               new == [NoRun EXCEPT !.status = "running", !.obs = Unclaimed]
    <2>1. s \in Runs /\ Appended(s, new) /\ journal.runs[s] = NoRun
      BY <1>2, ClaimEffect DEF JournalInv, Fresh
    <2>2. journal'.runs[s] = new
      BY <2>1 DEF Appended
    <2>3. IsClaimed(s, journal'.runs[s])
      BY <1>2, <2>1, <2>2 DEF IsClaimed
    <2> HIDE DEF s, new
    <2> QED BY <2>1, <2>3, OtherRuns DEF RunStep
  <1>3. CASE GiveUp
    <2> DEFINE s == runner.dec.run
               run == journal.runs[s]
               new == [run EXCEPT !.exhausted = "barrier", !.released = runner.released]
    <2>1. s \in Runs /\ run \in RunStates /\ run.exhausted = "no" /\ Appended(s, new)
      BY <1>3, GiveUpEffect
    <2>2. IsGivenUp(run, new)
      BY <1>3, <2>1 DEF IsGivenUp, SameTerminals, RunStates
    <2> HIDE DEF new
    <2>3. RunStep(s)
      BY <2>1, <2>2 DEF Appended, RunStep
    <2> QED BY <2>1, <2>3, OtherRuns
  <1>4. CASE Reserve
    <2> DEFINE s == runner.run
               run == journal.runs[s]
    <2>1. PICK c \in Clusters : /\ s \in Runs /\ run \in RunStates /\ runner.cluster = c /\ run.key[c] = 0
                                    /\ Appended(s, [run EXCEPT !.key[c] = NewKey])
      BY <1>4, ReserveEffect
    <2> DEFINE new == [run EXCEPT !.key[c] = NewKey]
    <2>2. IsReserved(s, run, new)
      BY <1>4, <2>1 DEF IsReserved, SameClaim, SameTerminals, RunStates
    <2>3. Appended(s, new)
      BY <2>1
    <2> HIDE DEF new
    <2>4. RunStep(s)
      BY <2>1, <2>2, <2>3 DEF Appended, RunStep
    <2> QED BY <2>1, <2>3, <2>4, OtherRuns
  <1>5. CASE File
    <2> DEFINE s == runner.run
               run == journal.runs[s]
               new == [run EXCEPT !.filed = @ \cup {runner.cluster}]
    <2>1. s \in Runs /\ run \in RunStates /\ Appended(s, new)
      BY <1>5, FileEffect
    <2>2. IsFiled(s, run, new)
      BY <1>5, <2>1 DEF IsFiled, SameClaim, SameTerminals, RunStates
    <2> HIDE DEF new
    <2>3. RunStep(s)
      BY <2>1, <2>2 DEF Appended, RunStep
    <2> QED BY <2>1, <2>3, OtherRuns
  <1>6. ASSUME NEW a \in {"now", "old"}, Deposit(a)
        PROVE  \A r \in Runs : RunStep(r)
    <2> DEFINE s == agents[a].run
               run == journal.runs[s]
               new == DepositedRun(run, agents[a])
    <2>1. s \in Runs /\ run \in RunStates /\ Appended(s, new)
      BY <1>6, DepositEffect
    <2>2. IsAnswered(s, run, new)
      <3> DEFINE set == agents[a].says[1].of
                 review == agents[a].says[1]
      <3> HIDE DEF set, review
      <3>1. CASE agents[a].step = "synthesize"
        <4>1. new = [run EXCEPT !.proposals = Append(@, set)]
          BY <3>1 DEF DepositedRun, set
        <4>2. /\ SameClaim(run, new) /\ new.key = run.key /\ new.filed = run.filed /\ new.reviews = run.reviews
              /\ new.proposals = Append(run.proposals, set)
          BY <2>1, <4>1 DEF SameClaim, RunStates
        <4> HIDE DEF new
        <4> QED BY <1>6, <3>1, <4>2 DEF IsAnswered, set
      <3>2. CASE agents[a].step # "synthesize"
        <4>1. new = [run EXCEPT !.reviews = Append(@, review)]
          BY <3>2 DEF DepositedRun, review
        <4>2. /\ SameClaim(run, new) /\ new.key = run.key /\ new.filed = run.filed /\ new.proposals = run.proposals
              /\ new.reviews = Append(run.reviews, review)
          BY <2>1, <4>1 DEF SameClaim, RunStates
        <4> HIDE DEF new
        <4> QED BY <1>6, <3>2, <4>2 DEF IsAnswered, review
      <3> QED BY <3>1, <3>2
    <2> HIDE DEF new
    <2>3. RunStep(s)
      BY <2>1, <2>2 DEF Appended, RunStep
    <2> QED BY <2>1, <2>3, OtherRuns
  <1> QED BY <1>1, <1>2, <1>3, <1>4, <1>5, <1>6, StepKinds

-----------------------------------------------------------------------------
(***************************************************************************)
(* Keys, and the tickets created under them.                               *)
(***************************************************************************)
LEMMA KeysKept ==
  ASSUME JournalInv, [Next]_vars, ~Reserve, NEW r \in Runs
  PROVE  journal'.runs[r].key = journal.runs[r].key
PROOF
  <1>1. CASE IsClaimed(r, journal'.runs[r])
    BY <1>1 DEF IsClaimed, NoRun
  <1>2. CASE ~IsClaimed(r, journal'.runs[r])
    BY <1>2, RunSteps DEF RunStep, SameWork, IsGivenUp, IsReserved, IsFiled, IsAnswered
  <1> QED BY <1>1, <1>2

LEMMA PairOf ==
  ASSUME NEW p \in Reserved
  PROVE  p[1] \in Runs /\ p[2] \in Clusters /\ p = <<p[1], p[2]>> /\ KeyOf(p) # 0
  BY DEF Reserved, KeyOf

LEMMA ReservedKept ==
  ASSUME JournalInv, [Next]_vars, ~Reserve
  PROVE  Reserved' = Reserved /\ \A p \in Reserved : KeyOf(p)' = KeyOf(p)
PROOF
  <1>1. \A r \in Runs : journal'.runs[r].key = journal.runs[r].key
    BY KeysKept
  <1>2. ASSUME NEW p \in Runs \X Clusters
        PROVE  journal'.runs[p[1]].key[p[2]] = journal.runs[p[1]].key[p[2]]
    BY <1>1
  <1> QED BY <1>2 DEF Reserved, KeyOf

LEMMA KeyReserved ==
  ASSUME JournalInv, Reserve
  PROVE  \E p \in Runs \X Clusters :
           /\ p[1] = runner.run /\ runner.cluster = p[2]
           /\ p \notin Reserved /\ Reserved' = Reserved \cup {p}
           /\ KeyOf(p)' = NewKey /\ \A q \in Reserved : KeyOf(q)' = KeyOf(q)
PROOF
  <1> DEFINE s == runner.run
             run == journal.runs[s]
  <1>1. PICK c \in Clusters : /\ s \in Runs /\ run \in RunStates /\ runner.cluster = c /\ run.key[c] = 0
                                  /\ Appended(s, [run EXCEPT !.key[c] = NewKey])
    BY ReserveEffect
  <1> DEFINE new == [run EXCEPT !.key[c] = NewKey]
  <1>2. new.key = [run.key EXCEPT ![c] = NewKey] /\ run.key \in [Clusters -> Nat]
    BY <1>1 DEF RunStates
  <1>3. journal'.runs[s] = new /\ \A r \in Runs : r # s => journal'.runs[r] = journal.runs[r]
    BY <1>1 DEF Appended
  <1>4. NewKey # 0
    BY ReservedIsFinite
  <1>5. journal'.runs[s].key = [run.key EXCEPT ![c] = NewKey]
    BY <1>2, <1>3
  <1> HIDE DEF new
  <1>6. ASSUME NEW r \in Runs, NEW x \in Clusters
        PROVE  journal'.runs[r].key[x] = IF r = s /\ x = c THEN NewKey ELSE journal.runs[r].key[x]
    BY <1>2, <1>3, <1>5
  <1>7. ASSUME NEW q \in Runs \X Clusters
        PROVE  journal'.runs[q[1]].key[q[2]] = IF q = <<s, c>> THEN NewKey ELSE journal.runs[q[1]].key[q[2]]
    BY <1>6
  <1>8. PICK p \in Runs \X Clusters : p = <<s, c>> /\ p[1] = s /\ p[2] = c
    <2>1. <<s, c>> \in Runs \X Clusters /\ <<s, c>>[1] = s /\ <<s, c>>[2] = c
      BY <1>1
    <2> QED BY <2>1
  <1>9. p \notin Reserved
    BY <1>1, <1>8 DEF Reserved
  <1>10. Reserved' = Reserved \cup {p}
    <2>1. \A q \in Runs \X Clusters : journal'.runs[q[1]].key[q[2]] = IF q = p THEN NewKey ELSE journal.runs[q[1]].key[q[2]]
      BY <1>7, <1>8
    <2>2. ASSUME NEW q \in Runs \X Clusters PROVE q \in Reserved' <=> q \in Reserved \cup {p}
      BY <1>4, <2>1 DEF Reserved
    <2>3. Reserved' \subseteq Runs \X Clusters /\ Reserved \subseteq Runs \X Clusters
      BY DEF Reserved
    <2> QED BY <2>2, <2>3
  <1>11. KeyOf(p)' = NewKey
    BY <1>7, <1>8 DEF KeyOf
  <1>12. ASSUME NEW q \in Reserved PROVE KeyOf(q)' = KeyOf(q)
    <2>1. q \in Runs \X Clusters /\ q # <<s, c>>
      BY <1>8, <1>9 DEF Reserved
    <2> QED BY <1>7, <2>1 DEF KeyOf
  <1>13. runner.cluster = p[2]
    BY <1>1, <1>8
  <1> QED BY <1>8, <1>9, <1>10, <1>11, <1>12, <1>13

LEMMA KeysNext ==
  ASSUME JournalInv, [Next]_vars, KeysAreDistinct
  PROVE  KeysAreDistinct'
PROOF
  <1>1. CASE ~Reserve
    BY <1>1, ReservedKept DEF KeysAreDistinct
  <1>2. CASE Reserve
    <2>1. PICK p : /\ p \notin Reserved /\ Reserved' = Reserved \cup {p}
                   /\ KeyOf(p)' = NewKey /\ \A q \in Reserved : KeyOf(q)' = KeyOf(q)
      BY <1>2, KeyReserved
    <2>2. IsFiniteSet(Reserved) /\ Cardinality(Reserved) \in Nat /\ NewKey = 1 + Cardinality(Reserved)
      BY ReservedIsFinite
    <2>3. Cardinality(Reserved)' = Cardinality(Reserved) + 1
      BY <2>1, <2>2, FS_AddElement
    <2>4. \A q \in Reserved : KeyOf(q) <= Cardinality(Reserved) /\ KeyOf(q) \in Nat
      <3>1. \A q \in Reserved : KeyOf(q) \in Nat
        BY PairOf, LastProposals DEF KeyOf, RunStates
      <3> QED BY <3>1 DEF KeysAreDistinct
    <2>5. \A q \in Reserved' : KeyOf(q)' <= Cardinality(Reserved)'
      BY <2>1, <2>2, <2>3, <2>4
    <2>6. \A q1, q2 \in Reserved : KeyOf(q1)' = KeyOf(q2)' => q1 = q2
      BY <2>1 DEF KeysAreDistinct
    <2>7. \A q \in Reserved : KeyOf(q)' # KeyOf(p)'
      BY <2>1, <2>2, <2>4
    <2>8. \A q1, q2 \in Reserved' : KeyOf(q1)' = KeyOf(q2)' => q1 = q2
      BY <2>1, <2>6, <2>7
    <2> QED BY <2>5, <2>8 DEF KeysAreDistinct
  <1> QED BY <1>1, <1>2

LEMMA ReservedStays ==
  ASSUME JournalInv, [Next]_vars, NEW p \in Reserved
  PROVE  p \in Reserved' /\ KeyOf(p)' = KeyOf(p)
PROOF
  <1>1. CASE Reserve
    BY <1>1, KeyReserved
  <1>2. CASE ~Reserve
    BY <1>2, ReservedKept
  <1> QED BY <1>1, <1>2

\* The source's tickets change by a create and by the completion of one.
LEMMA TicketSteps ==
  ASSUME [Next]_vars
  PROVE  UNCHANGED tickets \/ CreateTicket \/ CompleteBlockers
PROOF
  <1>1. CASE RunnerStep /\ ~CreateTicket /\ ~CompleteBlockers
    BY <1>1 DEF RunnerStep, Launch, Begin, ControlRead, Act, Partition, Finalize, GiveUp, Settle, Select, Claim, Work, StartSession,
       EndTurn, FailSession, Escalate, NextProposal, Reserve, CreateFails, File, Complete, Others
  <1>2. ASSUME NEW a \in {"now", "old"}, AgentStep(a) PROVE UNCHANGED tickets
    BY <1>2 DEF AgentStep, CheckTerminal, Deposit
  <1>3. CASE AgentFails \/ Crash \/ Shutdown \/ BeforeListing \/ List \/ AfterListing \/ UNCHANGED vars
             \/ \E command \in {"pause", "resume"} : Request(command)
    BY <1>3 DEF AgentFails, Crash, Shutdown, BeforeListing, List, AfterListing, vars, Request
  <1> QED BY <1>1, <1>2, <1>3 DEF Next

LEMMA CreatedTicket ==
  ASSUME JournalInv, Creating, CreateTicket
  PROVE  \E p \in Reserved :
           /\ p[1] = runner.run /\ runner.cluster = p[2] /\ runner.key = KeyOf(p)
           /\ tickets' = IF runner.key \in DOMAIN tickets THEN tickets
                         ELSE [k \in DOMAIN tickets \cup {runner.key} |->
                                 IF k = runner.key THEN [cluster |-> p[2], whole |-> FALSE] ELSE tickets[k]]
PROOF
  <1>1. PICK c \in Clusters :
          runner.cluster = c /\ runner.key # 0 /\ runner.key = journal.runs[runner.run].key[c]
    BY DEF Creating, CreateTicket, JournalInv, Reserving, Filed
  <1>2. runner.run \in Runs
    BY FilingRun DEF CreateTicket, Filed
  <1>3. PICK p \in Runs \X Clusters : p = <<runner.run, c>>
    BY <1>2
  <1>4. p[1] = runner.run /\ p[2] = c
    BY <1>3
  <1>5. p \in Reserved /\ runner.key = KeyOf(p)
    BY <1>1, <1>4 DEF Reserved, KeyOf
  <1>6. tickets' = IF runner.key \in DOMAIN tickets THEN tickets
                   ELSE [k \in DOMAIN tickets \cup {runner.key} |->
                           IF k = runner.key THEN [cluster |-> p[2], whole |-> FALSE] ELSE tickets[k]]
    BY <1>1, <1>4 DEF CreateTicket
  <1> QED BY <1>1, <1>4, <1>5, <1>6

LEMMA TicketsNext ==
  ASSUME JournalInv, [Next]_vars, TicketsAreReserved, Creating
  PROVE  TicketsAreReserved'
PROOF
  <1>1. ASSUME NEW k \in DOMAIN tickets'
        PROVE  \/ k \in DOMAIN tickets /\ tickets'[k].cluster = tickets[k].cluster
               \/ \E p \in Reserved : KeyOf(p) = k /\ tickets'[k].cluster = p[2]
    <2>1. CASE UNCHANGED tickets
      BY <1>1, <2>1
    <2>2. CASE CompleteBlockers
      <3>1. tickets' = [tickets EXCEPT ![runner.key].whole = TRUE] /\ tickets \in [DOMAIN tickets -> Tickets]
        BY <2>2 DEF CompleteBlockers, JournalInv, TypeOK
      <3> QED BY <1>1, <3>1 DEF Tickets
    <2>3. CASE CreateTicket
      <3>1. PICK p \in Reserved :
              /\ runner.key = KeyOf(p)
              /\ tickets' = IF runner.key \in DOMAIN tickets THEN tickets
                            ELSE [i \in DOMAIN tickets \cup {runner.key} |->
                                    IF i = runner.key THEN [cluster |-> p[2], whole |-> FALSE] ELSE tickets[i]]
        BY <2>3, CreatedTicket
      <3> QED BY <1>1, <3>1
    <2> QED BY <2>1, <2>2, <2>3, TicketSteps
  <1>2. ASSUME NEW k \in DOMAIN tickets'
        PROVE  \E p \in Reserved : KeyOf(p) = k /\ tickets'[k].cluster = p[2]
    BY <1>1, <1>2 DEF TicketsAreReserved
  <1>3. ASSUME NEW k \in DOMAIN tickets'
        PROVE  \E p \in Reserved' : KeyOf(p)' = k /\ tickets'[k].cluster = p[2]
    BY <1>2, <1>3, ReservedStays
  <1> QED BY <1>3 DEF TicketsAreReserved

-----------------------------------------------------------------------------
(***************************************************************************)
(* Claims, and what is proposed of them.                                   *)
(***************************************************************************)
LEMMA ClaimsNext ==
  ASSUME JournalInv, [Next]_vars, ClaimsAreDisjoint
  PROVE  ClaimsAreDisjoint'
PROOF
  <1> DEFINE Disjoint(r, s) ==
               journal.runs[r].obs \cap journal.runs[s].obs \subseteq journal.runs[r].released \cup journal.runs[s].released
             Clean(r) == journal.runs[r].exhausted = "no" => journal.runs[r].released = {}
  <1>1. ASSUME NEW r \in Runs, ~IsClaimed(r, journal'.runs[r])
        PROVE  /\ journal'.runs[r].obs = journal.runs[r].obs /\ Clean(r)'
               /\ journal.runs[r].released \subseteq journal'.runs[r].released
    BY <1>1, RunSteps DEF RunStep, SameWork, IsGivenUp, IsReserved, IsFiled, IsAnswered, SameClaim, ClaimsAreDisjoint
  <1>2. ASSUME NEW r \in Runs, IsClaimed(r, journal'.runs[r])
        PROVE  /\ journal'.runs[r].obs = Unclaimed /\ Clean(r)'
               /\ \A s \in Runs : IsClaimed(s, journal'.runs[s]) => s = r
    BY <1>2 DEF IsClaimed, NoRun
  <1>3. ASSUME NEW r \in Runs, NEW s \in Runs, IsClaimed(r, journal'.runs[r]), ~IsClaimed(s, journal'.runs[s])
        PROVE  Disjoint(r, s)' /\ Disjoint(s, r)'
    <2>1. journal'.runs[r].obs = Unclaimed
      BY <1>2, <1>3
    <2>2. journal'.runs[s].obs = journal.runs[s].obs /\ journal.runs[s].released \subseteq journal'.runs[s].released
      BY <1>1, <1>3
    <2>3. Unclaimed \cap journal.runs[s].obs \subseteq journal.runs[s].released
      BY DEF Unclaimed, Claimed
    <2> QED BY <2>1, <2>2, <2>3
  <1>4. ASSUME NEW r \in Runs, NEW s \in Runs, r # s, ~IsClaimed(r, journal'.runs[r]), ~IsClaimed(s, journal'.runs[s])
        PROVE  Disjoint(r, s)'
    <2>1. Disjoint(r, s)
      BY <1>4 DEF ClaimsAreDisjoint
    <2> HIDE DEF Clean
    <2> QED BY <1>1, <1>4, <2>1
  <1>5. ASSUME NEW r \in Runs PROVE Clean(r)'
    BY <1>1, <1>2, <1>5
  <1>6. ASSUME NEW r \in Runs, NEW s \in Runs, r # s PROVE Disjoint(r, s)'
    <2> HIDE DEF Disjoint, Clean
    <2> QED BY <1>2, <1>3, <1>4, <1>6
  <1> QED BY <1>5, <1>6 DEF ClaimsAreDisjoint

LEMMA ObsStay ==
  ASSUME JournalInv, [Next]_vars, NEW r \in Runs, journal.runs[r].status # "none"
  PROVE  journal'.runs[r].obs = journal.runs[r].obs
  BY RunsGrow DEF Extended

LEMMA AmongGrows ==
  ASSUME NEW S, NEW s \in Seq(S), NEW u \in Seq(S), Prefix(s, u)
  PROVE  \A x : (Among(s, x) => Among(u, x)) /\ (InSome(s, x) => InSome(u, x))
PROOF
  <1>1. \A i \in DOMAIN s : i \in DOMAIN u /\ u[i] = s[i]
    BY DEF Prefix
  <1> QED BY <1>1 DEF Among, InSome

LEMMA ProposedStays ==
  ASSUME JournalInv, [Next]_vars, NEW r \in Runs, NEW set, Among(journal.runs[r].proposals, set)
  PROVE  Among(journal'.runs[r].proposals, set)
PROOF
  <1>1. Prefix(journal.runs[r].proposals, journal'.runs[r].proposals)
    BY RunsGrow DEF Extended
  <1>2. /\ journal.runs[r].proposals \in Seq(ProposalSets(Observations))
        /\ journal'.runs[r].proposals \in Seq(ProposalSets(Observations))
    BY LastProposals, JournalNext DEF Journals, RunStates
  <1> QED BY <1>1, <1>2, AmongGrows

LEMMA SaysClaimedStays ==
  ASSUME JournalInv, [Next]_vars, NEW agent \in Agents, Says(agent), SaysClaimed(agent)
  PROVE  SaysClaimed(agent)'
PROOF
  <1>1. agent.on => agent.run \in Runs /\ journal'.runs[agent.run].obs = journal.runs[agent.run].obs
    BY ObsStay DEF Says, Agents
  <1> QED BY <1>1 DEF SaysClaimed

LEMMA OfClaimedNext ==
  ASSUME JournalInv, [Next]_vars, Proposed, NEW r \in Runs
  PROVE  OfClaimed(journal'.runs[r])
PROOF
  <1> DEFINE run == journal.runs[r]
             new == journal'.runs[r]
  <1>1. OfClaimed(run) /\ run \in RunStates /\ new \in RunStates
    BY LastProposals, JournalNext DEF Proposed, Journals
  <1>2. CASE SameWork(run, new)
    BY <1>1, <1>2 DEF SameWork, OfClaimed
  <1>3. CASE IsClaimed(r, new)
    BY <1>3 DEF IsClaimed, NoRun, OfClaimed
  <1>4. CASE IsGivenUp(run, new)
    BY <1>1, <1>4 DEF IsGivenUp, SameTerminals, OfClaimed
  <1>5. CASE IsReserved(r, run, new)
    <2>1. PICK c \in Clusters : runner.cluster = c /\ new.key = [run.key EXCEPT ![c] = NewKey]
      BY <1>5 DEF IsReserved
    <2>2. InSome(run.proposals, c)
      <3>1. runner.pc = "reserve" /\ r = runner.run
        BY <1>5 DEF IsReserved, Reserve
      <3>2. runner.artifact # <<>>
        BY <3>1 DEF JournalInv, Grounds, Files, Filed
      <3> QED BY <2>1, <3>1, <3>2 DEF Proposed, Among, InSome
    <2>3. new.obs = run.obs /\ new.proposals = run.proposals
      BY <1>5 DEF IsReserved, SameClaim, SameTerminals
    <2>4. run.key \in [Clusters -> Nat]
      BY <1>1 DEF RunStates
    <2>5. ASSUME NEW x \in Clusters, new.key[x] # 0 PROVE InSome(new.proposals, x)
      BY <1>1, <2>1, <2>2, <2>3, <2>4, <2>5 DEF OfClaimed
    <2> QED BY <1>1, <2>3, <2>5 DEF OfClaimed
  <1>6. CASE IsFiled(r, run, new)
    BY <1>1, <1>6 DEF IsFiled, SameClaim, SameTerminals, OfClaimed
  <1>7. CASE IsAnswered(r, run, new)
    <2>1. new.obs = run.obs /\ new.key = run.key
      BY <1>7 DEF IsAnswered, SameClaim
    <2>2. CASE new.proposals = run.proposals
      BY <1>1, <2>1, <2>2 DEF OfClaimed
    <2>3. ASSUME NEW a \in {"now", "old"}, Deposit(a), r = agents[a].run, agents[a].step = "synthesize",
                 new.proposals = Append(run.proposals, agents[a].says[1].of)
          PROVE  OfClaimed(new)
      <3> DEFINE set == agents[a].says[1].of
      <3>1. set \in ProposalSets(run.obs) /\ set \in ProposalSets(Observations)
        <4>1. set \in ProposalSets(run.obs) /\ run.obs \in SUBSET Observations
          <5>1. agents[a].on /\ agents[a].at = "checked"
            BY <2>3 DEF Deposit
          <5>2. run.obs \in SUBSET Observations
            BY <1>1 DEF RunStates
          <5> QED BY <1>1, <2>3, <5>1, <5>2 DEF Proposed, SaysClaimed
        <4> QED BY <4>1 DEF ProposalSets
      <3>2. run.proposals \in Seq(ProposalSets(Observations)) /\ run.obs \in SUBSET Observations
        BY <1>1 DEF RunStates
      <3> HIDE DEF set
      <3>3. new.proposals = Append(run.proposals, set)
        BY <2>3 DEF set
      <3>4. \A i \in DOMAIN new.proposals : i \in DOMAIN run.proposals \/ new.proposals[i] = set
        BY <3>2, <3>3
      <3>5. \A i \in DOMAIN run.proposals : new.proposals[i] = run.proposals[i]
        BY <3>2, <3>3
      <3>6. \A c \in Clusters : InSome(run.proposals, c) => InSome(new.proposals, c)
        <4>1. Prefix(run.proposals, new.proposals) /\ new.proposals \in Seq(ProposalSets(Observations))
          BY <3>1, <3>2, <3>3, AppendIsPrefix
        <4> QED BY <3>2, <4>1, AmongGrows
      <3> QED BY <1>1, <2>1, <3>1, <3>4, <3>5, <3>6 DEF OfClaimed
    <2> QED BY <1>7, <2>2, <2>3 DEF IsAnswered
  <1> QED BY <1>2, <1>3, <1>4, <1>5, <1>6, <1>7, RunSteps DEF RunStep

\* What an agent's own step leaves of the agents.
LEMMA ChangedAgents ==
  ASSUME JournalInv, [Next]_vars
  PROVE  \A b \in {"now", "old"} :
           \/ ~agents'[b].on \/ agents'[b].at # "checked" \/ agents'[b] \in {agents.now, agents.old}
           \/ /\ Admissible(agents[b]) /\ agents[b] \in Agents /\ agents[b].on /\ Says(agents[b])
              /\ agents'[b].run = agents[b].run /\ agents'[b].step = agents[b].step
              /\ agents'[b].says[1] \in Terminals(agents[b])
PROOF
  <1>1. agents \in [now : Agents, old : Agents] /\ runner \in Runners
    BY DEF JournalInv, TypeOK
  <1>2. ASSUME UNCHANGED agents
        PROVE  agents'.now \in {agents.now, agents.old} /\ agents'.old \in {agents.now, agents.old}
    BY <1>2
  <1>3. CASE StartSession
    <2> DEFINE new == [on |-> TRUE, run |-> runner.run, step |-> runner.pc, at |-> "working", says |-> <<>>]
    <2>1. agents'.now = new /\ agents'.old = agents.old
      BY <1>1, <1>3 DEF StartSession
    <2> QED BY <2>1
  <1>4. CASE RunnerStep /\ ~StartSession
    <2>1. UNCHANGED agents
      BY <1>4 DEF RunnerStep, Launch, Begin, ControlRead, Act, Partition, Finalize, GiveUp, Settle, Select, Claim, Work, EndTurn,
           FailSession, Escalate, NextProposal, Reserve, CreateTicket, CompleteBlockers, CreateFails, File, Complete, Others
    <2> QED BY <1>2, <2>1
  <1>5. ASSUME NEW a \in {"now", "old"}, AgentStep(a), NEW b \in {"now", "old"}
        PROVE  \/ ~agents'[b].on \/ agents'[b].at # "checked" \/ agents'[b] \in {agents.now, agents.old}
               \/ /\ Admissible(agents[b]) /\ agents[b] \in Agents /\ agents[b].on /\ Says(agents[b])
                  /\ agents'[b].run = agents[b].run /\ agents'[b].step = agents[b].step
                  /\ agents'[b].says[1] \in Terminals(agents[b])
    <2>1. PICK new : /\ agents[a] \in Agents /\ agents[a].on /\ Says(agents[a])
                     /\ IF a = "now" THEN agents'.now = new /\ agents'.old = agents.old
                        ELSE agents'.now = agents.now /\ agents'.old = new
                     /\ \/ CheckTerminal(a) /\ Checked(agents[a], new)
                        \/ Deposit(a) /\ new = [agents[a] EXCEPT !.on = FALSE, !.at = "deposited", !.says = <<>>]
      BY <1>5, AgentsStep
    <2>2. CASE a # b
      BY <2>1, <2>2
    <2>3. CASE a = b
      <3>1. agents'[b] = new
        BY <2>1, <2>3
      <3>2. CASE Checked(agents[a], new)
        <4>1. /\ new.run = agents[a].run /\ new.step = agents[a].step
              /\ new.on => Admissible(agents[a]) /\ new.says[1] \in Terminals(agents[a])
          BY <2>1, <3>2, CheckedType
        <4> QED BY <2>1, <2>3, <3>1, <4>1
      <3>3. CASE new = [agents[a] EXCEPT !.on = FALSE, !.at = "deposited", !.says = <<>>]
        <4>1. ~new.on
          BY <2>1, <3>3 DEF Agents
        <4> QED BY <3>1, <4>1
      <3> QED BY <2>1, <3>2, <3>3
    <2> QED BY <2>2, <2>3
  <1>6. CASE AgentFails
    <2> DEFINE new == [agents.now EXCEPT !.on = FALSE, !.at = "failed", !.says = <<>>]
    <2>1. ~new.on
      BY <1>1 DEF Agents
    <2>2. agents' = [agents EXCEPT !.now = new]
      BY <1>1, <1>6 DEF AgentFails
    <2> HIDE DEF new
    <2>3. agents'.now = new /\ agents'.old = agents.old
      BY <1>1, <2>2
    <2> QED BY <2>1, <2>3
  <1>7. CASE Crash
    <2> DEFINE left == IF agents.now.on /\ ~agents.old.on THEN agents.now ELSE agents.old
    <2>1. left \in {agents.now, agents.old} /\ agents' = [now |-> NoAgent, old |-> left]
      BY <1>7 DEF Crash
    <2> HIDE DEF left
    <2> QED BY <2>1, NoAgentType
  <1>8. CASE Shutdown
    <2>1. agents' = [agents EXCEPT !.now = NoAgent]
      BY <1>8 DEF Shutdown
    <2>2. agents'.now = NoAgent /\ agents'.old = agents.old
      BY <1>1, <2>1
    <2> QED BY <2>2, NoAgentType
  <1>9. CASE BeforeListing \/ List \/ AfterListing \/ UNCHANGED vars
             \/ \E command \in {"pause", "resume"} : Request(command)
    <2>1. UNCHANGED agents
      BY <1>9 DEF BeforeListing, List, AfterListing, vars, Request
    <2> QED BY <1>2, <2>1
  <1> QED BY <1>3, <1>4, <1>5, <1>6, <1>7, <1>8, <1>9 DEF Next

LEMMA SaysClaimedNext ==
  ASSUME JournalInv, [Next]_vars, SaysClaimed(agents.now), SaysClaimed(agents.old)
  PROVE  SaysClaimed(agents.now)' /\ SaysClaimed(agents.old)'
PROOF
  <1>1. agents.now \in Agents /\ agents.old \in Agents /\ Says(agents.now) /\ Says(agents.old)
    BY DEF JournalInv, TypeOK, OnAgents
  <1> DEFINE Fine(agent) ==
               agent.on /\ agent.at = "checked" /\ agent.step = "synthesize" =>
                 agent.says[1].of \in ProposalSets(journal'.runs[agent.run].obs)
  <1>2. ASSUME NEW agent \in Agents, Says(agent), SaysClaimed(agent) PROVE Fine(agent)
    BY <1>2, SaysClaimedStays DEF SaysClaimed
  <1>3. Fine(agents.now) /\ Fine(agents.old)
    BY <1>1, <1>2
  <1>4. ASSUME NEW b \in {"now", "old"}, Admissible(agents[b]), agents[b] \in Agents, agents[b].on, Says(agents[b]),
               agents'[b].run = agents[b].run, agents'[b].step = agents[b].step,
               agents'[b].says[1] \in Terminals(agents[b])
        PROVE  Fine(agents'[b])
    <2>1. agents[b].step = "synthesize" => agents'[b].says[1].of \in ProposalSets(journal.runs[agents[b].run].obs)
      BY <1>4, TerminalType
    <2>2. journal'.runs[agents[b].run].obs = journal.runs[agents[b].run].obs
      BY <1>4, ObsStay DEF Says, Agents
    <2> QED BY <1>4, <2>1, <2>2
  <1>5. ASSUME NEW agent, ~agent.on \/ agent.at # "checked" PROVE Fine(agent)
    BY <1>5
  <1> HIDE DEF Fine
  <1>6. Fine(agents'["now"]) /\ Fine(agents'["old"])
    BY <1>3, <1>4, <1>5, ChangedAgents
  <1> QED BY <1>6 DEF Fine, SaysClaimed

LEMMA ProposedNext ==
  ASSUME JournalInv, [Next]_vars, Proposed
  PROVE  Proposed'
PROOF
  <1> DEFINE run == journal.runs[runner.run]
             Within == runner.artifact # <<>> => Among(journal.runs[runner.run].proposals, runner.artifact[1])
  <1>1. runner \in Runners /\ OnRun /\ Within
    BY DEF JournalInv, TypeOK, Proposed
  <1>2. runner.artifact # <<>> => runner.run \in Runs /\ run.status # "none"
    BY <1>1 DEF OnRun, Runners
  <1>3. Within'
    <2>1. CASE runner' = Off
      BY <2>1, OffType
    <2>2. CASE InHand
      <3>1. runner.artifact # <<>> => Among(journal'.runs[runner.run].proposals, runner.artifact[1])
        BY <1>1, <1>2, ProposedStays
      <3> QED BY <2>2, <3>1 DEF InHand
    <2>3. CASE TakesUp
      BY <2>3 DEF TakesUp
    <2>4. CASE Work \/ EndTurn
      <3>1. /\ runner.run \in Runs /\ runner'.run = runner.run /\ journal'.runs[runner.run].proposals = run.proposals
            /\ \/ runner'.artifact = runner.artifact
               \/ run.proposals # <<>> /\ runner'.artifact = <<Last(run.proposals)>>
        BY <2>4, WorkMoves, EndTurnMoves DEF WorkKept, SameWork
      <3>2. CASE runner'.artifact = runner.artifact
        BY <1>1, <3>1, <3>2
      <3>3. CASE run.proposals # <<>> /\ runner'.artifact = <<Last(run.proposals)>>
        <4>1. Len(run.proposals) \in DOMAIN run.proposals /\ Last(run.proposals) = run.proposals[Len(run.proposals)]
          BY <3>1, <3>3, LastProposals, LastOf
        <4>2. Among(run.proposals, Last(run.proposals))
          BY <4>1 DEF Among
        <4>3. runner'.artifact[1] = Last(run.proposals)
          BY <3>3
        <4> QED BY <3>1, <4>2, <4>3
      <3> QED BY <3>1, <3>2, <3>3
    <2> QED BY <2>1, <2>2, <2>3, <2>4, Moves DEF Moved
  <1>4. (runner.pc = "reserve" => runner.cluster \in runner.artifact[1])'
    <2> SUFFICES ASSUME runner'.pc = "reserve" PROVE runner'.cluster \in runner'.artifact[1]
      OBVIOUS
    <2>1. CASE NextProposal
      BY <2>1, NextProposalMoves
    <2>2. CASE Reserve \/ CreateTicket \/ CompleteBlockers
      BY <2>2, FilingMoves
    <2>3. CASE UNCHANGED runner
      BY <2>3 DEF Proposed
    <2> QED BY <2>1, <2>2, <2>3, Moves DEF FilingSteps, Filed
  <1>5. \A r \in Runs : OfClaimed(journal'.runs[r])
    BY OfClaimedNext
  <1>6. SaysClaimed(agents.now)' /\ SaysClaimed(agents.old)'
    BY SaysClaimedNext DEF Proposed
  <1>7. (\A r \in Runs : OfClaimed(journal.runs[r]))'
    BY <1>5 DEF OfClaimed, InSome
  <1> QED BY <1>3, <1>4, <1>6, <1>7 DEF Proposed

LEMMA CreatingNext ==
  ASSUME JournalInv, [Next]_vars, Proposed, Creating
  PROVE  Creating'
PROOF
  <1> DEFINE run == journal.runs[runner.run]
             At == /\ runner.cluster \in runner.artifact[1]
                   /\ runner.key # 0 /\ runner.key = journal.runs[runner.run].key[runner.cluster]
  <1> SUFFICES ASSUME runner'.pc \in {"create", "blockers", "filed"} PROVE At'
    BY DEF Creating
  <1>1. CASE NextProposal
    <2>1. PICK c \in Clusters : /\ c \in runner.artifact[1] /\ runner'.cluster = c /\ runner'.key = run.key[c]
                                    /\ runner'.pc = IF run.key[c] = 0 THEN "reserve" ELSE "create"
      BY <1>1, NextProposalMoves
    <2>2. runner'.run = runner.run /\ runner'.artifact = runner.artifact /\ UNCHANGED journal
      BY <1>1, NextProposalMoves DEF NextProposal
    <2> QED BY <2>1, <2>2
  <1>2. CASE Reserve
    <2>1. PICK p \in Runs \X Clusters : p[1] = runner.run /\ runner.cluster = p[2] /\ KeyOf(p)' = NewKey
      BY <1>2, KeyReserved
    <2>2. /\ runner'.run = runner.run /\ runner'.artifact = runner.artifact /\ runner'.cluster = runner.cluster
          /\ runner.pc = "reserve" /\ runner'.key = NewKey
      BY <1>2, FilingMoves
    <2>3. NewKey # 0
      BY ReservedIsFinite
    <2>4. p[2] \in runner.artifact[1]
      BY <2>1, <2>2 DEF Proposed
    <2> QED BY <2>1, <2>2, <2>3, <2>4 DEF KeyOf
  <1>3. CASE CreateTicket \/ CompleteBlockers
    <2>1. /\ runner'.run = runner.run /\ runner'.artifact = runner.artifact /\ runner'.cluster = runner.cluster
          /\ runner'.key = runner.key /\ UNCHANGED journal /\ runner.pc \in {"create", "blockers"}
      BY <1>3, FilingMoves
    <2>2. At
      BY <2>1 DEF Creating
    <2> QED BY <2>1, <2>2
  <1>4. CASE UNCHANGED runner
    <2>1. At
      BY <1>4 DEF Creating
    <2>2. ~RunnerStep /\ runner.run \in Runs
      BY <1>4, FilingGoesOn, FilingRun DEF Filed
    <2>3. journal'.runs[runner.run].key = run.key
      BY <1>4, <2>2, StandingStays
    <2> QED BY <1>4, <2>1, <2>3
  <1> QED BY <1>1, <1>2, <1>3, <1>4, Moves DEF FilingSteps, Filed

-----------------------------------------------------------------------------
LEMMA TicketInit ==
  ASSUME Init
  PROVE  TicketInv
PROOF
  <1>1. \A r \in Runs : journal.runs[r] = NoRun
    BY DEF Init
  <1>2. Reserved = {}
    BY <1>1 DEF Reserved, NoRun
  <1>3. runner = Off /\ agents.now = NoAgent /\ agents.old = NoAgent /\ DOMAIN tickets = {}
    BY DEF Init
  <1>4. KeysAreDistinct /\ TicketsAreReserved
    BY <1>2, <1>3 DEF KeysAreDistinct, TicketsAreReserved
  <1>5. ClaimsAreDisjoint
    BY <1>1 DEF ClaimsAreDisjoint, NoRun
  <1>6. Proposed
    <2>1. \A r \in Runs : OfClaimed(journal.runs[r])
      BY <1>1 DEF OfClaimed, NoRun
    <2>2. SaysClaimed(agents.now) /\ SaysClaimed(agents.old)
      BY <1>3, NoAgentType DEF SaysClaimed
    <2> QED BY <1>3, <2>1, <2>2, OffType DEF Proposed
  <1>7. Creating
    BY <1>3, OffType DEF Creating
  <1> QED BY <1>4, <1>5, <1>6, <1>7 DEF TicketInv

LEMMA TicketStep ==
  ASSUME JournalInv, TicketInv, [Next]_vars
  PROVE  TicketInv'
  BY KeysNext, TicketsNext, ClaimsNext, ProposedNext, CreatingNext DEF TicketInv

\* Two proposals of a run that share an observation are of two sets.
LEMMA TwoClusters ==
  ASSUME JournalInv, NEW run \in RunStates, NEW c, NEW d, c # d, c \cap d # {},
         InSome(run.proposals, c), InSome(run.proposals, d)
  PROVE  \E m, n \in DOMAIN run.proposals : m # n /\ c \in run.proposals[m] /\ d \in run.proposals[n]
PROOF
  <1>1. PICK m \in DOMAIN run.proposals : c \in run.proposals[m]
    BY DEF InSome
  <1>2. PICK n \in DOMAIN run.proposals : d \in run.proposals[n]
    BY DEF InSome
  <1>3. run.proposals[m] \in ProposalSets(Observations)
    BY DEF RunStates
  <1>4. m # n
    BY <1>1, <1>2, <1>3 DEF ProposalSets
  <1> QED BY <1>1, <1>2, <1>4

LEMMA OwnKey ==
  ASSUME NEW p \in Reserved
  PROVE  KeyOf(p) \in KeysOf({p[1]} \X Clusters)
PROOF
  <1>1. p \in {p[1]} \X Clusters
    BY PairOf
  <1> QED BY <1>1 DEF KeyOf, KeysOf

LEMMA OfRun ==
  ASSUME TicketInv, NEW r \in Runs, NEW c, InSome(journal.runs[r].proposals, c)
  PROVE  c \subseteq journal.runs[r].obs
  BY DEF TicketInv, Proposed, OfClaimed, InSome, ProposalSets

LEMMA OneTicketEach ==
  ASSUME JournalInv, TicketInv
  PROVE  NoSecondTicket
PROOF
  <1>1. ASSUME NEW j \in DOMAIN tickets, NEW k \in DOMAIN tickets, j # k,
               NEW o \in tickets[j].cluster \cap tickets[k].cluster
        PROVE  \E r \in Runs :
                 LET run == journal.runs[r]
                     own == KeysOf({r} \X Clusters)
                 IN  \/ o \in run.released /\ {j, k} \cap own # {}
                     \/ /\ {j, k} \subseteq own
                        /\ \E m, n \in DOMAIN run.proposals :
                             /\ m # n
                             /\ tickets[j].cluster \in run.proposals[m] /\ tickets[k].cluster \in run.proposals[n]
    <2> DEFINE Own(r) == KeysOf({r} \X Clusters)
    <2>1. PICK p \in Reserved : KeyOf(p) = j /\ tickets[j].cluster = p[2]
      BY DEF TicketInv, TicketsAreReserved
    <2>2. PICK q \in Reserved : KeyOf(q) = k /\ tickets[k].cluster = q[2]
      BY DEF TicketInv, TicketsAreReserved
    <2>3. p[1] \in Runs /\ p[2] \in Clusters /\ q[1] \in Runs /\ q[2] \in Clusters
      BY PairOf
    <2>4. j \in Own(p[1]) /\ k \in Own(q[1])
      BY <2>1, <2>2, OwnKey
    <2>5. InSome(journal.runs[p[1]].proposals, p[2]) /\ InSome(journal.runs[q[1]].proposals, q[2])
      BY <2>3, PairOf DEF TicketInv, Proposed, OfClaimed, KeyOf
    <2>6. o \in p[2] /\ o \in q[2]
      BY <1>1, <2>1, <2>2
    <2> HIDE DEF Own
    <2>7. CASE p[1] = q[1]
      <3>1. p[2] # q[2]
        BY <1>1, <2>1, <2>2, <2>7 DEF KeyOf
      <3>2. \E m, n \in DOMAIN journal.runs[p[1]].proposals :
              /\ m # n
              /\ p[2] \in journal.runs[p[1]].proposals[m] /\ q[2] \in journal.runs[p[1]].proposals[n]
        <4>1. journal.runs[p[1]] \in RunStates
          BY <2>3, LastProposals
        <4> QED BY <2>5, <2>6, <2>7, <3>1, <4>1, TwoClusters
      <3> QED BY <2>1, <2>2, <2>3, <2>4, <2>7, <3>2 DEF Own
    <2>8. CASE p[1] # q[1]
      <3>1. o \in journal.runs[p[1]].obs /\ o \in journal.runs[q[1]].obs
        BY <2>3, <2>5, <2>6, OfRun
      <3>2. o \in journal.runs[p[1]].released \/ o \in journal.runs[q[1]].released
        BY <2>3, <2>8, <3>1 DEF TicketInv, ClaimsAreDisjoint
      <3> QED BY <2>3, <2>4, <3>2 DEF Own
    <2> QED BY <2>7, <2>8
  <1> QED BY <1>1 DEF NoSecondTicket

(***************************************************************************)
(* The source gets one ticket of an observation, whatever crashes, is      *)
(* retried or claimed again, but where a run that was given up released    *)
(* the observation and has a key of one of the two, or where one run was   *)
(* proposed it in two sets, in clusters that differ.  (harvest.ts reserves *)
(* the key of a cluster in the journal before the create, a run keeps what *)
(* it claimed, and the append of cli/harvest.ts looks at nothing.)         *)
(***************************************************************************)
THEOREM OneTicketOfAnObservation == Spec => []NoSecondTicket
PROOF
  <1>1. Init => TicketInv
    BY TicketInit
  <1>2. JournalInv /\ TicketInv /\ [Next]_vars => TicketInv'
    BY TicketStep
  <1>3. JournalInv /\ TicketInv => NoSecondTicket
    BY OneTicketEach
  <1> QED BY <1>1, <1>2, <1>3, JournalIsSound, PTL DEF Spec

-----------------------------------------------------------------------------
(***************************************************************************)
(* Reviews, and what is filed upon them.                                   *)
(***************************************************************************)
LEMMA ProposalsGrow ==
  ASSUME JournalInv, [Next]_vars, NEW r \in Runs
  PROVE  LET run == journal.runs[r]
             new == journal'.runs[r]
         IN  /\ run.proposals # <<>> => new.proposals # <<>>
             /\ run.proposals # <<>> /\ Len(new.proposals) = 1 =>
                  Len(run.proposals) = 1 /\ new.proposals[1] = run.proposals[1]
PROOF
  <1> DEFINE run == journal.runs[r]
             new == journal'.runs[r]
  <1>1. Prefix(run.proposals, new.proposals)
    BY RunsGrow DEF Extended
  <1>2. run.proposals \in Seq(ProposalSets(Observations)) /\ new.proposals \in Seq(ProposalSets(Observations))
    BY LastProposals, JournalNext DEF Journals, RunStates
  <1> HIDE DEF run, new
  <1>3. run.proposals # <<>> => Len(run.proposals) \in Nat /\ Len(run.proposals) >= 1
    BY <1>2
  <1>4. run.proposals # <<>> => new.proposals # <<>>
    BY <1>1, <1>2, <1>3 DEF Prefix
  <1>5. ASSUME run.proposals # <<>>, Len(new.proposals) = 1
        PROVE  Len(run.proposals) = 1 /\ new.proposals[1] = run.proposals[1]
    <2>1. Len(run.proposals) = 1
      <3>1. Len(run.proposals) <= Len(new.proposals) /\ Len(run.proposals) \in Nat /\ Len(run.proposals) >= 1
        BY <1>1, <1>3, <1>5 DEF Prefix
      <3>2. \A n, m \in Nat : n <= m /\ m = 1 /\ n >= 1 => n = 1
        OBVIOUS
      <3>3. Len(new.proposals) \in Nat
        BY <1>2
      <3> QED BY <1>5, <3>1, <3>2, <3>3
    <2>2. 1 \in DOMAIN run.proposals
      BY <1>2, <2>1
    <2> QED BY <1>1, <2>1, <2>2 DEF Prefix
  <1> QED BY <1>4, <1>5 DEF run, new

LEMMA OneSetStays ==
  ASSUME JournalInv, [Next]_vars, NEW r \in Runs, journal.runs[r].proposals # <<>>,
         NEW set, OneSet(journal.runs[r], set)
  PROVE  journal'.runs[r].proposals # <<>> /\ OneSet(journal'.runs[r], set)
  BY ProposalsGrow DEF OneSet

LEMMA SameReviewed ==
  ASSUME NEW run, NEW new, Reviewed(run), new.proposals = run.proposals, new.reviews = run.reviews, new.filed = run.filed
  PROVE  Reviewed(new)
  BY DEF Reviewed, OneSet, Approved

LEMMA ReviewedNext ==
  ASSUME JournalInv, TicketInv, ReviewInv, [Next]_vars, NEW r \in Runs
  PROVE  Reviewed(journal'.runs[r])
PROOF
  <1> DEFINE run == journal.runs[r]
             new == journal'.runs[r]
  <1>1. Reviewed(run) /\ run \in RunStates /\ new \in RunStates
    BY LastProposals, JournalNext DEF ReviewInv, Journals
  <1>2. CASE SameWork(run, new)
    BY <1>1, <1>2, SameReviewed DEF SameWork
  <1>3. CASE IsClaimed(r, new)
    BY <1>3 DEF IsClaimed, NoRun, Reviewed
  <1>4. CASE IsGivenUp(run, new)
    BY <1>1, <1>4, SameReviewed DEF IsGivenUp, SameTerminals
  <1>5. CASE IsReserved(r, run, new)
    BY <1>1, <1>5, SameReviewed DEF IsReserved, SameTerminals
  <1>6. CASE IsFiled(r, run, new)
    <2>1. r = runner.run /\ runner.pc = "filed" /\ new.filed = run.filed \cup {runner.cluster}
      BY <1>6 DEF IsFiled, File
    <2>2. new.proposals = run.proposals /\ new.reviews = run.reviews
      BY <1>6 DEF IsFiled, SameTerminals
    <2>3. Approved(run) /\ runner.artifact # <<>>
      BY <2>1 DEF JournalInv, Grounds, Files, Filed
    <2>4. runner.cluster \in runner.artifact[1]
      BY <2>1 DEF TicketInv, Creating
    <2>5. OneSet(run, runner.artifact[1])
      BY <2>1, <2>3 DEF ReviewInv, Filing
    <2>6. Len(new.proposals) = 1 => new.filed \subseteq new.proposals[1]
      BY <1>1, <2>1, <2>2, <2>4, <2>5 DEF Reviewed, OneSet
    <2>7. Approved(new)
      BY <2>2, <2>3 DEF Approved
    <2> QED BY <1>1, <2>2, <2>6, <2>7 DEF Reviewed, OneSet
  <1>7. CASE IsAnswered(r, run, new)
    <2>1. new.filed = run.filed
      BY <1>7 DEF IsAnswered
    <2>2. run.proposals \in Seq(ProposalSets(Observations)) /\ run.reviews \in Seq(Reviews)
      BY <1>1 DEF RunStates
    <2>3. PICK a \in {"now", "old"} :
            /\ Deposit(a) /\ r = agents[a].run
            /\ IF agents[a].step = "synthesize"
               THEN new.proposals = Append(run.proposals, agents[a].says[1].of) /\ new.reviews = run.reviews
               ELSE new.reviews = Append(run.reviews, agents[a].says[1]) /\ new.proposals = run.proposals
      BY <1>7 DEF IsAnswered
    <2>4. CASE agents[a].step = "synthesize"
      <3>1. new.reviews = run.reviews /\ Approved(new) = Approved(run)
        BY <2>3, <2>4 DEF Approved
      <3>2. CASE run.proposals = <<>>
        <4>1. run.reviews = <<>>
          BY <3>2 DEF JournalInv, Grounds
        <4>2. ~Approved(run)
          BY <4>1 DEF Approved
        <4>3. run.filed = {}
          BY <1>1, <4>2 DEF Reviewed
        <4> QED BY <2>1, <3>1, <4>1, <4>3 DEF Reviewed
      <3>3. CASE run.proposals # <<>>
        <4>1. Len(new.proposals) = 1 => Len(run.proposals) = 1 /\ new.proposals[1] = run.proposals[1]
          BY <3>3, ProposalsGrow
        <4> QED BY <1>1, <2>1, <3>1, <4>1 DEF Reviewed, OneSet
      <3> QED BY <3>2, <3>3
    <2>5. CASE agents[a].step # "synthesize"
      <3> DEFINE review == agents[a].says[1]
      <3>1. new.reviews = Append(run.reviews, review) /\ new.proposals = run.proposals
        BY <2>3, <2>5
      <3>2. agents[a].on /\ agents[a].at = "checked" /\ agents[a].step = "review" /\ Says(agents[a])
        <4>1. agents[a].on /\ agents[a].at = "checked"
          BY <2>3 DEF Deposit
        <4>2. agents[a] \in Agents /\ Says(agents[a])
          BY DEF JournalInv, TypeOK, OnAgents
        <4>3. agents[a].step \in {"none", "synthesize", "review"}
          BY <4>2 DEF Agents
        <4> QED BY <2>5, <4>1, <4>2, <4>3 DEF Says
      <3>3. OneSet(run, review.of)
        BY <2>3, <3>2 DEF ReviewInv, SaysReviewed
      <3>4. review \in Reviews
        BY <3>2 DEF Says
      <3> HIDE DEF review
      <3>5. \A i \in DOMAIN new.reviews : i \in DOMAIN run.reviews \/ new.reviews[i] = review
        BY <2>2, <3>1, <3>4
      <3>6. \A i \in DOMAIN run.reviews : new.reviews[i] = run.reviews[i]
        BY <2>2, <3>1, <3>4
      <3>7. \A i \in DOMAIN new.reviews : OneSet(new, new.reviews[i].of)
        BY <1>1, <3>1, <3>3, <3>5, <3>6 DEF Reviewed, OneSet
      <3>8. Approved(run) => Approved(new)
        BY ApprovedStays
      <3> QED BY <1>1, <2>1, <3>1, <3>7, <3>8 DEF Reviewed
    <2> QED BY <2>4, <2>5
  <1> QED BY <1>2, <1>3, <1>4, <1>5, <1>6, <1>7, RunSteps DEF RunStep

LEMMA SaysReviewedNext ==
  ASSUME JournalInv, [Next]_vars, SaysReviewed(agents.now), SaysReviewed(agents.old)
  PROVE  SaysReviewed(agents.now)' /\ SaysReviewed(agents.old)'
PROOF
  <1>1. agents.now \in Agents /\ agents.old \in Agents /\ Says(agents.now) /\ Says(agents.old)
    BY DEF JournalInv, TypeOK, OnAgents
  <1> DEFINE Fine(agent) ==
               agent.on /\ agent.at = "checked" /\ agent.step = "review" =>
                 OneSet(journal'.runs[agent.run], agent.says[1].of)
  <1>2. ASSUME NEW agent \in Agents, Says(agent), SaysReviewed(agent) PROVE Fine(agent)
    <2>1. agent.on => agent.run \in Runs
      BY <1>2 DEF Says, Agents
    <2>2. agent.on /\ agent.at = "checked" /\ agent.step = "review" => journal.runs[agent.run].proposals # <<>>
      BY <1>2 DEF Says
    <2> QED BY <1>2, <2>1, <2>2, OneSetStays DEF SaysReviewed
  <1>3. Fine(agents.now) /\ Fine(agents.old)
    BY <1>1, <1>2
  <1>4. ASSUME NEW b \in {"now", "old"}, Admissible(agents[b]), agents[b] \in Agents, agents[b].on, Says(agents[b]),
               agents'[b].run = agents[b].run, agents'[b].step = agents[b].step,
               agents'[b].says[1] \in Terminals(agents[b])
        PROVE  Fine(agents'[b])
    <2> SUFFICES ASSUME agents[b].step = "review"
                 PROVE  OneSet(journal'.runs[agents[b].run], agents'[b].says[1].of)
      BY <1>4
    <2> DEFINE r == agents[b].run
               run == journal.runs[r]
               set == agents'[b].says[1].of
    <2>1. set = Last(run.proposals) /\ run.proposals # <<>> /\ r \in Runs
      BY <1>4, TerminalType DEF Says, Agents
    <2> HIDE DEF set
    <2>2. OneSet(run, set)
      <3>1. Last(run.proposals) = run.proposals[Len(run.proposals)]
        BY <2>1, LastProposals, LastOf
      <3> QED BY <2>1, <3>1 DEF OneSet
    <2>3. OneSet(journal'.runs[r], set)
      BY <2>1, <2>2, OneSetStays
    <2> QED BY <2>3 DEF set
  <1>5. ASSUME NEW agent, ~agent.on \/ agent.at # "checked" PROVE Fine(agent)
    BY <1>5
  <1> HIDE DEF Fine
  <1>6. Fine(agents'["now"]) /\ Fine(agents'["old"])
    BY <1>3, <1>4, <1>5, ChangedAgents
  <1> QED BY <1>6 DEF Fine, SaysReviewed

LEMMA FilingNext ==
  ASSUME JournalInv, [Next]_vars, Filing
  PROVE  Filing'
PROOF
  <1> DEFINE run == journal.runs[runner.run]
             From == runner.artifact # <<>> => run.proposals # <<>> /\ OneSet(run, runner.artifact[1])
  <1> SUFFICES From'
    BY DEF Filing
  <1>1. runner \in Runners /\ OnRun /\ From
    BY DEF JournalInv, TypeOK, Filing
  <1>2. runner.artifact # <<>> => runner.run \in Runs
    BY <1>1 DEF OnRun, Runners
  <1>3. CASE runner' = Off
    BY <1>3, OffType
  <1>4. CASE InHand
    <2>1. CASE runner.artifact # <<>>
      <3>1. journal'.runs[runner.run].proposals # <<>> /\ OneSet(journal'.runs[runner.run], runner.artifact[1])
        BY <1>1, <1>2, <2>1, OneSetStays
      <3> QED BY <1>4, <3>1 DEF InHand, OneSet
    <2>2. CASE runner.artifact = <<>>
      BY <1>4, <2>2 DEF InHand
    <2> QED BY <2>1, <2>2
  <1>5. CASE TakesUp
    BY <1>5 DEF TakesUp
  <1>6. CASE Work \/ EndTurn
    <2>1. /\ runner.run \in Runs /\ runner'.run = runner.run /\ journal'.runs[runner.run].proposals = run.proposals
          /\ \/ runner'.artifact = runner.artifact
             \/ run.proposals # <<>> /\ runner'.artifact = <<Last(run.proposals)>>
      BY <1>6, WorkMoves, EndTurnMoves DEF WorkKept, SameWork
    <2>2. CASE runner'.artifact = runner.artifact
      BY <1>1, <2>1, <2>2 DEF OneSet
    <2>3. CASE run.proposals # <<>> /\ runner'.artifact = <<Last(run.proposals)>>
      <3>1. Last(run.proposals) = run.proposals[Len(run.proposals)]
        BY <2>1, <2>3, LastProposals, LastOf
      <3>2. runner'.artifact[1] = Last(run.proposals)
        BY <2>3
      <3> QED BY <2>1, <2>3, <3>1, <3>2 DEF OneSet
    <2> QED BY <2>1, <2>2, <2>3
  <1> QED BY <1>3, <1>4, <1>5, <1>6, Moves DEF Moved

LEMMA ReviewInit ==
  ASSUME Init
  PROVE  ReviewInv
PROOF
  <1>1. \A r \in Runs : journal.runs[r] = NoRun
    BY DEF Init
  <1>2. \A r \in Runs : Reviewed(journal.runs[r])
    BY <1>1 DEF Reviewed, NoRun
  <1>3. runner = Off /\ agents.now = NoAgent /\ agents.old = NoAgent
    BY DEF Init
  <1> QED BY <1>2, <1>3, OffType, NoAgentType DEF ReviewInv, SaysReviewed, Filing

LEMMA ReviewStep ==
  ASSUME JournalInv, TicketInv, ReviewInv, [Next]_vars
  PROVE  ReviewInv'
PROOF
  <1>1. \A r \in Runs : Reviewed(journal'.runs[r])
    BY ReviewedNext
  <1>2. (\A r \in Runs : Reviewed(journal.runs[r]))'
    BY <1>1 DEF Reviewed, OneSet, Approved
  <1> QED BY <1>2, SaysReviewedNext, FilingNext DEF ReviewInv

LEMMA FiledFromReview ==
  ASSUME ReviewInv
  PROVE  FiledAsReviewed
PROOF
  <1>1. ASSUME NEW r \in Runs, journal.runs[r].filed # {}, Len(journal.runs[r].proposals) = 1
        PROVE  \E i \in DOMAIN journal.runs[r].reviews :
                 /\ journal.runs[r].reviews[i].verdict = "approve"
                 /\ journal.runs[r].filed \subseteq journal.runs[r].reviews[i].of
    BY <1>1 DEF ReviewInv, Reviewed, Approved, OneSet
  <1> QED BY <1>1 DEF FiledAsReviewed

(***************************************************************************)
(* What is filed was in the set that the approving reviewer saw, unless a  *)
(* session that outlived its runner deposited a second set after the       *)
(* first.  (The check in cli/harvest.ts and the append of the terminal are *)
(* two steps, and the runner goes on with the proposals it read last.)     *)
(***************************************************************************)
THEOREM FilesWhatWasReviewed == Spec => []FiledAsReviewed
PROOF
  <1>1. Init => ReviewInv /\ TicketInv
    BY ReviewInit, TicketInit
  <1>2. JournalInv /\ ReviewInv /\ TicketInv /\ [Next]_vars => ReviewInv' /\ TicketInv'
    BY ReviewStep, TicketStep
  <1>3. ReviewInv => FiledAsReviewed
    BY FiledFromReview
  <1> QED BY <1>1, <1>2, <1>3, JournalIsSound, PTL DEF Spec

-----------------------------------------------------------------------------
(***************************************************************************)
(* Whole tickets, and the dispatcher's scan.                               *)
(***************************************************************************)
LEMMA TicketsStay ==
  ASSUME JournalInv, [Next]_vars, NEW k \in DOMAIN tickets
  PROVE  k \in DOMAIN tickets' /\ (Whole(k) => WholeIn(tickets', k))
PROOF
  <1>1. tickets \in [DOMAIN tickets -> Tickets]
    BY DEF JournalInv, TypeOK
  <1>2. CASE UNCHANGED tickets
    BY <1>2 DEF Whole, WholeIn
  <1>3. CASE CreateTicket
    <2>1. tickets' = IF runner.key \in DOMAIN tickets THEN tickets
                     ELSE [i \in DOMAIN tickets \cup {runner.key} |->
                             IF i = runner.key THEN [cluster |-> runner.cluster, whole |-> FALSE] ELSE tickets[i]]
      BY <1>3 DEF CreateTicket
    <2> QED BY <2>1 DEF Whole, WholeIn
  <1>4. CASE CompleteBlockers
    <2>1. tickets' = [tickets EXCEPT ![runner.key].whole = TRUE]
      BY <1>4 DEF CompleteBlockers
    <2>2. k \in DOMAIN tickets' /\ (tickets[k].whole => tickets'[k].whole)
      BY <1>1, <2>1 DEF Tickets
    <2> QED BY <2>2 DEF Whole, WholeIn
  <1> QED BY <1>2, <1>3, <1>4, TicketSteps

LEMMA WholeStays ==
  ASSUME JournalInv, [Next]_vars, NEW k, Whole(k)
  PROVE  WholeIn(tickets', k)
  BY TicketsStay DEF Whole, WholeIn

LEMMA FiledWhole ==
  ASSUME JournalInv, TicketInv, FiledIsWhole, [Next]_vars, NEW r \in Runs, NEW c \in journal'.runs[r].filed
  PROVE  WholeIn(tickets', journal'.runs[r].key[c])
PROOF
  <1> DEFINE run == journal.runs[r]
             new == journal'.runs[r]
  <1>1. run \in RunStates
    BY LastProposals
  <1>2. ASSUME Whole(run.key[c]), c \in Clusters PROVE WholeIn(tickets', new.key[c])
    <2>1. run.key[c] # 0
      <3>1. PICK p \in Reserved : KeyOf(p) = run.key[c]
        BY <1>2 DEF Whole, WholeIn, TicketInv, TicketsAreReserved
      <3> QED BY <3>1, PairOf
    <2>2. new.key[c] = run.key[c]
      BY <1>2, <2>1, RunsGrow DEF Extended
    <2> QED BY <1>2, <2>2, WholeStays
  <1>3. CASE c \in run.filed
    BY <1>1, <1>2, <1>3 DEF FiledIsWhole, RunStates
  <1>4. CASE c \notin run.filed
    <2>1. IsFiled(r, run, new)
      <3>1. ~IsClaimed(r, new)
        BY DEF IsClaimed, NoRun
      <3> QED BY <1>4, <3>1, RunSteps DEF RunStep, SameWork, IsGivenUp, IsReserved, IsAnswered
    <2>2. r = runner.run /\ runner.pc = "filed" /\ c = runner.cluster
      BY <1>4, <2>1 DEF IsFiled, File
    <2>3. c \in Clusters /\ runner.key = run.key[c]
      BY <2>2 DEF TicketInv, Creating, JournalInv, Reserving, Filed
    <2> QED BY <1>2, <2>2, <2>3 DEF FiledIsWhole
  <1> QED BY <1>3, <1>4

LEMMA FiledNext ==
  ASSUME JournalInv, TicketInv, FiledIsWhole, [Next]_vars
  PROVE  FiledIsWhole'
PROOF
  <1>1. tickets \in [DOMAIN tickets -> Tickets]
    BY DEF JournalInv, TypeOK
  <1> DEFINE Made == /\ runner.pc \in {"blockers", "filed"} => runner.key \in DOMAIN tickets
                     /\ runner.pc = "filed" => Whole(runner.key)
  <1>2. ASSUME runner'.pc \in {"blockers", "filed"} PROVE Made'
    <2>1. CASE NextProposal
      BY <1>2, <2>1, NextProposalMoves
    <2>2. CASE Reserve
      BY <1>2, <2>2, FilingMoves
    <2>3. CASE CreateTicket
      <3>1. runner.key \in DOMAIN tickets'
        BY <2>3, CreatedTicket DEF TicketInv
      <3>2. runner'.pc = "blockers" /\ runner'.key = runner.key
        BY <2>3, FilingMoves
      <3> QED BY <3>1, <3>2
    <2>4. CASE CompleteBlockers
      <3>1. runner.key \in DOMAIN tickets
        BY <2>4 DEF FiledIsWhole, CompleteBlockers
      <3>2. tickets' = [tickets EXCEPT ![runner.key].whole = TRUE]
        BY <2>4 DEF CompleteBlockers
      <3>3. runner.key \in DOMAIN tickets' /\ tickets'[runner.key].whole
        BY <1>1, <3>1, <3>2 DEF Tickets
      <3>4. runner'.key = runner.key
        BY <2>4, FilingMoves
      <3> QED BY <3>3, <3>4 DEF Whole, WholeIn
    <2>5. CASE UNCHANGED runner
      <3>1. Made
        BY DEF FiledIsWhole
      <3>2. ASSUME NEW k \in DOMAIN tickets PROVE k \in DOMAIN tickets' /\ (Whole(k) => WholeIn(tickets', k))
        BY <3>2, TicketsStay
      <3> QED BY <1>2, <2>5, <3>1, <3>2 DEF Whole, WholeIn
    <2> QED BY <1>2, <2>1, <2>2, <2>3, <2>4, <2>5, Moves DEF FilingSteps, Filed
  <1>3. Made'
    BY <1>2
  <1>4. (\A r \in Runs : \A c \in journal.runs[r].filed : Whole(journal.runs[r].key[c]))'
    BY FiledWhole DEF Whole
  <1> QED BY <1>3, <1>4 DEF FiledIsWhole

LEMMA ScanSteps ==
  ASSUME [Next]_vars
  PROVE  UNCHANGED scan \/ BeforeListing \/ List \/ AfterListing
PROOF
  <1>1. CASE RunnerStep
    BY <1>1 DEF RunnerStep, Launch, Begin, ControlRead, Act, Partition, Finalize, GiveUp, Settle, Select, Claim, Work, StartSession,
       EndTurn, FailSession, Escalate, NextProposal, Reserve, CreateTicket, CompleteBlockers, CreateFails, File, Complete,
       Others
  <1>2. ASSUME NEW a \in {"now", "old"}, AgentStep(a) PROVE UNCHANGED scan
    BY <1>2 DEF AgentStep, CheckTerminal, Deposit
  <1>3. CASE AgentFails \/ Crash \/ Shutdown \/ UNCHANGED vars \/ \E command \in {"pause", "resume"} : Request(command)
    BY <1>3 DEF AgentFails, Crash, Shutdown, vars, Request
  <1> QED BY <1>1, <1>2, <1>3 DEF Next

LEMMA KeyIsOf ==
  ASSUME NEW S, NEW p \in S
  PROVE  KeyOf(p) \in KeysOf(S)
  BY DEF KeyOf, KeysOf

LEMMA ScannedNext ==
  ASSUME JournalInv, TicketInv, ScanInv, [Next]_vars
  PROVE  Scanned'
PROOF
  <1>1. scan \in Scans /\ tickets \in [DOMAIN tickets -> Tickets]
    BY DEF JournalInv, TypeOK, Scans
  <1>2. \A p \in Reserved : p \in Reserved' /\ KeyOf(p)' = KeyOf(p)
    BY ReservedStays
  <1>3. CASE UNCHANGED scan
    <2>1. scan'.at # "none" => scan'.known \subseteq Reserved'
      BY <1>2, <1>3 DEF ScanInv, Scanned
    <2>2. ASSUME scan.at = "before", NEW p \in scan.known PROVE KeyOf(p)' \in scan'.held \cup scan'.idle \/ Whole(KeyOf(p))'
      <3>1. p \in Reserved /\ KeyOf(p)' = KeyOf(p)
        BY <1>2, <2>2 DEF ScanInv, Scanned
      <3>2. CASE KeyOf(p) \in scan.held \cup scan.idle
        BY <1>3, <3>1, <3>2
      <3>3. CASE Whole(KeyOf(p))
        <4>1. WholeIn(tickets', KeyOf(p))
          BY <3>3, WholeStays
        <4> QED BY <3>1, <4>1 DEF Whole
      <3> QED BY <2>2, <3>2, <3>3 DEF ScanInv, Scanned
    <2>3. ASSUME scan.at = "listed", NEW t \in scan.listed
          PROVE  t.whole \/ t.key \in scan'.held \cup scan'.idle \cup KeysOf(Reserved \ scan.known)'
      <3>1. t.whole \/ t.key \in scan.held \cup scan.idle \/ t.key \in KeysOf(Reserved \ scan.known)
        BY <2>3 DEF ScanInv, Scanned
      <3>2. ASSUME t.key \in KeysOf(Reserved \ scan.known) PROVE t.key \in KeysOf(Reserved \ scan.known)'
        <4>1. PICK p \in Reserved \ scan.known : t.key = KeyOf(p)
          BY <3>2 DEF KeysOf, KeyOf
        <4>2. p \in Reserved' \ scan'.known /\ KeyOf(p)' = t.key
          BY <1>2, <1>3, <4>1
        <4>3. KeysOf(Reserved \ scan.known)' = {KeyOf(q)' : q \in Reserved' \ scan'.known}
          BY DEF KeysOf, KeyOf
        <4> QED BY <4>2, <4>3
      <3> QED BY <1>3, <3>1, <3>2
    <2> QED BY <1>3, <2>1, <2>2, <2>3 DEF Scanned
  <1>4. CASE BeforeListing
    <2> DEFINE held == KeysOf(InFlight)
               idle == KeysOf({p \in Reserved : p[1] \notin Running})
    <2>1. scan' = [NoScan EXCEPT !.at = "before", !.held = held, !.known = Reserved, !.idle = idle]
      BY <1>4 DEF BeforeListing
    <2>2. UNCHANGED <<journal, tickets>>
      BY <1>4 DEF BeforeListing
    <2>3. ASSUME NEW p \in Reserved PROVE KeyOf(p) \in held \cup idle \/ Whole(KeyOf(p))
      <3>1. CASE p[1] \notin Running
        BY <3>1, KeyIsOf
      <3>2. CASE p[1] \in Running /\ p[2] \notin journal.runs[p[1]].filed
        BY <3>2, KeyIsOf DEF InFlight
      <3>3. CASE p[2] \in journal.runs[p[1]].filed
        BY <3>3, PairOf DEF ScanInv, FiledIsWhole, KeyOf
      <3> QED BY <3>1, <3>2, <3>3
    <2> HIDE DEF held, idle
    <2>4. scan'.at = "before" /\ scan'.held = held /\ scan'.idle = idle /\ scan'.known = Reserved
      BY <2>1 DEF NoScan
    <2>5. Reserved' = Reserved /\ \A p \in Reserved : KeyOf(p)' = KeyOf(p) /\ (Whole(KeyOf(p))' <=> Whole(KeyOf(p)))
      BY <2>2 DEF Reserved, KeyOf, Whole
    <2> QED BY <2>3, <2>4, <2>5 DEF Scanned
  <1>5. CASE List
    <2> DEFINE listed == {[key |-> k, whole |-> tickets[k].whole] : k \in DOMAIN tickets}
    <2>1. scan' = [scan EXCEPT !.at = "listed", !.listed = listed] /\ scan.at = "before"
      BY <1>5 DEF List
    <2>2. UNCHANGED journal
      BY <1>5 DEF List
    <2>3. ASSUME NEW t \in listed
          PROVE  t.whole \/ t.key \in scan.held \cup scan.idle \cup KeysOf(Reserved \ scan.known)
      <3>1. PICK k \in DOMAIN tickets : t.key = k /\ t.whole = tickets[k].whole
        BY <2>3
      <3>2. PICK p \in Reserved : KeyOf(p) = k
        BY <3>1 DEF TicketInv, TicketsAreReserved
      <3>3. CASE p \in scan.known
        BY <2>1, <3>1, <3>2, <3>3 DEF ScanInv, Scanned, Whole, WholeIn
      <3>4. CASE p \notin scan.known
        BY <3>1, <3>2, <3>4, KeyIsOf
      <3> QED BY <3>3, <3>4
    <2> HIDE DEF listed
    <2>4. /\ scan'.at = "listed" /\ scan'.listed = listed /\ scan'.held = scan.held /\ scan'.idle = scan.idle
          /\ scan'.known = scan.known
      BY <1>1, <2>1 DEF Scans
    <2>5. Reserved' = Reserved /\ KeysOf(Reserved \ scan.known)' = KeysOf(Reserved \ scan.known)
      BY <2>2, <2>4 DEF Reserved, KeysOf
    <2>6. scan'.known \subseteq Reserved'
      BY <2>1, <2>4, <2>5 DEF ScanInv, Scanned
    <2> QED BY <2>3, <2>4, <2>5, <2>6 DEF Scanned
  <1>6. CASE AfterListing
    BY <1>6 DEF AfterListing, NoScan, Scanned
  <1> QED BY <1>3, <1>4, <1>5, <1>6, ScanSteps

LEMMA ScanInit ==
  ASSUME Init
  PROVE  ScanInv
PROOF
  <1>1. \A r \in Runs : journal.runs[r].filed = {}
    BY DEF Init, NoRun
  <1>2. runner = Off /\ scan.at = "none"
    BY DEF Init, NoScan
  <1> QED BY <1>1, <1>2, OffType DEF ScanInv, FiledIsWhole, Scanned

LEMMA BareIsWithheld ==
  ASSUME ScanInv
  PROVE  HalfMadeWithheld
  BY DEF ScanInv, Scanned, HalfMadeWithheld, Dispatchable, Withheld

(***************************************************************************)
(* A ticket that lacked its blockers when it was listed is dispatched only *)
(* when its run was not at work as the scan began, whatever is reserved,   *)
(* created and filed between the three reads of a scan.  (The dispatcher   *)
(* withholds what was in flight before the listing and every reservation   *)
(* that came since.)                                                       *)
(***************************************************************************)
THEOREM HalfMadeIsWithheld == Spec => []HalfMadeWithheld
PROOF
  <1>1. Init => ScanInv /\ TicketInv
    BY ScanInit, TicketInit
  <1>2. JournalInv /\ TicketInv /\ ScanInv /\ [Next]_vars => TicketInv' /\ ScanInv'
    <2>1. JournalInv /\ TicketInv /\ ScanInv /\ [Next]_vars => FiledIsWhole'
      BY FiledNext DEF ScanInv
    <2> QED BY <2>1, ScannedNext, TicketStep DEF ScanInv
  <1>3. ScanInv => HalfMadeWithheld
    BY BareIsWithheld
  <1> QED BY <1>1, <1>2, <1>3, JournalIsSound, PTL DEF Spec
=============================================================================
