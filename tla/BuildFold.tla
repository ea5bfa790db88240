----------------------------- MODULE BuildFold -----------------------------
(***************************************************************************)
(* The build reducer as an incremental fold (kernel/incremental.ts over    *)
(* kernel/reducer.ts and kernel/verify-stage-state.ts): one reader folds   *)
(* the whole log, another carries an accumulator and advances it by        *)
(* batches.  The end of every batch repairs currentPhase and currentStep   *)
(* from the verify members that run, so where a batch ends may matter.     *)
(*                                                                         *)
(* The log is not kept: whole is its fold up to here without the repair,   *)
(* carried the carried accumulator, and ahead its clone, into which        *)
(* advance folds the events that carried has not.  A member is a verify    *)
(* occurrence, and the events of its one session are the member's.  The    *)
(* comparison of a member's seq with the cycle's is the set of members     *)
(* started since the last boundary.                                        *)
(***************************************************************************)
EXTENDS Integers, Sequences, FiniteSets, FiniteSetsExt, Functions

CONSTANT Members     \* occurrences of verify steps, [step, attempt]

ASSUME FoldAssumption == Members \cap {"none", "implement"} = {}

VARIABLES
  whole,     \* the accumulator of one batch from the beginning, before its end
  carried,   \* the carried accumulator
  ahead,     \* carried with the events that follow it folded in, before the end of the batch
  unread,    \* there are such events
  killed     \* history: members whose cancellation came before any outcome

foldVars == <<whole, carried, ahead, unread, killed>>

Phases == Members \cup {"none", "implement"}
Kinds == {"verify.started", "session.started", "verify.completed", "verify.cancelled",
          "escalation.raised", "escalation.answered", "escalation.aborted"}
LogEvents == [type : Kinds, member : Members]
               \cup [type : {"cycle", "implement.started", "implement.completed"}]

InitialAcc ==
  [order |-> <<>>,         \* members in the order of their first start
   fresh |-> {},           \* those started since the last cycle boundary
   owned |-> {}, outcomes |-> {}, cancelled |-> {}, concurrent |-> FALSE,
   currentPhase |-> "none", currentStep |-> "none",
   open |-> {}, answered |-> {}, aborts |-> {}, superseded |-> {}]

BuildAccs ==
  [order : Seq(Members),
   fresh : SUBSET Members, owned : SUBSET Members, outcomes : SUBSET Members,
   cancelled : SUBSET Members, concurrent : BOOLEAN,
   currentPhase : Phases, currentStep : Phases,
   open : SUBSET Members, answered : SUBSET Members, aborts : SUBSET Members,
   superseded : SUBSET Members]

-----------------------------------------------------------------------------
(* One event (foldBuild, advanceVerifyStage)                               *)

Running(a) == {m \in a.fresh : m \notin a.outcomes /\ m \notin a.cancelled}

\* complete(): close the current context if it is this phase.
Complete(a, p) == [a EXCEPT !.currentPhase = IF @ = p THEN "none" ELSE @]

StartMember(a, m) ==
  [a EXCEPT !.order = IF m \in Range(@) THEN @ ELSE Append(@, m),
            !.fresh = @ \cup {m},
            !.concurrent = @ \/ Running(a) \ {m} # {},
            !.currentPhase = m, !.currentStep = m]

\* An outcome after an effective cancellation is history.
CompleteMember(a, m) ==
  IF m \in a.cancelled THEN a
  ELSE Complete([a EXCEPT !.outcomes = @ \cup {m},
                          !.currentStep = IF @ = m THEN "none" ELSE @], m)

\* Mutant: a cancelled member stays the current phase.
CancelMember_Lingering(a, m) ==
  IF m \in a.outcomes \cup a.cancelled THEN a
  ELSE LET gone == {m} \cap a.owned \cap (a.open \cup a.answered)
       IN  [a EXCEPT !.cancelled = @ \cup {m},
                     !.open = @ \ gone, !.answered = @ \ gone,
                     !.aborts = @ \ gone, !.superseded = @ \cup gone]

\* A cancellation after an outcome is not effective.  An effective one takes the
\* questions of the member's session out of force, and the abort one was answered with.
CancelMember(a, m) ==
  IF m \in a.outcomes \cup a.cancelled THEN a
  ELSE LET gone == {m} \cap a.owned \cap (a.open \cup a.answered)
       IN  Complete([a EXCEPT !.cancelled = @ \cup {m},
                              !.open = @ \ gone, !.answered = @ \ gone,
                              !.aborts = @ \ gone, !.superseded = @ \cup gone], m)

\* Mutant: a question raised after its member was cancelled is open.
Raise_Open(a, m) == [a EXCEPT !.open = @ \cup {m}]

Raise(a, m) ==
  IF m \in a.owned \cap a.cancelled THEN [a EXCEPT !.superseded = @ \cup {m}]
  ELSE [a EXCEPT !.open = @ \cup {m}]

\* An answer without an open question is ignored; an abort is also a command.
Answer(a, m, abort) ==
  IF m \notin a.open THEN a
  ELSE [a EXCEPT !.open = @ \ {m}, !.answered = @ \cup {m},
                 !.aborts = IF abort THEN @ \cup {m} ELSE @]

FoldEvent(a, e) ==
  CASE e.type = "verify.started"      -> StartMember(a, e.member)
    [] e.type = "session.started"     -> [a EXCEPT !.owned = @ \cup ({e.member} \cap Range(a.order))]
    [] e.type = "verify.completed"    -> CompleteMember(a, e.member)
    [] e.type = "verify.cancelled"    -> CancelMember(a, e.member)
    [] e.type = "escalation.raised"   -> Raise(a, e.member)
    [] e.type = "escalation.answered" -> Answer(a, e.member, FALSE)
    [] e.type = "escalation.aborted"  -> Answer(a, e.member, TRUE)
    [] e.type = "cycle"               -> [a EXCEPT !.fresh = {}]
    [] e.type = "implement.started"   -> [a EXCEPT !.currentPhase = "implement"]
    [] OTHER                          -> Complete(a, "implement")

-----------------------------------------------------------------------------
(* The end of a batch                                                      *)

\* running.at(-1): the running member that was first started last.
LastRunning(a) == a.order[Max({i \in DOMAIN a.order : a.order[i] \in Running(a)})]

\* Mutant: the step is not cleared when no member runs.
Finish_NoReset(a) ==
  IF ~a.concurrent \/ Running(a) = {} THEN a
  ELSE [a EXCEPT !.currentStep = LastRunning(a),
                 !.currentPhase = IF @ = "implement" THEN @ ELSE LastRunning(a)]

Finish(a) ==
  IF ~a.concurrent THEN a
  ELSE IF Running(a) = {} THEN [a EXCEPT !.currentStep = "none"]
  ELSE [a EXCEPT !.currentStep = LastRunning(a),
                 !.currentPhase = IF @ = "implement" THEN @ ELSE LastRunning(a)]

AdvanceBatch ==
  /\ unread
  /\ carried' = Finish(ahead)
  /\ ahead' = carried'
  /\ unread' = FALSE
  /\ UNCHANGED <<whole, killed>>

-----------------------------------------------------------------------------
(* The writers of the log                                                  *)

Write(e) ==
  /\ whole' = FoldEvent(whole, e)
  /\ ahead' = FoldEvent(ahead, e)
  /\ unread' = TRUE
  /\ UNCHANGED carried

Event(type, m) == [type |-> type, member |-> m]
Settled(m) == m \in whole.outcomes \cup whole.cancelled
Implementing == whole.currentPhase = "implement"

\* The runner starts a member; after a crash once more.
Start(m) ==
  /\ ~Implementing /\ ~Settled(m)
  /\ Write(Event("verify.started", m))
  /\ UNCHANGED killed

Session(m) ==
  /\ m \in Range(whole.order) /\ m \notin whole.owned
  /\ Write(Event("session.started", m))
  /\ UNCHANGED killed

Asked(m) == m \in whole.open \cup whole.answered \cup whole.superseded

\* A verdict or a check's result; a session that asked has no more terminals.
Report(m) ==
  /\ m \in Range(whole.order) /\ m \notin whole.outcomes /\ ~Asked(m)
  /\ Write(Event("verify.completed", m))
  /\ UNCHANGED killed

\* The runner compares before it appends (cancelVerifyStage): here a cancellation may
\* also land after the outcome, which the fold has to bear.
Cancel(m) ==
  /\ m \in Range(whole.order) /\ m \notin whole.cancelled
  /\ Write(Event("verify.cancelled", m))
  /\ killed' = IF m \in whole.outcomes THEN killed ELSE killed \cup {m}

Escalate(m) ==
  /\ m \in whole.owned /\ m \notin whole.outcomes /\ ~Asked(m)
  /\ Write(Event("escalation.raised", m))
  /\ UNCHANGED killed

\* The human may answer what a cancellation has just taken out of force.
Reply(m) ==
  /\ Asked(m) /\ m \notin whole.answered
  /\ \E type \in {"escalation.answered", "escalation.aborted"} : Write(Event(type, m))
  /\ UNCHANGED killed

\* What changes the cycle: an approval or a reconcile when the members are through, or
\* spec.revised, which the answer to a question authorizes while members may still run.
NewCycle ==
  /\ whole.fresh # {}
  /\ Running(whole) = {} \/ whole.answered # {}
  /\ Write([type |-> "cycle"])
  /\ UNCHANGED killed

StartImplement ==
  /\ Running(whole) = {} /\ ~Implementing
  /\ Write([type |-> "implement.started"])
  /\ UNCHANGED killed

EndImplement ==
  /\ Implementing
  /\ Write([type |-> "implement.completed"])
  /\ UNCHANGED killed

FoldInit ==
  /\ whole = InitialAcc /\ carried = InitialAcc /\ ahead = InitialAcc
  /\ unread = FALSE /\ killed = {}

FoldNext ==
  \/ \E m \in Members : Start(m) \/ Session(m) \/ Report(m) \/ Cancel(m) \/ Escalate(m) \/ Reply(m)
  \/ NewCycle \/ StartImplement \/ EndImplement
  \/ AdvanceBatch

FoldSpec == FoldInit /\ [][FoldNext]_foldVars

-----------------------------------------------------------------------------
(* Properties                                                              *)

\* Types, and an order that names a member once.
FoldTypeOK ==
  /\ {whole, carried, ahead} \subseteq BuildAccs
  /\ \A a \in {whole, carried, ahead} : IsInjective(a.order)
  /\ unread \in BOOLEAN
  /\ killed \subseteq Members

\* Both have folded the same log.
Same == ~unread

\* Whatever the batches were, the two folds have the same members, fates, questions,
\* commands and running step (the contract of kernel/incremental.ts).
FactsAgree ==
  Same => \A f \in DOMAIN carried \ {"currentPhase"} : carried[f] = Finish(whole)[f]

\* The contract's exception: they differ in the current phase only when no member of the
\* cycle runs, and then what either of them calls running is a member that was started
\* before the cycle's boundary and never settled.
PhaseDiffersOnlyForOrphans ==
  Same /\ carried.currentPhase # Finish(whole).currentPhase =>
    /\ Running(whole) = {}
    /\ {carried.currentPhase, whole.currentPhase} \ {"none"}
         \subseteq Range(whole.order) \ (whole.outcomes \cup whole.cancelled)

\* A question of a session whose member was cancelled is in force nowhere, and neither is
\* the abort it was answered with, in whichever order the cancellation, the question and
\* the answer were appended; every other question is.
QuestionsFollowTheMember ==
  Same =>
    /\ carried.superseded = killed \cap (carried.open \cup carried.answered \cup carried.superseded)
    /\ carried.superseded \cap (carried.open \cup carried.answered \cup carried.aborts) = {}

=============================================================================
