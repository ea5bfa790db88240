------------------------------ MODULE Landing ------------------------------
(***************************************************************************)
(* How a leaf's pull request is merged: the dispatcher's poll arms and     *)
(* disarms the forge's native auto-merge (processes/dispatcher.ts          *)
(* checkPr), the runner cancels it before it replaces the head             *)
(* (kernel/landing-publication.ts), humans hold and consent, and the forge *)
(* merges by itself what is armed once its checks pass.                    *)
(*                                                                         *)
(* A candidate is its head: parent and cycle change with it.  A decision   *)
(* is of one candidate.  The dispatcher is one process, and its poll one   *)
(* step at a time; the runner is another; the forge a third.  Left     *)
(* out are pauses and open questions, retry delays, the forge's deferrals, *)
(* a pull request closed unmerged, and the acknowledgement of a command,   *)
(* which nothing here reads.                                               *)
(***************************************************************************)
EXTENDS Integers, FiniteSets

CONSTANTS
  MaxHeads,     \* heads the build ever publishes (bound)
  MaxCommands,  \* hold and merge commands (bound)
  MaxStops      \* polls and runs that fail or crash (bound)

ASSUME LandingAssumption == MaxHeads \in Nat \ {0} /\ MaxCommands \in Nat /\ MaxStops \in Nat

VARIABLES
  build,   \* what the build's log reduces to
  forge,   \* the pull request
  poll,    \* the dispatcher's poll
  runner,  \* the runner's publication
  spent    \* stops so far, what was verified, and what the head went through

vars == <<build, forge, poll, runner, spent>>

Heads == 1..MaxHeads

-----------------------------------------------------------------------------
(* The log (advanceLanding)                                                *)

NoReceipt == [on |-> "none", op |-> 0, decided |-> 0, command |-> 0]
NoCommand == [kind |-> "none", seq |-> 0]

\* Mutant: consent outlives a hold.
Authorized_Held(b) == b.decided # 0 /\ (b.command.kind = "land" \/ b.mode = "auto")
Authorized(b) ==
  /\ b.command.kind # "hold"
  /\ b.decided # 0
  /\ b.command.kind = "land" \/ b.mode = "auto"

\* The engine waits for the pull request.
Ready(b) == b.stage = "ready" /\ b.pr = "open"

\* Arming is acknowledged for the current decision and command, with nothing outstanding.
Acknowledged(b) ==
  /\ b.native.on = "on" /\ b.native.decided = b.decided /\ b.native.command = b.command.seq
  /\ ~b.pending

\* A receipt of an enable settles what was outstanding.
Receipt(on, settles) ==
  build' = [build EXCEPT
              !.native = [on |-> on, op |-> 0, decided |-> IF settles THEN build.decided ELSE 0,
                          command |-> IF settles THEN build.command.seq ELSE 0],
              !.pending = @ /\ ~settles]

-----------------------------------------------------------------------------
(* The poll: reading and disarming                                         *)

NoSnapshot == [stage |-> "none"]
Idle == [pc |-> "off", began |-> 0, live |-> FALSE, seen |-> [state |-> "open", armed |-> FALSE],
         ready |-> FALSE, off |-> FALSE, enable |-> FALSE, head |-> 0, decided |-> 0, st |-> NoSnapshot]

At(pc) == IF pc = "end" THEN [Idle EXCEPT !.pc = pc, !.began = poll.began] ELSE [poll EXCEPT !.pc = pc]
Go(pc) == poll' = At(pc)
LeavesForge == UNCHANGED <<forge, runner, spent>>
LeavesBuild == UNCHANGED <<build, runner, spent>>

\* A request that outlived its poll is settled at the forge before the next poll.
PollStart ==
  /\ poll.pc = "off" /\ ~build.done /\ forge.late = 0
  /\ poll' = [Idle EXCEPT !.pc = "read", !.st = build, !.began = forge.head, !.live = runner.pc # "off"]
  /\ UNCHANGED <<build, forge, runner, spent>>

PollRead ==
  /\ poll.pc = "read"
  /\ poll' = [poll EXCEPT !.seen = [state |-> forge.state, armed |-> forge.armed],
                          !.ready = forge.state = "open" /\ Ready(poll.st),
                          !.live = @ /\ forge.state # "open",
                          !.pc = IF forge.state = "open" THEN "converge" ELSE "settle"]
  /\ UNCHANGED <<build, forge, runner, spent>>

Disarmed == [forge EXCEPT !.armed = FALSE]

\* A replacement that was just published is disarmed before anything else; then whatever
\* is held, unready or undecided.
Converge ==
  LET st == poll.st
      replaced == st.native.op # 0 /\ st.pr = "open"
      undue == ~poll.ready \/ ~Authorized(st) \/ st.decided # st.head
  IN  /\ poll.pc = "converge"
      /\ forge' = IF (replaced \/ undue) /\ poll.seen.armed THEN Disarmed ELSE forge
      /\ poll' = [poll EXCEPT !.pc = "decide",
                              !.seen.armed = @ /\ ~replaced,
                              !.off = undue]
      /\ LeavesBuild

\* Mutant: a decision is made once.
Undecided_Once(b) == b.decided = 0
Undecided(b) == b.decided # b.head

\* Readiness and the decision are read and written against the newest log.
Decide ==
  /\ poll.pc = "decide"
  /\ IF poll.ready /\ Ready(build)
     THEN \E mode \in IF Undecided(build) THEN {"auto", "consent"} ELSE {build.mode} :
            /\ build' = IF Undecided(build) THEN [build EXCEPT !.decided = build.head, !.mode = mode] ELSE build
            /\ poll' = [poll EXCEPT !.st = build', !.pc = "withhold"]
     ELSE /\ poll' = [poll EXCEPT !.ready = FALSE, !.pc = "withhold"]
          /\ UNCHANGED build
  /\ LeavesForge

Withhold ==
  LET undue == ~poll.ready \/ ~Authorized(poll.st)
  IN  /\ poll.pc = "withhold"
      /\ forge' = IF undue /\ ~poll.off /\ poll.seen.armed THEN Disarmed ELSE forge
      /\ Go(IF undue THEN "withheld" ELSE "gate")
      /\ LeavesBuild

Withheld ==
  /\ poll.pc = "withheld"
  /\ IF build.native.on # "off" THEN Receipt("off", FALSE) ELSE UNCHANGED build
  /\ Go("gate")
  /\ LeavesForge

-----------------------------------------------------------------------------
(* The poll: arming                                                        *)

\* Mutant: what the poll decided on is good enough.
CanApply_Once(decided) == Ready(build) /\ build.decided = decided

\* The newest log still authorizes what the poll decided on.
CanApply(decided) == Ready(build) /\ Authorized(build) /\ build.decided = decided /\ build.head = decided

Maintains == Acknowledged(poll.st) /\ poll.seen.armed /\ ~poll.off /\ poll.ready

\* A conflict goes back to the runner; else arming is due unless it is acknowledged.
Gate ==
  /\ poll.pc = "gate"
  /\ \/ /\ forge.head < MaxHeads
        /\ build' = IF poll.st.pr = "conflicted" THEN build
                    ELSE [build EXCEPT !.pr = "conflicted", !.stage = IF @ = "ready" THEN "due" ELSE @]
        /\ Go("end")
     \/ /\ UNCHANGED build
        /\ Go(IF /\ Authorized(poll.st)
                 /\ ~poll.seen.armed \/ ~Acknowledged(poll.st) \/ Maintains
                 /\ Maintains \/ CanApply(poll.st.decided)
              THEN "inspect" ELSE "end")
  /\ LeavesForge

\* What is armed with the build's message needs no mutation, with another it is armed
\* anew; an ungated base is merged directly.
Inspect ==
  /\ poll.pc = "inspect"
  /\ \/ /\ forge.state # "open" /\ poll.st.pending
        /\ poll' = [Idle EXCEPT !.began = poll.began, !.enable = TRUE, !.pc = "undo"]
     \/ /\ (forge.state # "open" /\ ~poll.st.pending) \/ (forge.armed /\ Maintains)
        /\ Go("end")
     \/ \E matches \in BOOLEAN :
          /\ forge.state = "open" /\ (forge.armed /\ Maintains => ~matches)
          /\ poll' = [Idle EXCEPT !.began = poll.began, !.decided = poll.st.decided,
                                  !.head = forge.head, !.enable = poll.st.pending,
                                  !.pc = CASE forge.armed -> IF matches THEN "confirm" ELSE "mend"
                                           [] ~forge.armed /\ forge.gated -> "guard"
                                           [] OTHER -> "direct"]
  /\ UNCHANGED <<build, forge, runner, spent>>

\* Mutant: the enable is not recorded before it is sent.
Guard_Silent ==
  /\ poll.pc = "guard"
  /\ Go(IF CanApply(poll.decided) THEN "enable" ELSE IF poll.enable THEN "undo" ELSE "end")
  /\ UNCHANGED <<build, forge, runner, spent>>

\* The last look before a mutation, and the record that one is under way.
Mutates(pc) ==
  /\ IF CanApply(poll.decided)
     THEN /\ build' = [build EXCEPT !.pending = TRUE]
          /\ poll' = [poll EXCEPT !.enable = TRUE, !.pc = pc]
     ELSE /\ Go(IF poll.enable THEN "undo" ELSE "end")
          /\ UNCHANGED build
  /\ LeavesForge

Guard == poll.pc = "guard" /\ Mutates("enable")

Mend == poll.pc = "mend" /\ Mutates("unarm")

Unarm ==
  /\ poll.pc = "unarm"
  /\ forge' = Disarmed
  /\ Go("reinspect")
  /\ LeavesBuild

Reinspect ==
  /\ poll.pc = "reinspect"
  /\ Go(IF forge.state = "open" /\ forge.head = poll.head /\ ~forge.armed THEN "guard" ELSE "undo")
  /\ UNCHANGED <<build, forge, runner, spent>>

\* The forge arms the expected head only.
Armed(head) == [forge EXCEPT !.armed = @ \/ (forge.state = "open" /\ forge.head = head)]

Enable ==
  /\ poll.pc = "enable"
  /\ forge' = Armed(poll.head)
  /\ Go("readback")
  /\ LeavesBuild

Readback ==
  /\ poll.pc = "readback"
  /\ Go(IF forge.state = "open" /\ forge.head = poll.head /\ forge.armed THEN "confirm" ELSE "undo")
  /\ UNCHANGED <<build, forge, runner, spent>>

\* Applied: the receipt, if the log still wants it.
Confirm ==
  /\ poll.pc = "confirm"
  /\ IF CanApply(poll.decided)
     THEN /\ Go("end")
          /\ IF build.pending \/ ~Acknowledged(build) THEN Receipt("on", poll.enable) ELSE UNCHANGED build
     ELSE Go("undo") /\ UNCHANGED build
  /\ LeavesForge

Undo ==
  /\ poll.pc = "undo"
  /\ forge' = Disarmed
  /\ Go("undone")
  /\ LeavesBuild

Undone ==
  /\ poll.pc = "undone"
  /\ Receipt("off", poll.enable)
  /\ Go("end")
  /\ LeavesForge

Direct ==
  /\ poll.pc = "direct"
  /\ Go(IF CanApply(poll.decided) THEN "squash" ELSE "end")
  /\ UNCHANGED <<build, forge, runner, spent>>

Merged(by) == [forge EXCEPT !.state = "merged", !.by = by, !.armed = FALSE]

\* A direct merge is of the head that was inspected.
Squash ==
  /\ poll.pc = "squash"
  /\ forge' = IF forge.state = "open" /\ forge.head = poll.head THEN Merged("direct") ELSE forge
  /\ Go("end")
  /\ LeavesBuild

-----------------------------------------------------------------------------
(* The poll: settling                                                      *)

Confirmed(st) == st.native.on = "off" /\ ~st.pending

Settle ==
  LET st == poll.st
  IN  /\ poll.pc = "settle"
      /\ Go(IF poll.live THEN "end" ELSE "complete")
      /\ build' = IF ~poll.live /\ poll.seen.state = "merged" /\ ~Authorized(st) /\ st.contrary = "none"
                  THEN [build EXCEPT !.contrary = IF Confirmed(st) THEN "human" ELSE "possible-stale-enable"]
                  ELSE build
      /\ LeavesForge

Complete ==
  /\ poll.pc = "complete"
  /\ build' = [build EXCEPT !.pr = poll.seen.state, !.done = TRUE]
  /\ Go("end")
  /\ LeavesForge

\* A whole poll of a head lies behind it, and the head is not merged.
PollEnd ==
  /\ poll.pc = "end"
  /\ poll' = Idle
  /\ spent' = [spent EXCEPT !.polled = @ \/ (poll.began = forge.head /\ forge.state = "open")]
  /\ UNCHANGED <<build, forge, runner>>

\* The dispatcher dies, or a request fails: an enable may be on its way nevertheless.
PollStops ==
  /\ poll.pc # "off" /\ spent.stops < MaxStops
  /\ poll' = Idle
  /\ spent' = [spent EXCEPT !.stops = @ + 1]
  /\ \E late \in {0} \cup {h \in Heads : poll.pc = "enable" /\ h = poll.head} :
       forge' = [forge EXCEPT !.late = IF late = 0 THEN @ ELSE late]
  /\ UNCHANGED <<build, runner>>

-----------------------------------------------------------------------------
(* The runner: a replacement head (suspendNativeLanding, publishRestack)   *)

Publish(pc) == runner' = [runner EXCEPT !.pc = pc]
GiveUpPublishing ==
  /\ Publish("off")
  /\ build' = [build EXCEPT !.stage = IF @ = "work" THEN "due" ELSE @]

StartWork ==
  /\ runner.pc = "off" /\ build.stage \in {"due", "verify"} /\ ~build.done
  /\ build' = [build EXCEPT !.stage = IF @ = "due" THEN "work" ELSE @]
  /\ Publish(IF build.stage = "due" THEN "suspend" ELSE "verify")
  /\ UNCHANGED <<forge, poll, spent>>

Suspended(b) ==
  /\ b.native.on = "off" /\ b.native.op = b.head
  /\ b.native.decided = b.decided /\ b.native.command = b.command.seq

Suspend ==
  /\ runner.pc = "suspend"
  /\ IF forge.state # "open" THEN GiveUpPublishing
     ELSE /\ Publish(CASE forge.armed -> "cancel"
                       [] ~forge.armed /\ ~Suspended(build) -> "receipt"
                       [] OTHER -> "push")
          /\ UNCHANGED build
  /\ UNCHANGED <<forge, poll, spent>>

Cancel ==
  /\ runner.pc = "cancel"
  /\ forge' = Disarmed
  /\ Publish("receipt")
  /\ UNCHANGED <<build, poll, spent>>

Suspension ==
  /\ runner.pc = "receipt"
  /\ build' = [build EXCEPT !.native = [on |-> "off", op |-> build.head, decided |-> build.decided,
                                        command |-> build.command.seq]]
  /\ Publish("reread")
  /\ UNCHANGED <<forge, poll, spent>>

Reread ==
  /\ runner.pc = "reread"
  /\ IF forge.state # "open" \/ forge.armed THEN GiveUpPublishing ELSE Publish("push") /\ UNCHANGED build
  /\ UNCHANGED <<forge, poll, spent>>

\* The branch is replaced if it is where the log says, or already was by an earlier try.
\* A request that was armed since the publisher's last look stays armed on the new head.
Push ==
  LET replaces == forge.state = "open" /\ forge.head = build.head
  IN  /\ runner.pc = "push"
      /\ forge' = IF replaces THEN [forge EXCEPT !.head = @ + 1] ELSE forge
      /\ spent' = IF replaces THEN [spent EXCEPT !.polled = FALSE, !.carried = forge.armed] ELSE spent
      /\ Publish("record")
      /\ UNCHANGED <<build, poll>>

Record ==
  /\ runner.pc = "record"
  /\ IF forge.head = build.head THEN GiveUpPublishing
     ELSE /\ build' = [build EXCEPT !.head = forge.head, !.stage = "verify",
                                    !.pr = IF @ = "conflicted" THEN "open" ELSE @]
          /\ Publish("verify")
  /\ UNCHANGED <<forge, poll, spent>>

Verify ==
  /\ runner.pc = "verify"
  /\ build' = [build EXCEPT !.stage = IF build.pr = "conflicted" THEN "due" ELSE "ready"]
  /\ spent' = [spent EXCEPT !.verified = @ \cup {build.head}]
  /\ Publish("off")
  /\ UNCHANGED <<forge, poll>>

RunnerStops ==
  /\ runner.pc # "off" /\ spent.stops < MaxStops
  /\ spent' = [spent EXCEPT !.stops = @ + 1]
  /\ GiveUpPublishing
  /\ UNCHANGED <<forge, poll>>

-----------------------------------------------------------------------------
(* Humans and the forge                                                    *)

Command(kind) ==
  /\ build.command.seq < MaxCommands /\ ~build.done
  /\ build' = [build EXCEPT !.command = [kind |-> kind, seq |-> @.seq + 1]]
  /\ UNCHANGED <<forge, poll, runner, spent>>

Hold == Command("hold")

\* A merge command is refused while a phase runs and without a current decision; that work
\* is due again does not refuse it.
Land ==
  /\ build.stage \in {"ready", "due"} /\ build.pr = "open" /\ build.decided = build.head
  /\ Command("land")

\* New work on a build that waits: a revision, or a base that moved.
Demand ==
  /\ Ready(build) /\ build.head < MaxHeads
  /\ build' = [build EXCEPT !.stage = "due"]
  /\ UNCHANGED <<forge, poll, runner, spent>>

HumanMerges ==
  /\ forge.state = "open"
  /\ forge' = Merged("human")
  /\ UNCHANGED <<build, poll, runner, spent>>

ForgeMerges ==
  /\ forge.state = "open" /\ forge.armed
  /\ forge' = Merged("native")
  /\ UNCHANGED <<build, poll, runner, spent>>

\* An enable that outlived its request.
LateEnable ==
  /\ forge.late # 0
  /\ \E arms \in BOOLEAN : forge' = [(IF arms THEN Armed(forge.late) ELSE forge) EXCEPT !.late = 0]
  /\ UNCHANGED <<build, poll, runner, spent>>

-----------------------------------------------------------------------------

Init ==
  /\ build = [head |-> 1, stage |-> "ready", pr |-> "open", decided |-> 0, mode |-> "consent",
              command |-> NoCommand, native |-> NoReceipt, pending |-> FALSE,
              contrary |-> "none", done |-> FALSE]
  /\ \E gated \in BOOLEAN :
       forge = [head |-> 1, armed |-> FALSE, state |-> "open", by |-> "none", late |-> 0, gated |-> gated]
  /\ poll = Idle
  /\ runner = [pc |-> "off"]
  /\ spent = [stops |-> 0, verified |-> {1}, polled |-> FALSE, carried |-> FALSE]

PollStep ==
  \/ PollStart \/ PollRead \/ Converge \/ Decide \/ Withhold \/ Withheld
  \/ Gate \/ Inspect \/ Guard \/ Mend \/ Unarm \/ Reinspect \/ Enable \/ Readback \/ Confirm \/ Undo \/ Undone
  \/ Direct \/ Squash \/ Settle \/ Complete \/ PollEnd

RunnerStep == StartWork \/ Suspend \/ Cancel \/ Suspension \/ Reread \/ Push \/ Record \/ Verify

Next ==
  \/ PollStep \/ PollStops
  \/ RunnerStep \/ RunnerStops
  \/ Hold \/ Land \/ Demand \/ HumanMerges
  \/ ForgeMerges \/ LateEnable

Fairness == WF_vars(PollStep) /\ WF_vars(RunnerStep) /\ WF_vars(LateEnable)

Spec == Init /\ [][Next]_vars /\ Fairness

-----------------------------------------------------------------------------
(* Properties                                                              *)

Builds ==
  [head : Heads, stage : {"ready", "due", "work", "verify"}, pr : {"open", "conflicted", "merged"},
   decided : Heads \cup {0}, mode : {"auto", "consent"},
   command : [kind : {"none", "hold", "land"}, seq : 0..MaxCommands],
   native : [on : {"none", "on", "off"}, op : Heads \cup {0}, decided : Heads \cup {0},
             command : 0..MaxCommands],
   pending : BOOLEAN, contrary : {"none", "human", "possible-stale-enable"}, done : BOOLEAN]
States == {"open", "merged"}
Forges == [head : Heads, armed : BOOLEAN, state : States, by : {"none", "human", "native", "direct"},
           late : Heads \cup {0}, gated : BOOLEAN]
\* Where a poll holds what it read of the log, and where only what it decided on.
Reading == {"read", "converge", "decide", "withhold", "withheld", "gate", "inspect", "settle", "complete"}
Applying == {"guard", "mend", "unarm", "reinspect", "enable", "readback", "confirm", "undo", "undone", "direct", "squash"}
Working == {"suspend", "cancel", "receipt", "reread", "push", "record"}

\* Types, and a forge that is at most one publication ahead of the log.
TypeOK ==
  /\ build \in Builds /\ forge \in Forges
  /\ poll \in [pc : {"off", "end"} \cup Reading \cup Applying, began : Heads \cup {0}, live : BOOLEAN,
               seen : [state : States, armed : BOOLEAN], ready : BOOLEAN, off : BOOLEAN,
               enable : BOOLEAN, head : Heads \cup {0}, decided : Heads \cup {0},
               st : Builds \cup {NoSnapshot}]
  /\ runner \in [pc : {"off", "verify"} \cup Working]
  /\ spent \in [stops : 0..MaxStops, verified : SUBSET Heads, polled : BOOLEAN, carried : BOOLEAN]
  /\ forge.head \in {build.head, build.head + 1}

Good == forge.head \in spent.verified /\ forge.head = build.decided

\* What Autobuild has merged, natively or directly, is a head it verified and decided on.
\* The exception is the forge's: an enable for the old head that arrives between the
\* publisher's last look and its push is carried over to the new head, and that head may
\* merge unverified for as long as no poll that began with it has ended.  A direct merge
\* knows no exception.
VerifiedLands ==
  forge.by \in {"native", "direct"} =>
    \/ Good
    \/ forge.by = "native" /\ spent.carried /\ ~spent.polled

\* The log never calls native auto-merge off, with nothing outstanding, while it is armed.
ArmedIsKnown == forge.armed => ~Confirmed(build)

\* A hold that stands ends with the request disarmed for good.
HoldDisarms == <>[](build.command.kind = "hold") => <>[](~forge.armed)

\* An authorized candidate is armed or merged, or something takes its place.
CandidateArms ==
  (build.stage = "ready" /\ Authorized(build)) ~>
    (forge.armed \/ forge.state # "open" \/ build.stage # "ready" \/ ~Authorized(build))
=============================================================================
