--------------------------- MODULE LandingProofs ---------------------------
(***************************************************************************)
(* What the log knows of native auto-merge, and what Autobuild has merged, *)
(* for any number of heads, commands and crashes.                          *)
(***************************************************************************)
EXTENDS Landing, TLAPS

Commands == [kind : {"none", "hold", "land"}, seq : 0..MaxCommands]
Polls == [pc : {"off", "end"} \cup Reading \cup Applying, began : Heads \cup {0}, live : BOOLEAN,
          seen : [state : States, armed : BOOLEAN], ready : BOOLEAN, off : BOOLEAN,
          enable : BOOLEAN, head : Heads \cup {0}, decided : Heads \cup {0},
          st : Builds \cup {NoSnapshot}]
Runners == [pc : {"off", "verify"} \cup Working]
Histories == [stops : 0..MaxStops, verified : SUBSET Heads, polled : BOOLEAN, carried : BOOLEAN]

(***************************************************************************)
(* What the types need to be inductive: a poll that reads the log has      *)
(* read it; where another head is due there is room for one; and the       *)
(* publisher works on a build that is at work.                             *)
(***************************************************************************)
Snapshot == poll.pc \in Reading => poll.st \in Builds
Due(b) == b.stage \in {"due", "work"} \/ b.pr = "conflicted"
Room == Due(build) => build.head < MaxHeads

AtWork == runner.pc \in Working => build.stage = "work"

TypeInv == TypeOK /\ Snapshot /\ Room /\ AtWork

(***************************************************************************)
(* The strengthening.  While a poll runs nothing but the poll arms, so     *)
(* what it read as disarmed stays so until it enables; an enable under way *)
(* is on record; and the publisher, whose receipt says off, works on a     *)
(* build for which no poll can confirm an enable.                          *)
(***************************************************************************)
LateKnown == forge.late # 0 => poll.pc = "off" /\ build.pending
SeenArmed == poll.pc \in {"converge", "decide", "withhold"} /\ forge.armed => poll.seen.armed
OffDisarmed == poll.pc \in {"decide", "withhold"} /\ forge.armed => ~poll.off
Cancelled == poll.pc \in {"withheld", "undone"} => ~forge.armed
EnableKnown == poll.pc \in {"unarm", "enable", "readback"} => build.pending
Suspending == runner.pc = "receipt" /\ forge.armed => build.pending

ArmedInv ==
  /\ LateKnown /\ SeenArmed /\ OffDisarmed /\ Cancelled /\ EnableKnown
  /\ Suspending /\ ArmedIsKnown

(***************************************************************************)
(* Why what lands is what was verified.  A candidate is good while the     *)
(* forge's head is the one decided on and verified.  A push may carry an   *)
(* armed request over to a head that is not good, and nothing else leads   *)
(* to one: what arms or merges names the head it expects, which is never   *)
(* past the decision.  The first poll that begins at such a head disarms   *)
(* it, because what it read of the log was not ready or not decided, so    *)
(* once a poll has passed converge an armed head it began with is good.    *)
(***************************************************************************)
DecidedVerified == build.decided <= build.head /\ build.decided \in spent.verified \cup {0}
AtRest ==
  /\ build.stage \in {"ready", "verify"} => forge.head = build.head
  /\ build.stage = "ready" => build.head \in spent.verified
  /\ runner.pc = "verify" => build.stage = "verify"
Behind == poll.began <= forge.head /\ poll.head <= forge.head
Open ==
  /\ forge.armed => forge.state = "open"
  /\ forge.state = "open" => forge.by = "none"
  /\ poll.pc \in {"settle", "complete"} => forge.state # "open"
Expected ==
  /\ poll.pc \in {"enable", "squash"} => poll.head <= build.decided
  /\ forge.late <= build.decided
Current(st) == Ready(st) /\ st.decided = st.head
ReadGood == poll.pc \in {"read", "converge"} /\ poll.began = forge.head /\ Current(poll.st) => Good
ReadyRead == poll.pc = "converge" /\ poll.ready => Ready(poll.st)
PassedGood ==
  poll.pc \notin {"off", "read", "converge"} /\ poll.began = forge.head /\ forge.armed => Good
ArmedGood == forge.armed => Good \/ (spent.carried /\ ~spent.polled)

LandInv ==
  /\ DecidedVerified /\ AtRest /\ Behind /\ Open /\ Expected
  /\ ReadGood /\ ReadyRead /\ PassedGood /\ ArmedGood /\ VerifiedLands

-----------------------------------------------------------------------------
(* Types                                                                   *)

LEMMA HeadsType == 1 \in Heads /\ \A h \in Heads : h \in Nat /\ h <= MaxHeads /\ h # 0
  BY LandingAssumption DEF Heads

LEMMA NextHead == \A h \in Heads : h < MaxHeads => h + 1 \in Heads
  BY LandingAssumption DEF Heads

LEMMA IdleType == Idle \in Polls /\ Idle.pc = "off"
  BY DEF Idle, Polls, States

LEMMA InitTypes == Init => TypeInv
PROOF
  <1> SUFFICES ASSUME Init PROVE TypeInv OBVIOUS
  <1> USE LandingAssumption, HeadsType
  <1>1. build \in Builds BY DEF Init, Builds, NoCommand, NoReceipt
  <1>2. forge \in Forges BY DEF Init, Forges, States
  <1>3. poll \in Polls /\ poll.pc = "off" BY IdleType DEF Init
  <1>4. runner \in Runners BY DEF Init, Runners
  <1>5. spent \in Histories BY DEF Init, Histories
  <1>6. Snapshot BY <1>3 DEF Snapshot, Reading
  <1>7. Room BY DEF Room, Due, Init
  <1>8. forge.head \in {build.head, build.head + 1} BY DEF Init
  <1>9. AtWork BY DEF AtWork, Working, Init
  <1> QED BY <1>1, <1>2, <1>3, <1>4, <1>5, <1>6, <1>7, <1>8, <1>9 DEF TypeInv, TypeOK, Polls, Runners, Histories

(***************************************************************************)
(* The poll's step of one program point keeps the poll's shape.            *)
(***************************************************************************)
LEMMA GoType ==
  ASSUME TypeInv, NEW pc \in {"end"} \cup Reading \cup Applying, Go(pc),
         poll.pc \in Reading \/ pc \notin Reading
  PROVE  poll' \in Polls /\ (poll'.pc \in Reading => poll'.st \in Builds) /\ poll'.pc = pc
PROOF
  <1>1. poll \in Polls BY DEF TypeInv, TypeOK, Polls
  <1>2. CASE pc = "end"
    BY <1>1, <1>2, IdleType DEF Go, At, Polls, Reading
  <1>3. CASE pc # "end"
    BY <1>1, <1>3 DEF Go, At, Polls, TypeInv, Snapshot
  <1> QED BY <1>2, <1>3

(***************************************************************************)
(* A step that changes neither heads nor what is due, on the log's side    *)
(* and the forge's.                                                        *)
(***************************************************************************)
HeadsKept ==
  /\ build'.head = build.head /\ forge'.head = forge.head /\ (Due(build') => Due(build))
  /\ runner'.pc \in Working => build'.stage = "work"
Shaped ==
  /\ build' \in Builds /\ forge' \in Forges
  /\ poll' \in Polls /\ (poll'.pc \in Reading => poll'.st \in Builds)
  /\ runner' \in Runners
  /\ spent' \in Histories

LEMMA KeptTypes == ASSUME TypeInv, HeadsKept, Shaped PROVE TypeInv'
  BY DEF TypeInv, TypeOK, HeadsKept, Shaped, Snapshot, Room, AtWork, Polls, Runners, Histories, Due

LEMMA ReceiptType ==
  ASSUME TypeInv, NEW on \in {"on", "off"}, NEW settles \in BOOLEAN, Receipt(on, settles)
  PROVE  /\ build' \in Builds /\ build'.head = build.head /\ build'.native.on = on
         /\ build'.pending = (build.pending /\ ~settles)
         /\ build'.stage = build.stage /\ build'.pr = build.pr
PROOF
  <1>1. build \in Builds BY DEF TypeInv, TypeOK
  <1>2. (IF settles THEN build.decided ELSE 0) \in Heads \cup {0} BY <1>1 DEF Builds
  <1>3. (IF settles THEN build.command.seq ELSE 0) \in 0..MaxCommands
    BY <1>1, LandingAssumption DEF Builds
  <1> DEFINE decided == IF settles THEN build.decided ELSE 0
             command == IF settles THEN build.command.seq ELSE 0
             native == [on |-> on, op |-> 0, decided |-> decided, command |-> command]
  <1>4. native \in [on : {"none", "on", "off"}, op : Heads \cup {0}, decided : Heads \cup {0},
                    command : 0..MaxCommands]
    BY <1>2, <1>3
  <1>5. native.on = on OBVIOUS
  <1>6. (build.pending /\ ~settles) \in BOOLEAN OBVIOUS
  <1>7. build' = [build EXCEPT !.native = native, !.pending = @ /\ ~settles] BY DEF Receipt
  <1> HIDE DEF native
  <1> QED BY <1>1, <1>4, <1>5, <1>6, <1>7 DEF Builds

LEMMA PollTypes == ASSUME TypeInv, PollStep PROVE TypeInv'
PROOF
  <1>0. /\ build \in Builds /\ forge \in Forges /\ poll \in Polls /\ runner \in Runners
        /\ spent \in Histories
        /\ (poll.pc \in Reading => poll.st \in Builds)
        /\ (Due(build) => build.head < MaxHeads)
        /\ forge.head \in {build.head, build.head + 1}
        /\ (runner.pc \in Working => build.stage = "work")
    BY DEF TypeInv, TypeOK, Polls, Runners, Histories, Snapshot, Room, AtWork
  <1>d. Disarmed \in Forges /\ Disarmed.head = forge.head BY <1>0 DEF Disarmed, Forges
  <1> DEFINE Forgeless == LeavesForge /\ HeadsKept /\ build' \in Builds /\ poll' \in Polls
                          /\ (poll'.pc \in Reading => poll'.st \in Builds)
  <1>l. Forgeless => TypeInv' BY <1>0, KeptTypes DEF LeavesForge, Shaped
  <1> DEFINE Logless == LeavesBuild /\ HeadsKept /\ forge' \in Forges /\ poll' \in Polls
                        /\ (poll'.pc \in Reading => poll'.st \in Builds)
  <1>f. Logless => TypeInv' BY <1>0, KeptTypes DEF LeavesBuild, Shaped
  <1>1. CASE PollStart
    <2> DEFINE live == runner.pc # "off"
    <2>0. poll' = [Idle EXCEPT !.pc = "read", !.st = build, !.began = forge.head, !.live = live]
      BY <1>1 DEF PollStart
    <2>a. live \in BOOLEAN /\ forge.head \in Heads BY <1>0 DEF Forges
    <2> HIDE DEF live
    <2>1. poll' \in Polls /\ poll'.st = build
      BY <1>0, <2>0, <2>a, IdleType DEF Polls, Reading
    <2> QED BY <1>0, <1>1, <1>l, <2>1 DEF PollStart, HeadsKept, LeavesForge
  <1>2. CASE PollRead
    <2> DEFINE seen == [state |-> forge.state, armed |-> forge.armed]
               ready == forge.state = "open" /\ Ready(poll.st)
               live == poll.live /\ forge.state # "open"
               pc == IF forge.state = "open" THEN "converge" ELSE "settle"
    <2>0. poll' = [poll EXCEPT !.seen = seen, !.ready = ready, !.live = live, !.pc = pc]
      BY <1>2 DEF PollRead
    <2>a. seen \in [state : States, armed : BOOLEAN] /\ ready \in BOOLEAN /\ live \in BOOLEAN
      BY <1>0 DEF Forges, Ready
    <2>b. pc \in {"converge", "settle"} /\ poll.pc = "read" BY <1>2 DEF PollRead
    <2> HIDE DEF seen, ready, live, pc
    <2>1. poll' \in Polls /\ poll'.st = poll.st /\ poll.pc \in Reading
      BY <1>0, <2>0, <2>a, <2>b DEF Polls, Reading
    <2> QED BY <1>0, <1>2, <1>l, <2>1 DEF PollRead, HeadsKept, LeavesForge
  <1>3. CASE Converge
    <2> DEFINE undue == ~poll.ready \/ ~Authorized(poll.st) \/ poll.st.decided # poll.st.head
               armed == poll.seen.armed /\ ~(poll.st.native.op # 0 /\ poll.st.pr = "open")
    <2>0. poll' = [poll EXCEPT !.pc = "decide", !.seen.armed = armed, !.off = undue]
      BY <1>3 DEF Converge
    <2>a. armed \in BOOLEAN /\ undue \in BOOLEAN BY <1>0 DEF Polls
    <2>b. poll.pc \in Reading BY <1>3 DEF Converge, Reading
    <2> HIDE DEF undue, armed
    <2>1. poll' \in Polls /\ poll'.st = poll.st /\ poll.pc \in Reading
      BY <1>0, <2>0, <2>a, <2>b DEF Polls, Reading
    <2>2. forge' \in {forge, Disarmed} BY <1>3 DEF Converge
    <2> QED BY <1>0, <1>3, <1>d, <1>f, <2>1, <2>2 DEF Converge, HeadsKept, LeavesBuild
  <1>4. CASE Decide
    <2>1. poll.pc \in Reading BY <1>4 DEF Decide, Reading
    <2>2. build' \in Builds /\ build'.head = build.head /\ build'.stage = build.stage /\ (Due(build') => Due(build))
      <3>1. CASE UNCHANGED build BY <1>0, <3>1
      <3>2. CASE ~UNCHANGED build
        <4>1. PICK mode \in {"auto", "consent"} :
                 build' = [build EXCEPT !.decided = build.head, !.mode = mode]
          BY <1>4, <3>2 DEF Decide
        <4> QED BY <1>0, <4>1 DEF Builds, Due
      <3> QED BY <3>1, <3>2
    <2>3. poll' \in Polls /\ poll'.st \in Builds
      <3>1. CASE poll' = [poll EXCEPT !.st = build', !.pc = "withhold"]
        BY <1>0, <2>2, <3>1 DEF Polls, Reading
      <3>2. CASE poll' = [poll EXCEPT !.ready = FALSE, !.pc = "withhold"]
        BY <1>0, <2>1, <3>2 DEF Polls, Reading
      <3> QED BY <1>4, <3>1, <3>2 DEF Decide
    <2> QED BY <1>0, <1>4, <1>l, <2>2, <2>3 DEF Decide, HeadsKept, LeavesForge
  <1>5. CASE Withhold
    <2>1. poll' \in Polls /\ (poll'.pc \in Reading => poll'.st \in Builds)
      BY <1>5, GoType DEF Withhold, Reading
    <2>2. forge' \in {forge, Disarmed} BY <1>5 DEF Withhold
    <2> QED BY <1>0, <1>5, <1>d, <1>f, <2>1, <2>2 DEF Withhold, HeadsKept, LeavesBuild
  <1>6. CASE Withheld
    <2>1. poll' \in Polls /\ (poll'.pc \in Reading => poll'.st \in Builds)
      BY <1>6, GoType DEF Withheld, Reading
    <2>2. build' \in Builds /\ build'.head = build.head /\ build'.stage = build.stage /\ build'.pr = build.pr
      BY <1>0, <1>6, ReceiptType DEF Withheld
    <2> QED BY <1>0, <1>6, <1>l, <2>1, <2>2 DEF Withheld, HeadsKept, LeavesForge, Due
  <1>7. CASE Gate
    <2>1. CASE UNCHANGED build
      <3>1. \E pc \in {"inspect", "end"} : Go(pc) BY <1>7, <2>1 DEF Gate
      <3>2. poll' \in Polls /\ (poll'.pc \in Reading => poll'.st \in Builds)
        BY <1>7, <3>1, GoType DEF Gate, Reading
      <3> QED BY <1>7, <1>0, <1>l, <2>1, <3>2 DEF Gate, HeadsKept, LeavesForge
    <2>2. CASE ~UNCHANGED build
      <3>1. /\ forge.head < MaxHeads /\ Go("end") /\ UNCHANGED <<forge, runner, spent>>
            /\ build' = [build EXCEPT !.pr = "conflicted", !.stage = IF @ = "ready" THEN "due" ELSE @]
        BY <1>7, <2>2 DEF Gate, LeavesForge
      <3>2. poll' \in Polls /\ (poll'.pc \in Reading => poll'.st \in Builds)
        BY <3>1, GoType, <1>7 DEF Gate, Reading
      <3>3. build' \in Builds /\ build'.head = build.head BY <1>0, <3>1 DEF Builds
      <3>4. build.head < MaxHeads BY <1>0, <3>1, HeadsType, LandingAssumption DEF Builds
      <3>5. runner.pc \in Working => build'.stage = "work" BY <1>0, <3>1 DEF Builds
      <3> QED BY <1>0, <3>1, <3>2, <3>3, <3>4, <3>5 DEF TypeInv, TypeOK, Snapshot, Room, AtWork, Polls, Runners, Histories
    <2> QED BY <2>1, <2>2
  <1>8. CASE Inspect
    <2>1. poll' \in Polls /\ (poll'.pc \in Reading => poll'.st \in Builds)
      <3>0. poll.st \in Builds /\ poll.pc \in Reading BY <1>0, <1>8 DEF Inspect, Reading
      <3>1. CASE Go("end") BY <3>0, <3>1, GoType
      <3>2. CASE poll' = [Idle EXCEPT !.began = poll.began, !.enable = TRUE, !.pc = "undo"]
        BY <1>0, <3>2, IdleType DEF Polls, Reading, Applying
      <3>3. ASSUME NEW matches \in BOOLEAN,
                   poll' = [Idle EXCEPT !.began = poll.began, !.decided = poll.st.decided,
                                !.head = forge.head, !.enable = poll.st.pending,
                                !.pc = CASE forge.armed -> IF matches THEN "confirm" ELSE "mend"
                                         [] ~forge.armed /\ forge.gated -> "guard"
                                         [] OTHER -> "direct"]
            PROVE  poll' \in Polls /\ (poll'.pc \in Reading => poll'.st \in Builds)
        <4>1. poll.st.decided \in Heads \cup {0} /\ forge.head \in Heads /\ poll.st.pending \in BOOLEAN
          BY <1>0, <3>0 DEF Builds, Forges
        <4>2. poll'.pc \in {"confirm", "mend", "guard", "direct"} BY <3>3, IdleType DEF Polls
        <4>3. poll'.pc \notin Reading BY <4>2 DEF Reading
        <4>4. \A pc \in Applying, b, h, g \in Heads \cup {0}, on \in BOOLEAN :
                [Idle EXCEPT !.began = b, !.decided = g, !.head = h, !.enable = on, !.pc = pc] \in Polls
          BY IdleType DEF Polls
        <4>5. poll.began \in Heads \cup {0} BY <1>0 DEF Polls
        <4> DEFINE place == CASE forge.armed -> IF matches THEN "confirm" ELSE "mend"
                              [] ~forge.armed /\ forge.gated -> "guard"
                              [] OTHER -> "direct"
        <4>6. place \in Applying BY DEF Applying
        <4>7. poll' = [Idle EXCEPT !.began = poll.began, !.decided = poll.st.decided,
                                   !.head = forge.head, !.enable = poll.st.pending, !.pc = place]
          BY <3>3
        <4> HIDE DEF place
        <4>8. forge.head \in Heads \cup {0} BY <4>1
        <4>9. poll' \in Polls BY <4>1, <4>4, <4>5, <4>6, <4>7, <4>8
        <4> QED BY <4>3, <4>9
      <3> QED BY <1>8, <3>1, <3>2, <3>3 DEF Inspect
    <2> QED BY <1>0, <1>8, <1>l, <2>1 DEF Inspect, HeadsKept, LeavesForge
  <1>m. ASSUME NEW pc \in {"enable", "unarm"}, poll.pc \in {"guard", "mend"}, Mutates(pc) PROVE TypeInv'
    <2>1. LeavesForge BY <1>m DEF Mutates
    <2>2. CASE CanApply(poll.decided)
      <3>1. build' \in Builds /\ build'.head = build.head /\ build'.stage = build.stage /\ build'.pr = build.pr
        <4>1. build' = [build EXCEPT !.pending = TRUE] BY <1>m, <2>2 DEF Mutates
        <4> QED BY <1>0, <4>1 DEF Builds
      <3>2. poll' \in Polls /\ poll'.pc = pc
        <4>1. poll' = [poll EXCEPT !.enable = TRUE, !.pc = pc] BY <1>m, <2>2 DEF Mutates
        <4> QED BY <1>0, <4>1 DEF Polls, Applying
      <3> QED BY <1>0, <1>l, <2>1, <3>1, <3>2 DEF HeadsKept, LeavesForge, Reading, Due
    <2>3. CASE ~CanApply(poll.decided)
      <3>1. UNCHANGED build /\ \E to \in {"undo", "end"} : Go(to) BY <1>m, <2>3 DEF Mutates
      <3>2. poll' \in Polls /\ (poll'.pc \in Reading => poll'.st \in Builds)
        BY <1>m, <3>1, GoType DEF Reading, Applying
      <3> QED BY <1>0, <1>l, <2>1, <3>1, <3>2 DEF HeadsKept, LeavesForge
    <2> QED BY <2>2, <2>3
  <1>9. CASE Guard \/ Mend BY <1>9, <1>m DEF Guard, Mend
  <1>20. CASE Unarm
    <2>1. poll' \in Polls /\ (poll'.pc \in Reading => poll'.st \in Builds)
      BY <1>20, GoType DEF Unarm, Reading, Applying
    <2> QED BY <1>0, <1>20, <1>d, <1>f, <2>1 DEF Unarm, HeadsKept, LeavesBuild
  <1>21. CASE Reinspect
    <2>1. \E pc \in {"guard", "undo"} : Go(pc) BY <1>21 DEF Reinspect
    <2>2. poll' \in Polls /\ (poll'.pc \in Reading => poll'.st \in Builds)
      BY <1>21, <2>1, GoType DEF Reinspect, Reading, Applying
    <2> QED BY <1>0, <1>21, <1>l, <2>2 DEF Reinspect, HeadsKept, LeavesForge
  <1>10. CASE Enable
    <2>1. poll' \in Polls /\ (poll'.pc \in Reading => poll'.st \in Builds)
      BY <1>10, GoType DEF Enable, Reading, Applying
    <2>2. forge' \in Forges /\ forge'.head = forge.head BY <1>0, <1>10 DEF Enable, Armed, Forges
    <2> QED BY <1>0, <1>10, <1>f, <2>1, <2>2 DEF Enable, HeadsKept, LeavesBuild
  <1>11. CASE Readback
    <2>1. \E pc \in {"confirm", "undo"} : Go(pc) BY <1>11 DEF Readback
    <2>2. poll' \in Polls /\ (poll'.pc \in Reading => poll'.st \in Builds)
      BY <1>11, <2>1, GoType DEF Readback, Reading, Applying
    <2> QED BY <1>0, <1>11, <1>l, <2>2 DEF Readback, HeadsKept, LeavesForge
  <1>12. CASE Confirm
    <2>1. \E pc \in {"end", "undo"} : Go(pc) BY <1>12 DEF Confirm
    <2>2. poll' \in Polls /\ (poll'.pc \in Reading => poll'.st \in Builds)
      BY <1>12, <2>1, GoType DEF Confirm, Reading, Applying
    <2>3. poll.enable \in BOOLEAN BY <1>0 DEF Polls
    <2>4. UNCHANGED build \/ Receipt("on", poll.enable) BY <1>12 DEF Confirm
    <2>5. build' \in Builds /\ build'.head = build.head /\ build'.stage = build.stage /\ build'.pr = build.pr
      BY <1>0, <2>3, <2>4, ReceiptType
    <2> QED BY <1>0, <1>12, <1>l, <2>2, <2>5 DEF Confirm, HeadsKept, LeavesForge, Due
  <1>13. CASE Undo
    <2>1. poll' \in Polls /\ (poll'.pc \in Reading => poll'.st \in Builds)
      BY <1>13, GoType DEF Undo, Reading, Applying
    <2> QED BY <1>0, <1>13, <1>d, <1>f, <2>1 DEF Undo, HeadsKept, LeavesBuild
  <1>14. CASE Undone
    <2>1. poll' \in Polls /\ (poll'.pc \in Reading => poll'.st \in Builds)
      BY <1>14, GoType DEF Undone, Reading, Applying
    <2>2. poll.enable \in BOOLEAN BY <1>0 DEF Polls
    <2>3. build' \in Builds /\ build'.head = build.head /\ build'.stage = build.stage /\ build'.pr = build.pr
      BY <1>14, <2>2, ReceiptType DEF Undone
    <2> QED BY <1>0, <1>14, <1>l, <2>1, <2>3 DEF Undone, HeadsKept, LeavesForge, Due
  <1>15. CASE Direct
    <2>1. \E pc \in {"squash", "end"} : Go(pc) BY <1>15 DEF Direct
    <2>2. poll' \in Polls /\ (poll'.pc \in Reading => poll'.st \in Builds)
      BY <1>15, <2>1, GoType DEF Direct, Reading, Applying
    <2> QED BY <1>0, <1>15, <1>l, <2>2 DEF Direct, HeadsKept, LeavesForge
  <1>16. CASE Squash
    <2>1. poll' \in Polls /\ (poll'.pc \in Reading => poll'.st \in Builds)
      BY <1>16, GoType DEF Squash, Reading, Applying
    <2>2. forge' \in Forges /\ forge'.head = forge.head BY <1>0, <1>16 DEF Squash, Merged, Forges, States
    <2> QED BY <1>0, <1>16, <1>f, <2>1, <2>2 DEF Squash, HeadsKept, LeavesBuild
  <1>17. CASE Settle
    <2>1. \E pc \in {"complete", "end"} : Go(pc) BY <1>17 DEF Settle
    <2>2. poll' \in Polls /\ (poll'.pc \in Reading => poll'.st \in Builds)
      BY <1>17, <2>1, GoType DEF Settle, Reading
    <2>3. build' \in Builds /\ build'.head = build.head /\ build'.stage = build.stage /\ build'.pr = build.pr
      BY <1>0, <1>17 DEF Settle, Builds
    <2> QED BY <1>0, <1>17, <1>l, <2>2, <2>3 DEF Settle, HeadsKept, LeavesForge, Due
  <1>18. CASE Complete
    <2>1. poll' \in Polls /\ (poll'.pc \in Reading => poll'.st \in Builds)
      BY <1>18, GoType DEF Complete, Reading
    <2>2. poll.seen.state \in {"open", "merged"} BY <1>0 DEF Polls, States
    <2>3. build' \in Builds /\ build'.head = build.head /\ build'.stage = build.stage /\ build'.pr # "conflicted"
      BY <1>0, <1>18, <2>2 DEF Complete, Builds
    <2> QED BY <1>0, <1>18, <1>l, <2>1, <2>3 DEF Complete, HeadsKept, LeavesForge, Due
  <1>19. CASE PollEnd
    <2>1. spent' \in Histories
      BY <1>0, <1>19 DEF PollEnd, Histories
    <2>2. poll' \in Polls /\ poll'.pc \notin Reading BY <1>19, IdleType DEF PollEnd, Reading
    <2>3. HeadsKept /\ Shaped BY <1>0, <1>19, <2>1, <2>2 DEF PollEnd, HeadsKept, Shaped
    <2> QED BY <2>3, KeptTypes
  <1> QED BY <1>1, <1>2, <1>3, <1>4, <1>5, <1>6, <1>7, <1>8, <1>9, <1>10, <1>11, <1>12, <1>13, <1>14,
             <1>15, <1>16, <1>17, <1>18, <1>19, <1>20, <1>21 DEF PollStep

LEMMA GiveUpType ==
  ASSUME TypeInv, GiveUpPublishing
  PROVE  /\ build' \in Builds /\ build'.head = build.head /\ (Due(build') => Due(build))
         /\ build'.pending = build.pending /\ build'.native = build.native
         /\ runner' \in Runners /\ runner'.pc = "off"
PROOF
  <1>1. build \in Builds /\ runner \in Runners BY DEF TypeInv, TypeOK, Runners
  <1> QED BY <1>1 DEF GiveUpPublishing, Publish, Builds, Runners, Due

LEMMA RunnerTypes == ASSUME TypeInv, RunnerStep PROVE TypeInv'
PROOF
  <1>0. /\ build \in Builds /\ forge \in Forges /\ poll \in Polls /\ runner \in Runners
        /\ spent \in Histories
        /\ (poll.pc \in Reading => poll.st \in Builds)
        /\ (Due(build) => build.head < MaxHeads)
        /\ forge.head \in {build.head, build.head + 1}
        /\ (runner.pc \in Working => build.stage = "work")
    BY DEF TypeInv, TypeOK, Polls, Runners, Histories, Snapshot, Room, AtWork
  <1>d. Disarmed \in Forges /\ Disarmed.head = forge.head BY <1>0 DEF Disarmed, Forges
  <1> DEFINE Kept == HeadsKept /\ build' \in Builds /\ forge' \in Forges /\ runner' \in Runners
                     /\ UNCHANGED <<poll, spent>>
  <1>k. Kept => TypeInv' BY <1>0, KeptTypes DEF Shaped
  <1>p. ASSUME NEW pc \in {"verify"} \cup Working, Publish(pc)
        PROVE  runner' \in Runners /\ runner'.pc = pc
    BY <1>0, <1>p DEF Publish, Runners
  <1>g. ASSUME GiveUpPublishing, UNCHANGED <<forge, poll, spent>> PROVE TypeInv'
    BY <1>0, <1>g, <1>k, GiveUpType DEF HeadsKept, Working
  <1>1. CASE StartWork
    <2>1. CASE build.stage = "due"
      <3>1. build' = [build EXCEPT !.stage = "work"] /\ Publish("suspend") /\ UNCHANGED <<forge, poll, spent>>
        BY <1>0, <1>1, <2>1 DEF StartWork, Builds
      <3>2. build' \in Builds /\ build'.head = build.head /\ build'.stage = "work" /\ Due(build)
        BY <1>0, <2>1, <3>1 DEF Builds, Due
      <3> QED BY <1>0, <1>k, <1>p, <3>1, <3>2 DEF HeadsKept, Working
    <2>2. CASE build.stage # "due"
      <3>1. build' = build /\ Publish("verify") /\ UNCHANGED <<forge, poll, spent>>
        BY <1>0, <1>1, <2>2 DEF StartWork, Builds
      <3> QED BY <1>0, <1>k, <1>p, <3>1 DEF HeadsKept, Working
    <2> QED BY <2>1, <2>2
  <1>2. CASE Suspend
    <2>1. runner.pc \in Working BY <1>2 DEF Suspend, Working
    <2>2. CASE forge.state # "open" BY <1>2, <1>g, <2>2 DEF Suspend
    <2>3. CASE forge.state = "open"
      <3>1. \E pc \in {"cancel", "receipt", "push"} : Publish(pc) BY <1>2, <2>3 DEF Suspend
      <3>2. UNCHANGED <<build, forge, poll, spent>> BY <1>2, <2>3 DEF Suspend
      <3>3. runner' \in Runners BY <1>p, <3>1 DEF Working
      <3> QED BY <1>0, <1>k, <2>1, <3>2, <3>3 DEF HeadsKept
    <2> QED BY <2>2, <2>3
  <1>3. CASE Cancel
    <2>1. runner' \in Runners BY <1>3, <1>p DEF Cancel, Working
    <2> QED BY <1>0, <1>3, <1>d, <1>k, <2>1 DEF Cancel, HeadsKept, Working
  <1>4. CASE Suspension
    <2>1. runner' \in Runners BY <1>4, <1>p DEF Suspension, Working
    <2>2. build' \in Builds /\ build'.head = build.head /\ build'.stage = build.stage /\ build'.pr = build.pr
      BY <1>0, <1>4 DEF Suspension, Builds
    <2> QED BY <1>0, <1>4, <1>k, <2>1, <2>2 DEF Suspension, HeadsKept, Working, Due
  <1>5. CASE Reread
    <2>1. runner.pc \in Working BY <1>5 DEF Reread, Working
    <2>2. CASE GiveUpPublishing BY <1>5, <1>g, <2>2 DEF Reread
    <2>3. CASE Publish("push") /\ UNCHANGED build
      <3>1. runner' \in Runners BY <1>p, <2>3 DEF Working
      <3> QED BY <1>0, <1>5, <1>k, <2>1, <2>3, <3>1 DEF Reread, HeadsKept
    <2> QED BY <1>5, <2>2, <2>3 DEF Reread
  <1>6. CASE Push
    <2>1. runner.pc \in Working /\ build.stage = "work" BY <1>0, <1>6 DEF Push, Working
    <2>2. build.head < MaxHeads BY <1>0, <2>1 DEF Due
    <2>3. runner' \in Runners /\ runner'.pc = "record" /\ UNCHANGED <<build, poll>>
      BY <1>6, <1>p DEF Push, Working
    <2>5. spent' \in Histories
      <3>1. spent' \in {spent, [spent EXCEPT !.polled = FALSE, !.carried = forge.armed]} BY <1>6 DEF Push
      <3>2. forge.armed \in BOOLEAN BY <1>0 DEF Forges
      <3> QED BY <1>0, <3>1, <3>2 DEF Histories
    <2>4. forge' \in Forges /\ forge'.head \in {build.head, build.head + 1}
      <3>1. CASE forge.state = "open" /\ forge.head = build.head
        <4>1. forge' = [forge EXCEPT !.head = @ + 1] BY <1>6, <3>1 DEF Push
        <4>2. forge.head + 1 \in Heads BY <1>0, <2>2, <3>1, NextHead DEF Builds
        <4> QED BY <1>0, <3>1, <4>1, <4>2 DEF Forges
      <3>2. CASE ~(forge.state = "open" /\ forge.head = build.head)
        BY <1>0, <1>6, <3>2 DEF Push
      <3> QED BY <3>1, <3>2
    <2> QED BY <1>0, <2>1, <2>3, <2>4, <2>5 DEF TypeInv, TypeOK, Snapshot, Room, AtWork, Polls, Runners, Histories
  <1>7. CASE Record
    <2>1. CASE forge.head = build.head BY <1>7, <1>g, <2>1 DEF Record
    <2>2. CASE forge.head # build.head
      <3>1. /\ build' = [build EXCEPT !.head = forge.head, !.stage = "verify",
                                      !.pr = IF @ = "conflicted" THEN "open" ELSE @]
            /\ Publish("verify") /\ UNCHANGED <<forge, poll, spent>>
        BY <1>7, <2>2 DEF Record
      <3>2. build' \in Builds /\ build'.head = forge.head /\ ~Due(build')
        <4>1. forge.head \in Heads BY <1>0 DEF Forges
        <4> DEFINE pr == IF build.pr = "conflicted" THEN "open" ELSE build.pr
        <4>2. pr \in {"open", "merged"} BY <1>0 DEF Builds
        <4>3. build' = [build EXCEPT !.head = forge.head, !.stage = "verify", !.pr = pr] BY <3>1
        <4> HIDE DEF pr
        <4>4. build' \in Builds BY <1>0, <4>1, <4>2, <4>3 DEF Builds
        <4>5. build'.head = forge.head /\ build'.stage = "verify" /\ build'.pr # "conflicted"
          BY <1>0, <4>2, <4>3 DEF Builds
        <4> QED BY <4>4, <4>5 DEF Due
      <3>3. runner' \in Runners /\ runner'.pc \notin Working BY <1>p, <3>1 DEF Working
      <3> QED BY <1>0, <3>1, <3>2, <3>3 DEF TypeInv, TypeOK, Snapshot, Room, AtWork, Polls, Runners, Histories
    <2> QED BY <2>1, <2>2
  <1>8. CASE Verify
    <2>1. build' \in Builds /\ build'.head = build.head /\ (Due(build') => Due(build))
      BY <1>0, <1>8 DEF Verify, Builds, Due
    <2>2. runner' \in Runners /\ runner'.pc = "off" BY <1>0, <1>8 DEF Verify, Publish, Runners
    <2>3. spent' \in Histories
      BY <1>0, <1>8 DEF Verify, Builds, Histories
    <2>4. HeadsKept /\ Shaped BY <1>0, <1>8, <2>1, <2>2, <2>3 DEF Verify, HeadsKept, Shaped, Working
    <2> QED BY <2>4, KeptTypes
  <1> QED BY <1>1, <1>2, <1>3, <1>4, <1>5, <1>6, <1>7, <1>8 DEF RunnerStep

Around == PollStops \/ RunnerStops \/ Hold \/ Land \/ Demand \/ HumanMerges \/ ForgeMerges \/ LateEnable

LEMMA AroundTypes == ASSUME TypeInv, Around PROVE TypeInv'
PROOF
  <1>0. /\ build \in Builds /\ forge \in Forges /\ poll \in Polls /\ runner \in Runners
        /\ spent \in Histories
        /\ (poll.pc \in Reading => poll.st \in Builds)
        /\ (Due(build) => build.head < MaxHeads)
        /\ forge.head \in {build.head, build.head + 1}
        /\ (runner.pc \in Working => build.stage = "work")
    BY DEF TypeInv, TypeOK, Polls, Runners, Histories, Snapshot, Room, AtWork
  <1>s. ASSUME spent.stops < MaxStops, spent' = [spent EXCEPT !.stops = @ + 1]
        PROVE  spent' \in Histories
    BY <1>0, <1>s, LandingAssumption DEF Histories
  <1>f. ASSUME forge' \in Forges, forge'.head = forge.head, UNCHANGED <<build, poll, runner, spent>>
        PROVE  TypeInv'
    BY <1>0, <1>f, KeptTypes DEF HeadsKept, Shaped
  <1>1. CASE PollStops
    <2>1. poll' \in Polls /\ poll'.pc \notin Reading BY <1>1, IdleType DEF PollStops, Reading
    <2>2. spent' \in Histories
      BY <1>1, <1>s DEF PollStops
    <2>3. forge' \in Forges /\ forge'.head = forge.head BY <1>0, <1>1 DEF PollStops, Forges
    <2>4. HeadsKept /\ Shaped BY <1>0, <1>1, <2>1, <2>2, <2>3 DEF PollStops, HeadsKept, Shaped
    <2> QED BY <2>4, KeptTypes
  <1>2. CASE RunnerStops
    <2>1. spent' \in Histories
      BY <1>2, <1>s DEF RunnerStops
    <2>2. GiveUpPublishing /\ UNCHANGED <<forge, poll>> BY <1>2 DEF RunnerStops
    <2>3. HeadsKept /\ Shaped BY <1>0, <2>1, <2>2, GiveUpType DEF HeadsKept, Shaped, Working
    <2> QED BY <2>3, KeptTypes
  <1>3. CASE Hold \/ Land
    <2>1. PICK kind \in {"hold", "land"} : Command(kind) BY <1>3 DEF Hold, Land
    <2>2. build.command.seq + 1 \in 0..MaxCommands BY <1>0, <2>1, LandingAssumption DEF Command, Builds
    <2>3. build' \in Builds /\ build'.head = build.head /\ build'.stage = build.stage /\ build'.pr = build.pr
      BY <1>0, <2>1, <2>2 DEF Command, Builds
    <2>4. UNCHANGED <<forge, poll, runner, spent>> BY <2>1 DEF Command
    <2>5. HeadsKept /\ Shaped BY <1>0, <2>3, <2>4 DEF HeadsKept, Shaped, Due
    <2> QED BY <2>5, KeptTypes
  <1>4. CASE Demand
    <2>1. /\ build' \in Builds /\ build'.head = build.head /\ build.head < MaxHeads /\ runner.pc \notin Working
          /\ UNCHANGED <<forge, poll, runner, spent>>
      BY <1>0, <1>4 DEF Demand, Builds, Ready
    <2> QED BY <1>0, <2>1 DEF TypeInv, TypeOK, Snapshot, Room, AtWork, Polls, Runners, Histories
  <1>5. CASE HumanMerges BY <1>0, <1>5, <1>f DEF HumanMerges, Merged, Forges, States
  <1>6. CASE ForgeMerges BY <1>0, <1>6, <1>f DEF ForgeMerges, Merged, Forges, States
  <1>7. CASE LateEnable
    <2>1. forge' \in Forges /\ forge'.head = forge.head BY <1>0, <1>7 DEF LateEnable, Armed, Forges
    <2> QED BY <1>7, <1>f, <2>1 DEF LateEnable
  <1> QED BY <1>1, <1>2, <1>3, <1>4, <1>5, <1>6, <1>7 DEF Around

LEMMA NextTypes == TypeInv /\ [Next]_vars => TypeInv'
PROOF
  <1>1. ASSUME TypeInv, UNCHANGED vars PROVE TypeInv'
    BY <1>1 DEF vars, TypeInv, TypeOK, Snapshot, Room, AtWork, Due
  <1> QED BY <1>1, PollTypes, RunnerTypes, AroundTypes DEF Next, Around

-----------------------------------------------------------------------------
(* What the log knows                                                      *)

\* The log says the same of native auto-merge.
Quiet == build'.native = build.native /\ build'.pending = build.pending

LEMMA InitArmed == Init => ArmedInv
  BY DEF Init, ArmedInv, LateKnown, SeenArmed, OffDisarmed, Cancelled, EnableKnown, Suspending,
         ArmedIsKnown, Confirmed, Idle, NoReceipt

(***************************************************************************)
(* A step that arms nothing and leaves the log's receipts alone can only   *)
(* break what is said of the poll's and the publisher's place.             *)
(***************************************************************************)
LEMMA QuietArmed ==
  ASSUME ArmedInv, Quiet, forge'.armed => forge.armed, forge'.late = forge.late,
         poll' = poll, runner'.pc = "receipt" => runner.pc = "receipt" \/ ~forge'.armed
  PROVE  ArmedInv'
  BY DEF ArmedInv, LateKnown, SeenArmed, OffDisarmed, Cancelled, EnableKnown, Suspending,
         ArmedIsKnown, Confirmed, Quiet

LEMMA RunnerArmed == ASSUME TypeInv, ArmedInv, RunnerStep PROVE ArmedInv'
PROOF
  <1>0. /\ build \in Builds /\ forge \in Forges /\ runner \in Runners
    BY DEF TypeInv, TypeOK, Runners
  <1>p. ASSUME NEW pc, Publish(pc) PROVE runner'.pc = pc BY <1>0, <1>p DEF Publish, Runners
  <1>d. Disarmed.armed = FALSE /\ Disarmed.late = forge.late BY <1>0 DEF Disarmed, Forges
  <1>g. ASSUME GiveUpPublishing, UNCHANGED <<forge, poll>> PROVE ArmedInv'
    BY <1>g, GiveUpType, QuietArmed DEF Quiet
  <1>1. CASE StartWork
    <2>1. Quiet BY <1>0, <1>1 DEF StartWork, Quiet, Builds
    <2>2. runner'.pc \in {"suspend", "verify"} BY <1>1, <1>p DEF StartWork
    <2> QED BY <1>1, <2>1, <2>2, QuietArmed DEF StartWork
  <1>2. CASE Suspend
    <2>1. CASE GiveUpPublishing BY <1>2, <1>g, <2>1 DEF Suspend
    <2>2. CASE ~GiveUpPublishing
      <3>1. UNCHANGED <<build, forge, poll>> BY <1>2, <2>2 DEF Suspend
      <3>2. forge.armed => runner'.pc = "cancel" BY <1>2, <1>p, <2>2 DEF Suspend
      <3> QED BY <3>1, <3>2, QuietArmed DEF Quiet
    <2> QED BY <2>1, <2>2
  <1>3. CASE Cancel BY <1>3, <1>d, QuietArmed DEF Cancel, Quiet
  <1>4. CASE Suspension
    <2>1. /\ build'.pending = build.pending /\ runner'.pc = "reread" /\ runner.pc = "receipt"
          /\ UNCHANGED <<forge, poll>>
      BY <1>0, <1>4, <1>p DEF Suspension, Builds
    <2> QED BY <2>1 DEF ArmedInv, LateKnown, SeenArmed, OffDisarmed, Cancelled, EnableKnown, Suspending,
                       ArmedIsKnown, Confirmed
  <1>5. CASE Reread
    <2>1. CASE GiveUpPublishing BY <1>5, <1>g, <2>1 DEF Reread
    <2>2. CASE ~GiveUpPublishing
      <3>1. UNCHANGED <<build, forge, poll>> /\ runner'.pc = "push" BY <1>5, <1>p, <2>2 DEF Reread
      <3> QED BY <3>1, QuietArmed DEF Quiet
    <2> QED BY <2>1, <2>2
  <1>6. CASE Push
    <2>1. forge'.armed = forge.armed /\ forge'.late = forge.late BY <1>0, <1>6 DEF Push, Forges
    <2>2. UNCHANGED <<build, poll>> /\ runner'.pc = "record" BY <1>6, <1>p DEF Push
    <2> QED BY <2>1, <2>2, QuietArmed DEF Quiet
  <1>7. CASE Record
    <2>1. CASE GiveUpPublishing BY <1>7, <1>g, <2>1 DEF Record
    <2>2. CASE ~GiveUpPublishing
      <3>1. /\ UNCHANGED <<forge, poll>> /\ runner'.pc = "verify"
            /\ build' = [build EXCEPT !.head = forge.head, !.stage = "verify",
                                      !.pr = IF @ = "conflicted" THEN "open" ELSE @]
        BY <1>7, <1>p, <2>2 DEF Record
      <3>2. Quiet BY <1>0, <3>1 DEF Quiet, Builds
      <3> QED BY <3>1, <3>2, QuietArmed
    <2> QED BY <2>1, <2>2
  <1>8. CASE Verify
    <2>1. Quiet BY <1>0, <1>8 DEF Verify, Quiet, Builds
    <2>2. runner'.pc = "off" BY <1>8, <1>p DEF Verify
    <2> QED BY <1>8, <2>1, <2>2, QuietArmed DEF Verify
  <1> QED BY <1>1, <1>2, <1>3, <1>4, <1>5, <1>6, <1>7, <1>8 DEF RunnerStep

(***************************************************************************)
(* A poll's step that arms nothing and writes no receipt.                  *)
(***************************************************************************)
LEMMA StepArmed ==
  ASSUME ArmedInv, Quiet, poll.pc # "off", forge'.armed => forge.armed, forge'.late = forge.late, runner' = runner,
         poll'.pc \notin {"converge", "decide", "withhold", "unarm", "enable", "readback"},
         poll'.pc \in {"withheld", "undone"} => ~forge'.armed
  PROVE  ArmedInv'
  BY DEF ArmedInv, LateKnown, SeenArmed, OffDisarmed, Cancelled, EnableKnown, Suspending,
         ArmedIsKnown, Confirmed, Quiet

LEMMA PollArmed == ASSUME TypeInv, ArmedInv, PollStep PROVE ArmedInv'
PROOF
  <1>0. build \in Builds /\ forge \in Forges /\ poll \in Polls /\ runner \in Runners
    BY DEF TypeInv, TypeOK, Polls, Runners
  <1>d. Disarmed.armed = FALSE /\ Disarmed.late = forge.late BY <1>0 DEF Disarmed, Forges
  <1>g. ASSUME NEW pc, Go(pc) PROVE poll'.pc = pc
    BY <1>0, <1>g, IdleType DEF Go, At, Polls
  <1>k. ASSUME NEW pc, pc # "end", Go(pc) PROVE poll' = [poll EXCEPT !.pc = pc]
    BY <1>k DEF Go, At
  <1>1. CASE PollStart
    <2>1. poll'.pc = "read" /\ forge.late = 0 /\ UNCHANGED <<build, forge, runner>>
      BY <1>0, <1>1, IdleType DEF PollStart, Polls
    <2> QED BY <2>1 DEF ArmedInv, LateKnown, SeenArmed, OffDisarmed, Cancelled, EnableKnown, Suspending,
                       ArmedIsKnown, Confirmed
  <1>2. CASE PollRead
    <2>1. /\ poll.pc = "read" /\ poll'.pc \in {"converge", "settle"} /\ poll'.seen.armed = forge.armed
          /\ UNCHANGED <<build, forge, runner>>
      BY <1>0, <1>2 DEF PollRead, Polls
    <2> QED BY <2>1 DEF ArmedInv, LateKnown, SeenArmed, OffDisarmed, Cancelled, EnableKnown, Suspending,
                       ArmedIsKnown, Confirmed
  <1>3. CASE Converge
    <2> DEFINE undue == ~poll.ready \/ ~Authorized(poll.st) \/ poll.st.decided # poll.st.head
               replaced == poll.st.native.op # 0 /\ poll.st.pr = "open"
    <2>1. poll' = [poll EXCEPT !.pc = "decide", !.seen.armed = @ /\ ~replaced, !.off = undue]
      BY <1>3 DEF Converge
    <2>2. /\ forge' = IF (replaced \/ undue) /\ poll.seen.armed THEN Disarmed ELSE forge
          /\ poll.pc = "converge" /\ UNCHANGED <<build, runner>>
      BY <1>3 DEF Converge, LeavesBuild
    <2> HIDE DEF undue, replaced
    <2>3. poll'.pc = "decide" /\ poll'.seen.armed = (poll.seen.armed /\ ~replaced) /\ poll'.off = undue
      BY <1>0, <2>1 DEF Polls
    <2>4. forge.armed => poll.seen.armed BY <2>2 DEF ArmedInv, SeenArmed
    <2>5. forge'.armed => forge.armed /\ ~replaced /\ ~undue BY <1>d, <2>2, <2>4
    <2>6. forge'.late = forge.late BY <1>d, <2>2
    <2> QED BY <2>2, <2>3, <2>4, <2>5, <2>6
          DEF ArmedInv, LateKnown, SeenArmed, OffDisarmed, Cancelled, EnableKnown, Suspending,
              ArmedIsKnown, Confirmed
  <1>4. CASE Decide
    <2>1. poll.pc = "decide" /\ UNCHANGED <<forge, runner>> BY <1>4 DEF Decide, LeavesForge
    <2>2. Quiet
      <3>1. CASE UNCHANGED build BY <3>1 DEF Quiet
      <3>2. CASE ~UNCHANGED build
        <4>1. PICK mode \in {"auto", "consent"} :
                 build' = [build EXCEPT !.decided = build.head, !.mode = mode]
          BY <1>4, <3>2 DEF Decide
        <4> QED BY <1>0, <4>1 DEF Builds, Quiet
      <3> QED BY <3>1, <3>2
    <2>3. poll'.pc = "withhold" /\ poll'.seen = poll.seen /\ poll'.off = poll.off
      <3>1. CASE poll' = [poll EXCEPT !.st = build', !.pc = "withhold"] BY <1>0, <3>1 DEF Polls
      <3>2. CASE poll' = [poll EXCEPT !.ready = FALSE, !.pc = "withhold"] BY <1>0, <3>2 DEF Polls
      <3> QED BY <1>4, <3>1, <3>2 DEF Decide
    <2> QED BY <2>1, <2>2, <2>3
          DEF ArmedInv, LateKnown, SeenArmed, OffDisarmed, Cancelled, EnableKnown, Suspending,
              ArmedIsKnown, Confirmed, Quiet
  <1>5. CASE Withhold
    <2> DEFINE undue == ~poll.ready \/ ~Authorized(poll.st)
    <2>1. /\ poll.pc = "withhold" /\ UNCHANGED <<build, runner>>
          /\ forge' = IF undue /\ ~poll.off /\ poll.seen.armed THEN Disarmed ELSE forge
          /\ poll'.pc = IF undue THEN "withheld" ELSE "gate"
      BY <1>5, <1>g DEF Withhold, LeavesBuild
    <2> HIDE DEF undue
    <2>2. forge.armed => poll.seen.armed /\ ~poll.off BY <2>1 DEF ArmedInv, SeenArmed, OffDisarmed
    <2>3. undue => ~forge'.armed BY <1>d, <2>1, <2>2
    <2> QED BY <1>d, <2>1, <2>3, StepArmed DEF Quiet
  <1>6. CASE Withheld
    <2>1. poll.pc = "withheld" /\ poll'.pc = "gate" /\ UNCHANGED <<forge, runner>>
      BY <1>6, <1>g DEF Withheld, LeavesForge
    <2>2. ~forge.armed BY <2>1 DEF ArmedInv, Cancelled
    <2>3. forge.late = 0 BY <2>1 DEF ArmedInv, LateKnown
    <2> QED BY <2>1, <2>2, <2>3
          DEF ArmedInv, LateKnown, SeenArmed, OffDisarmed, Cancelled, EnableKnown, Suspending,
              ArmedIsKnown, Confirmed
  <1>7. CASE Gate
    <2>1. poll.pc = "gate" /\ poll'.pc \in {"inspect", "end"} /\ UNCHANGED <<forge, runner>>
      BY <1>7, <1>g DEF Gate, LeavesForge
    <2>2. Quiet
      <3>1. CASE UNCHANGED build BY <3>1 DEF Quiet
      <3>2. CASE build' = [build EXCEPT !.pr = "conflicted", !.stage = IF @ = "ready" THEN "due" ELSE @]
        BY <1>0, <3>2 DEF Builds, Quiet
      <3> QED BY <1>7, <3>1, <3>2 DEF Gate
    <2> QED BY <2>1, <2>2, StepArmed
  <1>8. CASE Inspect
    <2>1. poll.pc = "inspect" /\ UNCHANGED <<build, forge, runner>> BY <1>8 DEF Inspect
    <2>2. poll'.pc \in {"end", "undo", "confirm", "mend", "guard", "direct"}
      <3>1. CASE Go("end") BY <1>g, <3>1
      <3>2. CASE poll' = [Idle EXCEPT !.began = poll.began, !.enable = TRUE, !.pc = "undo"]
        BY <3>2, IdleType DEF Polls
      <3>3. ASSUME NEW matches \in BOOLEAN,
                   poll' = [Idle EXCEPT !.began = poll.began, !.decided = poll.st.decided,
                                !.head = forge.head, !.enable = poll.st.pending,
                                !.pc = CASE forge.armed -> IF matches THEN "confirm" ELSE "mend"
                                         [] ~forge.armed /\ forge.gated -> "guard"
                                         [] OTHER -> "direct"]
            PROVE  poll'.pc \in {"end", "undo", "confirm", "mend", "guard", "direct"}
        BY <3>3, IdleType DEF Polls
      <3> QED BY <1>8, <3>1, <3>2, <3>3 DEF Inspect
    <2> QED BY <2>1, <2>2, StepArmed DEF Quiet
  <1>9. CASE Guard \/ Mend
    <2>1. PICK pc \in {"enable", "unarm"} : Mutates(pc) BY <1>9 DEF Guard, Mend
    <2>2. poll.pc \in {"guard", "mend"} /\ UNCHANGED <<forge, runner>>
      BY <1>9, <2>1 DEF Guard, Mend, Mutates, LeavesForge
    <2>3. CASE CanApply(poll.decided)
      <3>1. build' = [build EXCEPT !.pending = TRUE] /\ poll' = [poll EXCEPT !.enable = TRUE, !.pc = pc]
        BY <2>1, <2>3 DEF Mutates
      <3>2. build'.pending = TRUE /\ build'.native = build.native /\ poll'.pc \in {"enable", "unarm"}
        BY <1>0, <3>1 DEF Builds, Polls
      <3> QED BY <2>2, <3>2
            DEF ArmedInv, LateKnown, SeenArmed, OffDisarmed, Cancelled, EnableKnown, Suspending,
                ArmedIsKnown, Confirmed
    <2>4. CASE ~CanApply(poll.decided)
      <3>1. UNCHANGED build /\ poll'.pc \in {"undo", "end"} BY <1>g, <2>1, <2>4 DEF Mutates
      <3> QED BY <2>2, <3>1, StepArmed DEF Quiet
    <2> QED BY <2>3, <2>4
  <1>20. CASE Unarm
    <2>1. poll.pc = "unarm" /\ poll'.pc = "reinspect" /\ forge' = Disarmed /\ UNCHANGED <<build, runner>>
      BY <1>20, <1>g DEF Unarm, LeavesBuild
    <2> QED BY <1>d, <2>1, StepArmed DEF Quiet
  <1>21. CASE Reinspect
    <2>1. poll.pc = "reinspect" /\ poll'.pc \in {"guard", "undo"} /\ UNCHANGED <<build, forge, runner>>
      BY <1>21, <1>g DEF Reinspect
    <2> QED BY <2>1, StepArmed DEF Quiet
  <1>10. CASE Enable
    <2>1. poll.pc = "enable" /\ poll'.pc = "readback" /\ UNCHANGED <<build, runner>>
      BY <1>10, <1>g DEF Enable, LeavesBuild
    <2>2. build.pending BY <2>1 DEF ArmedInv, EnableKnown
    <2>3. forge'.late = forge.late BY <1>0, <1>10 DEF Enable, Armed, Forges
    <2>4. forge.late = 0 BY <2>1 DEF ArmedInv, LateKnown
    <2> QED BY <2>1, <2>2, <2>3, <2>4
          DEF ArmedInv, LateKnown, SeenArmed, OffDisarmed, Cancelled, EnableKnown, Suspending,
              ArmedIsKnown, Confirmed
  <1>11. CASE Readback
    <2>1. poll.pc = "readback" /\ poll'.pc \in {"confirm", "undo"} /\ UNCHANGED <<build, forge, runner>>
      BY <1>11, <1>g DEF Readback
    <2> QED BY <2>1, StepArmed DEF Quiet
  <1>12. CASE Confirm
    <2>1. poll.pc = "confirm" /\ UNCHANGED <<forge, runner>> BY <1>12 DEF Confirm, LeavesForge
    <2>2. poll'.pc \in {"end", "undo"} BY <1>12, <1>g DEF Confirm
    <2>3. CASE UNCHANGED build BY <2>1, <2>2, <2>3, StepArmed DEF Quiet
    <2>4. CASE ~UNCHANGED build
      <3>1. Receipt("on", poll.enable) /\ build.stage = "ready"
        BY <1>12, <2>4 DEF Confirm, CanApply, Ready
      <3>2. poll.enable \in BOOLEAN BY <1>0 DEF Polls
      <3>3. build'.native.on = "on" BY <3>1, <3>2, ReceiptType
      <3>4. runner.pc \notin Working BY <3>1 DEF TypeInv, AtWork
      <3>5. forge.late = 0 BY <2>1 DEF ArmedInv, LateKnown
      <3> QED BY <2>1, <2>2, <3>3, <3>4, <3>5
            DEF ArmedInv, LateKnown, SeenArmed, OffDisarmed, Cancelled, EnableKnown, Suspending,
                ArmedIsKnown, Confirmed, Working
    <2> QED BY <2>3, <2>4
  <1>13. CASE Undo
    <2>1. poll.pc = "undo" /\ poll'.pc = "undone" /\ forge' = Disarmed /\ UNCHANGED <<build, runner>>
      BY <1>13, <1>g DEF Undo, LeavesBuild
    <2> QED BY <1>d, <2>1, StepArmed DEF Quiet
  <1>14. CASE Undone
    <2>1. poll.pc = "undone" /\ poll'.pc = "end" /\ UNCHANGED <<forge, runner>>
      BY <1>14, <1>g DEF Undone, LeavesForge
    <2>2. ~forge.armed BY <2>1 DEF ArmedInv, Cancelled
    <2>3. forge.late = 0 BY <2>1 DEF ArmedInv, LateKnown
    <2> QED BY <2>1, <2>2, <2>3
          DEF ArmedInv, LateKnown, SeenArmed, OffDisarmed, Cancelled, EnableKnown, Suspending,
              ArmedIsKnown, Confirmed
  <1>15. CASE Direct
    <2>1. poll.pc = "direct" /\ poll'.pc \in {"squash", "end"} /\ UNCHANGED <<build, forge, runner>>
      BY <1>15, <1>g DEF Direct
    <2> QED BY <2>1, StepArmed DEF Quiet
  <1>16. CASE Squash
    <2>1. poll.pc = "squash" /\ poll'.pc = "end" /\ UNCHANGED <<build, runner>>
      BY <1>16, <1>g DEF Squash, LeavesBuild
    <2>2. (forge'.armed => forge.armed) /\ forge'.late = forge.late BY <1>0, <1>16 DEF Squash, Merged, Forges
    <2> QED BY <2>1, <2>2, StepArmed DEF Quiet
  <1>17. CASE Settle
    <2>1. poll.pc = "settle" /\ poll'.pc \in {"complete", "end"} /\ UNCHANGED <<forge, runner>>
      BY <1>17, <1>g DEF Settle, LeavesForge
    <2>2. Quiet BY <1>0, <1>17 DEF Settle, Quiet, Builds
    <2> QED BY <2>1, <2>2, StepArmed
  <1>18. CASE Complete
    <2>1. poll.pc = "complete" /\ poll'.pc = "end" /\ UNCHANGED <<forge, runner>>
      BY <1>18, <1>g DEF Complete, LeavesForge
    <2>2. Quiet BY <1>0, <1>18 DEF Complete, Quiet, Builds
    <2> QED BY <2>1, <2>2, StepArmed
  <1>19. CASE PollEnd
    <2>1. poll.pc = "end" /\ poll'.pc = "off" /\ UNCHANGED <<build, forge, runner>>
      BY <1>19, IdleType DEF PollEnd
    <2> QED BY <2>1, StepArmed DEF Quiet
  <1> QED BY <1>1, <1>2, <1>3, <1>4, <1>5, <1>6, <1>7, <1>8, <1>9, <1>10, <1>11, <1>12, <1>13, <1>14,
             <1>15, <1>16, <1>17, <1>18, <1>19, <1>20, <1>21 DEF PollStep

LEMMA AroundArmed == ASSUME TypeInv, ArmedInv, Around PROVE ArmedInv'
PROOF
  <1>0. build \in Builds /\ forge \in Forges BY DEF TypeInv, TypeOK
  <1>1. CASE PollStops
    <2>1. poll'.pc = "off" /\ forge'.armed = forge.armed /\ UNCHANGED <<build, runner>>
      BY <1>0, <1>1, IdleType DEF PollStops, Forges
    <2>2. forge'.late # 0 => forge.late # 0 \/ poll.pc = "enable" BY <1>0, <1>1 DEF PollStops, Forges
    <2> QED BY <2>1, <2>2
          DEF ArmedInv, LateKnown, SeenArmed, OffDisarmed, Cancelled, EnableKnown, Suspending,
              ArmedIsKnown, Confirmed
  <1>2. CASE RunnerStops BY <1>2, GiveUpType, QuietArmed DEF RunnerStops, Quiet
  <1>3. CASE Hold \/ Land
    <2>1. PICK kind : Command(kind) BY <1>3 DEF Hold, Land
    <2>2. Quiet BY <1>0, <2>1 DEF Command, Builds, Quiet
    <2> QED BY <2>1, <2>2, QuietArmed DEF Command
  <1>4. CASE Demand
    <2>1. Quiet BY <1>0, <1>4 DEF Demand, Builds, Quiet
    <2> QED BY <1>4, <2>1, QuietArmed DEF Demand
  <1>5. CASE HumanMerges \/ ForgeMerges
    <2>1. (forge'.armed => forge.armed) /\ forge'.late = forge.late /\ UNCHANGED <<build, poll, runner>>
      BY <1>0, <1>5 DEF HumanMerges, ForgeMerges, Merged, Forges
    <2> QED BY <2>1, QuietArmed DEF Quiet
  <1>6. CASE LateEnable
    <2>1. poll.pc = "off" /\ build.pending BY <1>6 DEF LateEnable, ArmedInv, LateKnown
    <2>2. forge'.late = 0 /\ UNCHANGED <<build, poll, runner>> BY <1>0, <1>6 DEF LateEnable, Armed, Forges
    <2> QED BY <2>1, <2>2
          DEF ArmedInv, LateKnown, SeenArmed, OffDisarmed, Cancelled, EnableKnown, Suspending,
              ArmedIsKnown, Confirmed
  <1> QED BY <1>1, <1>2, <1>3, <1>4, <1>5, <1>6 DEF Around

LEMMA NextArmed == TypeInv /\ ArmedInv /\ [Next]_vars => ArmedInv'
PROOF
  <1>1. ASSUME ArmedInv, UNCHANGED vars PROVE ArmedInv' BY <1>1, QuietArmed DEF vars, Quiet
  <1> QED BY <1>1, PollArmed, RunnerArmed, AroundArmed DEF Next, Around

-----------------------------------------------------------------------------
(* What lands                                                              *)

\* What the invariant says of a state and what it takes from the types.
LEMMA LandFacts ==
  ASSUME TypeInv
  PROVE  /\ build.head \in Nat /\ build.decided \in Nat /\ forge.head \in Nat /\ forge.head # 0
         /\ forge.late \in Nat /\ poll.began \in Nat /\ poll.head \in Nat
         /\ forge.head \in {build.head, build.head + 1} /\ build.head <= forge.head
         /\ (runner.pc \in Working => build.stage = "work")
PROOF
  <1>0. /\ build \in Builds /\ forge \in Forges /\ poll \in Polls
        /\ spent \in Histories
        /\ forge.head \in {build.head, build.head + 1} /\ AtWork
    BY DEF TypeInv, TypeOK, Polls, Histories
  <1>1. /\ build.head \in Heads /\ build.decided \in Heads \cup {0}
        /\ forge.head \in Heads /\ forge.late \in Heads \cup {0}
        /\ poll.began \in Heads \cup {0} /\ poll.head \in Heads \cup {0}
    BY <1>0 DEF Builds, Forges, Polls
  <1> QED BY <1>0, <1>1, HeadsType DEF AtWork

\* A good head stays good while it is the head.
LEMMA GoodStays ==
  ASSUME TypeInv, LandInv, Good, forge'.head = forge.head,
         build'.decided \in {build.decided, build.head}, spent.verified \subseteq spent'.verified
  PROVE  Good' /\ build'.decided = build.decided
  BY LandFacts DEF LandInv, DecidedVerified, Good

LEMMA InitLand == Init => LandInv
PROOF
  <1> SUFFICES ASSUME Init PROVE LandInv OBVIOUS
  <1>1. /\ build.head = 1 /\ build.decided = 0 /\ build.stage = "ready"
        /\ forge.head = 1 /\ forge.armed = FALSE /\ forge.state = "open" /\ forge.by = "none"
        /\ forge.late = 0 /\ runner.pc = "off" /\ ~spent.polled /\ spent.verified = {1}
    BY DEF Init
  <1>2. poll.pc = "off" /\ poll.began = 0 /\ poll.head = 0 BY DEF Init, Idle
  <1> QED BY <1>1, <1>2 DEF LandInv, DecidedVerified, AtRest, Behind, Open, Expected, ReadGood, ReadyRead,
                            PassedGood, ArmedGood, VerifiedLands

(***************************************************************************)
(* What most steps leave alone: heads, decision, and who went through      *)
(* what; such a step arms nothing and merges nothing.                      *)
(***************************************************************************)
Unmoved ==
  /\ build'.head = build.head /\ build'.decided = build.decided
  /\ forge'.head = forge.head /\ (forge'.armed => forge.armed) /\ forge'.state = forge.state
  /\ forge'.by = forge.by /\ forge'.late = forge.late
  /\ UNCHANGED <<spent.verified, spent.polled, spent.carried>>
  /\ build'.stage \in {"ready", "verify"} => build'.stage = build.stage
  /\ runner'.pc = "verify" => build'.stage = "verify"

LEMMA UnmovedLand == ASSUME TypeInv, LandInv, Unmoved, poll' = poll PROVE LandInv'
PROOF
  <1>1. DecidedVerified' /\ AtRest' BY DEF LandInv, Unmoved, DecidedVerified, AtRest
  <1>2. Behind' /\ Open' /\ Expected' BY DEF LandInv, Unmoved, Behind, Open, Expected
  <1>3. Good' <=> Good BY DEF Good, Unmoved
  <1>4. ReadGood' /\ ReadyRead' BY <1>3 DEF LandInv, Unmoved, ReadGood, ReadyRead, Current, Ready
  <1>5. PassedGood' /\ ArmedGood' BY <1>3 DEF LandInv, Unmoved, PassedGood, ArmedGood
  <1>6. VerifiedLands' BY DEF LandInv, Unmoved, VerifiedLands, Good
  <1> QED BY <1>1, <1>2, <1>4, <1>5, <1>6 DEF LandInv

\* A poll that is past converge goes on to a place of which little is said.
LEMMA PassedLand ==
  ASSUME TypeInv, LandInv, Unmoved,
         poll.pc \notin {"off", "read", "converge"}, poll'.began = poll.began,
         poll'.head <= forge.head,
         poll'.pc \notin {"off", "read", "converge", "enable", "squash"},
         poll'.pc \in {"settle", "complete"} => poll.pc \in {"settle", "complete"}
  PROVE  LandInv'
PROOF
  <1>1. DecidedVerified' /\ AtRest' BY DEF LandInv, Unmoved, DecidedVerified, AtRest
  <1>2. Behind' /\ Open' /\ Expected' BY DEF LandInv, Unmoved, Behind, Open, Expected
  <1>3. Good' <=> Good BY DEF Good, Unmoved
  <1>4. ReadGood' /\ ReadyRead' BY DEF ReadGood, ReadyRead
  <1>5. PassedGood' /\ ArmedGood' BY <1>3 DEF LandInv, Unmoved, PassedGood, ArmedGood
  <1>6. VerifiedLands' BY DEF LandInv, Unmoved, VerifiedLands, Good
  <1> QED BY <1>1, <1>2, <1>4, <1>5, <1>6 DEF LandInv

\* A step of the forge arms or merges a head that is good.
LEMMA ForgeLand ==
  ASSUME TypeInv, LandInv, UNCHANGED <<build, runner>>,
         UNCHANGED <<spent.verified, spent.polled, spent.carried>>,
         forge'.head = forge.head, forge'.late \in {0, forge.late},
         forge'.armed => forge.armed \/ (forge.state = "open" /\ Good),
         forge'.armed => forge'.state = forge.state, forge.state # "open" => forge'.state # "open",
         forge'.state = "open" => forge'.by = forge.by,
         forge'.by # forge.by /\ forge'.by \in {"native", "direct"} =>
           Good \/ (forge'.by = "native" /\ spent.carried /\ ~spent.polled),
         poll'.pc \notin {"enable", "squash"} \/ poll' = poll,
         poll' = poll \/ (poll.pc \notin {"off", "read", "converge"} /\
                          poll'.pc \in {"readback", "end"} /\ poll'.began = poll.began /\ poll'.head <= forge.head)
  PROVE  LandInv'
PROOF
  <1>0. Good' <=> Good BY DEF Good
  <1>1. DecidedVerified' /\ AtRest' BY DEF LandInv, DecidedVerified, AtRest
  <1>2. Behind' BY DEF LandInv, Behind
  <1>3. Open' BY DEF LandInv, Open
  <1>4. forge'.late <= build'.decided
    <2>1. build.decided \in Nat /\ forge.late <= build.decided BY LandFacts DEF LandInv, Expected
    <2> QED BY <2>1
  <1>5. Expected' BY <1>4 DEF LandInv, Expected
  <1>6. ReadGood' /\ ReadyRead' BY <1>0 DEF LandInv, ReadGood, ReadyRead
  <1>7. PassedGood' /\ ArmedGood' BY <1>0 DEF LandInv, PassedGood, ArmedGood
  <1>8. VerifiedLands' BY DEF LandInv, VerifiedLands, Good
  <1> QED BY <1>1, <1>2, <1>3, <1>5, <1>6, <1>7, <1>8 DEF LandInv

LEMMA RunnerLand == ASSUME TypeInv, LandInv, RunnerStep PROVE LandInv'
PROOF
  <1>0. build \in Builds /\ forge \in Forges /\ runner \in Runners
    BY DEF TypeInv, TypeOK, Runners
  <1>p. ASSUME NEW pc, Publish(pc) PROVE runner'.pc = pc BY <1>0, <1>p DEF Publish, Runners
  <1>g. ASSUME GiveUpPublishing, UNCHANGED <<forge, poll, spent>> PROVE LandInv'
    <2>1. runner'.pc = "off" /\ build'.head = build.head /\ build'.decided = build.decided
          /\ build'.stage = IF build.stage = "work" THEN "due" ELSE build.stage
      BY <1>0, <1>g, GiveUpType DEF GiveUpPublishing, Builds
    <2> QED BY <1>g, <2>1, UnmovedLand DEF Unmoved
  <1>1. CASE StartWork
    <2>1. /\ build'.head = build.head /\ build'.decided = build.decided /\ UNCHANGED <<forge, poll, spent>>
          /\ build'.stage = IF build.stage = "due" THEN "work" ELSE build.stage
          /\ Publish(IF build.stage = "due" THEN "suspend" ELSE "verify")
          /\ build.stage \in {"due", "verify"}
      BY <1>0, <1>1 DEF StartWork, Builds
    <2>2. runner'.pc = "verify" => build'.stage = "verify" BY <1>p, <2>1
    <2> QED BY <2>1, <2>2, UnmovedLand DEF Unmoved
  <1>2. CASE Suspend
    <2>1. CASE GiveUpPublishing BY <1>2, <1>g, <2>1 DEF Suspend
    <2>2. CASE ~GiveUpPublishing
      <3>1. UNCHANGED <<build, forge, poll, spent>> BY <1>2, <2>2 DEF Suspend
      <3>2. runner'.pc \in {"cancel", "receipt", "push"} BY <1>2, <1>p, <2>2 DEF Suspend
      <3> QED BY <3>1, <3>2, UnmovedLand DEF Unmoved
    <2> QED BY <2>1, <2>2
  <1>3. CASE Cancel
    <2>1. /\ forge'.head = forge.head /\ forge'.armed = FALSE /\ forge'.state = forge.state
          /\ forge'.by = forge.by /\ forge'.late = forge.late
      BY <1>0, <1>3 DEF Cancel, Disarmed, Forges
    <2>2. runner'.pc = "receipt" /\ UNCHANGED <<build, poll, spent>> BY <1>3, <1>p DEF Cancel
    <2> QED BY <2>1, <2>2, UnmovedLand DEF Unmoved
  <1>4. CASE Suspension
    <2>1. build'.head = build.head /\ build'.decided = build.decided /\ build'.stage = build.stage
      BY <1>0, <1>4 DEF Suspension, Builds
    <2>2. runner'.pc = "reread" /\ UNCHANGED <<forge, poll, spent>> BY <1>4, <1>p DEF Suspension
    <2> QED BY <2>1, <2>2, UnmovedLand DEF Unmoved
  <1>5. CASE Reread
    <2>1. CASE GiveUpPublishing BY <1>5, <1>g, <2>1 DEF Reread
    <2>2. CASE ~GiveUpPublishing
      <3>1. UNCHANGED <<build, forge, poll, spent>> /\ runner'.pc = "push" BY <1>5, <1>p, <2>2 DEF Reread
      <3> QED BY <3>1, UnmovedLand DEF Unmoved
    <2> QED BY <2>1, <2>2
  <1>6. CASE Push
    <2>1. runner'.pc = "record" /\ UNCHANGED <<build, poll>> BY <1>6, <1>p DEF Push
    <2>2. CASE forge.state = "open" /\ forge.head = build.head
      <3>1. /\ forge'.head = forge.head + 1 /\ forge'.armed = forge.armed /\ forge'.state = forge.state
            /\ forge'.by = forge.by /\ forge'.late = forge.late
            /\ spent'.verified = spent.verified /\ ~spent'.polled /\ spent'.carried = forge.armed
        BY <1>0, <1>6, <2>2 DEF Push, Forges, Histories, TypeInv, TypeOK
      <3>2. build.stage = "work" BY <1>6, LandFacts DEF Push, Working
      <3>3. DecidedVerified' /\ AtRest' /\ Expected'
        BY <2>1, <3>1, <3>2 DEF LandInv, DecidedVerified, AtRest, Expected
      <3>4. Open' BY <2>1, <3>1 DEF LandInv, Open
      <3>5. poll'.began < forge'.head /\ poll'.head < forge'.head
        BY <2>1, <3>1, LandFacts DEF LandInv, Behind
      <3>6. Behind' BY <2>1, <3>1, <3>5, LandFacts DEF LandInv, Behind
      <3>7. poll'.began # forge'.head
        BY <2>1, <3>1, <3>5, LandFacts
      <3>8. ReadGood' /\ PassedGood' /\ ArmedGood' BY <3>1, <3>7 DEF ReadGood, PassedGood, ArmedGood
      <3>9. ReadyRead' BY <2>1 DEF LandInv, ReadyRead, Ready
      <3>10. VerifiedLands' BY <2>2, <3>1 DEF LandInv, Open, VerifiedLands, Good
      <3> QED BY <3>3, <3>4, <3>6, <3>8, <3>9, <3>10 DEF LandInv
    <2>3. CASE ~(forge.state = "open" /\ forge.head = build.head)
      <3>1. forge' = forge /\ spent' = spent BY <1>6, <2>3 DEF Push
      <3> QED BY <2>1, <3>1, UnmovedLand DEF Unmoved
    <2> QED BY <2>2, <2>3
  <1>7. CASE Record
    <2>1. CASE forge.head = build.head BY <1>7, <1>g, <2>1 DEF Record
    <2>2. CASE forge.head # build.head
      <3>1. UNCHANGED <<forge, poll, spent>> /\ runner'.pc = "verify" BY <1>7, <1>p, <2>2 DEF Record
      <3>2. build'.head = forge.head /\ build'.stage = "verify" /\ build'.decided = build.decided
        BY <1>0, <1>7, <2>2 DEF Record, Builds
      <3>3. DecidedVerified' /\ AtRest'
        BY <3>1, <3>2, LandFacts DEF LandInv, DecidedVerified, AtRest
      <3>4. Good' <=> Good BY <3>1, <3>2 DEF Good
      <3>5. Behind' /\ Open' /\ Expected' BY <3>1, <3>2 DEF LandInv, Behind, Open, Expected
      <3>6. ReadGood' /\ ReadyRead' BY <3>1, <3>4 DEF LandInv, ReadGood, ReadyRead, Current, Ready
      <3>7. PassedGood' /\ ArmedGood' BY <3>1, <3>4 DEF LandInv, PassedGood, ArmedGood
      <3>8. VerifiedLands' BY <3>1, <3>2 DEF LandInv, VerifiedLands, Good
      <3> QED BY <3>3, <3>5, <3>6, <3>7, <3>8 DEF LandInv
    <2> QED BY <2>1, <2>2
  <1>8. CASE Verify
    <2>1. UNCHANGED <<forge, poll>> /\ runner'.pc = "off" /\ runner.pc = "verify" BY <1>8, <1>p DEF Verify
    <2>2. /\ build'.head = build.head /\ build'.decided = build.decided
          /\ build'.stage \in {"due", "ready"}
      BY <1>0, <1>8 DEF Verify, Builds
    <2>3. /\ spent'.verified = spent.verified \cup {build.head}
          /\ UNCHANGED <<spent.polled, spent.carried>>
      BY <1>8 DEF Verify, TypeInv, TypeOK
    <2>4. build.stage = "verify" BY <2>1 DEF LandInv, AtRest
    <2>5. DecidedVerified' /\ AtRest'
      BY <2>1, <2>2, <2>3, <2>4 DEF LandInv, DecidedVerified, AtRest
    <2>6. Good => Good' BY <2>1, <2>2, <2>3 DEF Good
    <2>7. Behind' /\ Open' /\ Expected' BY <2>1, <2>2, <2>3 DEF LandInv, Behind, Open, Expected
    <2>8. ReadGood' /\ ReadyRead' BY <2>1, <2>6 DEF LandInv, ReadGood, ReadyRead, Current, Ready
    <2>9. PassedGood' /\ ArmedGood' BY <2>1, <2>3, <2>6 DEF LandInv, PassedGood, ArmedGood
    <2>10. VerifiedLands' BY <2>1, <2>2, <2>3 DEF LandInv, VerifiedLands, Good
    <2> QED BY <2>5, <2>7, <2>8, <2>9, <2>10 DEF LandInv
  <1> QED BY <1>1, <1>2, <1>3, <1>4, <1>5, <1>6, <1>7, <1>8 DEF RunnerStep

\* A decision is of the head: whatever passes the gate of CanApply names no later one.
LEMMA ApplyExpects ==
  ASSUME TypeInv, LandInv, CanApply(poll.decided)
  PROVE  poll.head <= build.decided
PROOF
  <1>1. build.head = build.decided /\ build.stage = "ready" BY DEF CanApply, Ready
  <1>2. forge.head = build.head BY <1>1 DEF LandInv, AtRest
  <1> QED BY <1>1, <1>2 DEF LandInv, Behind

LEMMA ExpectedGood ==
  ASSUME TypeInv, LandInv, forge.head <= build.decided
  PROVE  Good
PROOF
  <1>1. build.decided <= build.head /\ build.decided \in spent.verified \cup {0}
    BY DEF LandInv, DecidedVerified
  <1>2. forge.head = build.decided BY <1>1, LandFacts
  <1> QED BY <1>1, <1>2, LandFacts DEF Good

LEMMA PollLand == ASSUME TypeInv, ArmedInv, LandInv, PollStep PROVE LandInv'
PROOF
  <1>0. build \in Builds /\ forge \in Forges /\ poll \in Polls /\ runner \in Runners
    BY DEF TypeInv, TypeOK, Polls, Runners
  <1>d. /\ Disarmed.head = forge.head /\ Disarmed.armed = FALSE /\ Disarmed.state = forge.state
        /\ Disarmed.by = forge.by /\ Disarmed.late = forge.late
    BY <1>0 DEF Disarmed, Forges
  <1>h. poll.head <= forge.head /\ 0 <= forge.head BY LandFacts DEF LandInv, Behind
  <1>i. Idle.head = 0 BY DEF Idle
  <1>g. ASSUME NEW pc, Go(pc)
        PROVE  /\ poll'.pc = pc /\ poll'.began = poll.began /\ poll'.head <= forge.head
               /\ (pc # "end" => poll'.head = poll.head)
    BY <1>0, <1>g, <1>h, <1>i, IdleType DEF Go, At, Polls
  <1> DEFINE Aims(pc) == /\ poll.pc \notin {"off", "read", "converge"} /\ poll'.pc = pc
                         /\ poll'.began = poll.began /\ poll'.head = poll.head
                         /\ UNCHANGED <<forge, runner, spent>>
                         /\ build'.head = build.head /\ build'.decided = build.decided
                         /\ build'.stage = build.stage
  <1>a. ASSUME NEW pc \in {"enable", "unarm", "squash"}, CanApply(poll.decided), Aims(pc)
        PROVE  LandInv'
    <2>1. poll.head <= build.decided BY <1>a, ApplyExpects
    <2>2. Good' <=> Good BY <1>a DEF Good
    <2>3. DecidedVerified' /\ AtRest' BY <1>a DEF LandInv, DecidedVerified, AtRest
    <2>4. Behind' /\ Open' /\ Expected' BY <1>a, <2>1 DEF LandInv, Behind, Open, Expected
    <2>5. ReadGood' /\ ReadyRead' BY <1>a DEF ReadGood, ReadyRead
    <2>6. PassedGood' /\ ArmedGood' BY <1>a, <2>2 DEF LandInv, PassedGood, ArmedGood
    <2>7. VerifiedLands' BY <1>a DEF LandInv, VerifiedLands, Good
    <2> QED BY <2>3, <2>4, <2>5, <2>6, <2>7 DEF LandInv
  <1> HIDE DEF Aims
  <1>1. CASE PollStart
    <2>1. /\ poll'.pc = "read" /\ poll'.began = forge.head /\ poll'.head = 0 /\ poll'.st = build
          /\ UNCHANGED <<build, forge, runner, spent>>
      BY <1>1 DEF PollStart, Idle
    <2>2. Current(build) => Good BY DEF LandInv, AtRest, Current, Ready, Good
    <2>3. Good' <=> Good BY <2>1 DEF Good
    <2>4. ReadGood' /\ ReadyRead' BY <2>1, <2>2, <2>3 DEF ReadGood, ReadyRead
    <2>5. DecidedVerified' /\ AtRest' BY <2>1 DEF LandInv, DecidedVerified, AtRest
    <2>6. Behind' /\ Open' /\ Expected' BY <1>h, <2>1, LandFacts DEF LandInv, Behind, Open, Expected
    <2>7. PassedGood' /\ ArmedGood' /\ VerifiedLands'
      BY <2>1, <2>3 DEF LandInv, PassedGood, ArmedGood, VerifiedLands, Good
    <2> QED BY <2>4, <2>5, <2>6, <2>7 DEF LandInv
  <1>2. CASE PollRead
    <2>1. /\ poll.pc = "read" /\ poll'.pc = IF forge.state = "open" THEN "converge" ELSE "settle"
          /\ poll'.began = poll.began /\ poll'.head = poll.head /\ poll'.st = poll.st
          /\ (poll'.ready => Ready(poll.st)) /\ UNCHANGED <<build, forge, runner, spent>>
      BY <1>0, <1>2 DEF PollRead, Polls
    <2>2. Good' <=> Good BY <2>1 DEF Good
    <2>3. ReadGood' /\ ReadyRead' BY <2>1, <2>2 DEF LandInv, ReadGood, ReadyRead
    <2>4. DecidedVerified' /\ AtRest' BY <2>1 DEF LandInv, DecidedVerified, AtRest
    <2>5. Behind' /\ Open' /\ Expected' BY <2>1 DEF LandInv, Behind, Open, Expected
    <2>6. PassedGood' /\ ArmedGood' /\ VerifiedLands'
      BY <2>1, <2>2 DEF LandInv, Open, PassedGood, ArmedGood, VerifiedLands, Good
    <2> QED BY <2>3, <2>4, <2>5, <2>6 DEF LandInv
  <1>3. CASE Converge
    <2> DEFINE undue == ~poll.ready \/ ~Authorized(poll.st) \/ poll.st.decided # poll.st.head
               replaced == poll.st.native.op # 0 /\ poll.st.pr = "open"
    <2>1. /\ forge' = IF (replaced \/ undue) /\ poll.seen.armed THEN Disarmed ELSE forge
          /\ poll.pc = "converge" /\ UNCHANGED <<build, runner, spent>>
      BY <1>3 DEF Converge, LeavesBuild
    <2>2. poll'.pc = "decide" /\ poll'.began = poll.began /\ poll'.head = poll.head
      BY <1>0, <1>3 DEF Converge, Polls
    <2>3. forge.armed => poll.seen.armed BY <2>1 DEF ArmedInv, SeenArmed
    <2>4. ~undue => Current(poll.st) BY <2>1 DEF LandInv, ReadyRead, Current
    <2> HIDE DEF undue, replaced
    <2>5. /\ (forge'.armed => forge.armed /\ ~undue) /\ forge'.head = forge.head
          /\ forge'.state = forge.state /\ forge'.by = forge.by /\ forge'.late = forge.late
      BY <1>d, <2>1, <2>3
    <2>6. Good' <=> Good BY <2>1, <2>5 DEF Good
    <2>7. PassedGood' BY <2>1, <2>2, <2>4, <2>5, <2>6 DEF LandInv, ReadGood, PassedGood
    <2>8. DecidedVerified' /\ AtRest' BY <2>1, <2>5 DEF LandInv, DecidedVerified, AtRest
    <2>9. Behind' /\ Open' /\ Expected' BY <2>1, <2>2, <2>5 DEF LandInv, Behind, Open, Expected
    <2>10. ReadGood' /\ ReadyRead' /\ ArmedGood' /\ VerifiedLands'
      BY <2>1, <2>2, <2>5, <2>6 DEF LandInv, ReadGood, ReadyRead, ArmedGood, VerifiedLands, Good
    <2> QED BY <2>7, <2>8, <2>9, <2>10 DEF LandInv
  <1>4. CASE Decide
    <2>1. poll.pc = "decide" /\ UNCHANGED <<forge, runner, spent>> BY <1>4 DEF Decide, LeavesForge
    <2>2. poll'.pc = "withhold" /\ poll'.began = poll.began /\ poll'.head = poll.head
      <3>1. CASE poll' = [poll EXCEPT !.st = build', !.pc = "withhold"] BY <1>0, <3>1 DEF Polls
      <3>2. CASE poll' = [poll EXCEPT !.ready = FALSE, !.pc = "withhold"] BY <1>0, <3>2 DEF Polls
      <3> QED BY <1>4, <3>1, <3>2 DEF Decide
    <2>3. CASE UNCHANGED build
      BY <1>h, <2>1, <2>2, <2>3, PassedLand DEF Unmoved, LandInv, AtRest
    <2>4. CASE ~UNCHANGED build
      <3>1. PICK mode \in {"auto", "consent"} :
               build' = [build EXCEPT !.decided = build.head, !.mode = mode]
        BY <1>4, <2>4 DEF Decide
      <3>2. build.stage = "ready" BY <1>4, <2>4 DEF Decide, Ready
      <3>3. build'.head = build.head /\ build'.decided = build.head /\ build'.stage = build.stage
        BY <1>0, <3>1 DEF Builds
      <3>4. build.decided <= build.head /\ build.head \in spent.verified
        BY <3>2 DEF LandInv, DecidedVerified, AtRest
      <3>5. DecidedVerified' /\ AtRest'
        BY <2>1, <3>3, <3>4, LandFacts DEF LandInv, DecidedVerified, AtRest
      <3>6. Good => Good' BY <2>1, <3>3, GoodStays
      <3>7. forge.late <= build.head BY <3>4, LandFacts DEF LandInv, Expected
      <3>8. Behind' /\ Open' /\ Expected'
        BY <2>1, <2>2, <3>3, <3>7 DEF LandInv, Behind, Open, Expected
      <3>9. ReadGood' /\ ReadyRead' BY <2>2 DEF ReadGood, ReadyRead
      <3>10. PassedGood' /\ ArmedGood' BY <2>1, <2>2, <3>6 DEF LandInv, PassedGood, ArmedGood
      <3>11. VerifiedLands' BY <2>1, <3>6 DEF LandInv, VerifiedLands, Good
      <3> QED BY <3>5, <3>8, <3>9, <3>10, <3>11 DEF LandInv
    <2> QED BY <2>3, <2>4
  <1>5. CASE Withhold
    <2>1. forge' \in {forge, Disarmed} /\ poll.pc = "withhold" /\ UNCHANGED <<build, runner, spent>>
      BY <1>5 DEF Withhold, LeavesBuild
    <2>2. \E pc \in {"withheld", "gate"} : Go(pc) BY <1>5 DEF Withhold
    <2> QED BY <1>d, <1>g, <2>1, <2>2, PassedLand DEF Unmoved, LandInv, AtRest
  <1>6. CASE Withheld
    <2>1. build'.head = build.head /\ build'.decided = build.decided /\ build'.stage = build.stage
      BY <1>0, <1>6 DEF Withheld, Receipt, Builds
    <2>2. poll.pc = "withheld" /\ Go("gate") /\ UNCHANGED <<forge, runner, spent>>
      BY <1>6 DEF Withheld, LeavesForge
    <2> QED BY <1>g, <2>1, <2>2, PassedLand DEF Unmoved, LandInv, AtRest
  <1>7. CASE Gate
    <2>1. /\ build'.head = build.head /\ build'.decided = build.decided
          /\ (build'.stage # build.stage => build.stage = "ready" /\ build'.stage = "due")
      BY <1>0, <1>7 DEF Gate, Builds
    <2>2. poll.pc = "gate" /\ UNCHANGED <<forge, runner, spent>> BY <1>7 DEF Gate, LeavesForge
    <2>3. \E pc \in {"inspect", "end"} : Go(pc) BY <1>7 DEF Gate
    <2>4. runner'.pc = "verify" => build'.stage = "verify" BY <2>1, <2>2 DEF LandInv, AtRest
    <2> QED BY <1>g, <2>1, <2>2, <2>3, <2>4, PassedLand DEF Unmoved
  <1>8. CASE Inspect
    <2>1. poll.pc = "inspect" /\ UNCHANGED <<build, forge, runner, spent>> BY <1>8 DEF Inspect
    <2>2. /\ poll'.pc \in {"end", "undo", "confirm", "mend", "guard", "direct"}
          /\ poll'.began = poll.began /\ poll'.head <= forge.head
      <3>1. CASE Go("end") BY <1>g, <3>1
      <3>2. CASE poll' = [Idle EXCEPT !.began = poll.began, !.enable = TRUE, !.pc = "undo"]
        BY <1>h, <1>i, <3>2, IdleType DEF Polls
      <3>3. ASSUME NEW matches \in BOOLEAN,
                   poll' = [Idle EXCEPT !.began = poll.began, !.decided = poll.st.decided,
                                !.head = forge.head, !.enable = poll.st.pending,
                                !.pc = CASE forge.armed -> IF matches THEN "confirm" ELSE "mend"
                                         [] ~forge.armed /\ forge.gated -> "guard"
                                         [] OTHER -> "direct"]
            PROVE  /\ poll'.pc \in {"end", "undo", "confirm", "mend", "guard", "direct"}
                   /\ poll'.began = poll.began /\ poll'.head <= forge.head
        <4>1. poll'.pc \in {"confirm", "mend", "guard", "direct"} BY <3>3, IdleType DEF Polls
        <4>2. poll'.began = poll.began /\ poll'.head = forge.head BY <3>3, IdleType DEF Polls
        <4> QED BY <4>1, <4>2, LandFacts
      <3> QED BY <1>8, <3>1, <3>2, <3>3 DEF Inspect
    <2> QED BY <2>1, <2>2, PassedLand DEF Unmoved, LandInv, AtRest
  <1>9. CASE Guard \/ Mend
    <2>1. PICK pc \in {"enable", "unarm"} : Mutates(pc) BY <1>9 DEF Guard, Mend
    <2>2. poll.pc \in {"guard", "mend"} /\ UNCHANGED <<forge, runner, spent>>
      BY <1>9, <2>1 DEF Guard, Mend, Mutates, LeavesForge
    <2>3. CASE CanApply(poll.decided)
      <3>1. build' = [build EXCEPT !.pending = TRUE] /\ poll' = [poll EXCEPT !.enable = TRUE, !.pc = pc]
        BY <2>1, <2>3 DEF Mutates
      <3>2. Aims(pc) BY <1>0, <2>2, <3>1 DEF Aims, Builds, Polls
      <3> QED BY <1>a, <2>3, <3>2
    <2>4. CASE ~CanApply(poll.decided)
      <3>1. UNCHANGED build /\ \E to \in {"undo", "end"} : Go(to) BY <2>1, <2>4 DEF Mutates
      <3> QED BY <1>g, <2>2, <3>1, PassedLand DEF Unmoved, LandInv, AtRest
    <2> QED BY <2>3, <2>4
  <1>20. CASE Unarm
    <2>1. poll.pc = "unarm" /\ Go("reinspect") /\ forge' = Disarmed /\ UNCHANGED <<build, runner, spent>>
      BY <1>20 DEF Unarm, LeavesBuild
    <2> QED BY <1>d, <1>g, <2>1, PassedLand DEF Unmoved, LandInv, AtRest
  <1>21. CASE Reinspect
    <2>1. poll.pc = "reinspect" /\ UNCHANGED <<build, forge, runner, spent>> BY <1>21 DEF Reinspect
    <2>2. \E pc \in {"guard", "undo"} : Go(pc) BY <1>21 DEF Reinspect
    <2> QED BY <1>g, <2>1, <2>2, PassedLand DEF Unmoved, LandInv, AtRest
  <1>10. CASE Enable
    <2>1. poll.pc = "enable" /\ Go("readback") /\ UNCHANGED <<build, runner, spent>>
      BY <1>10 DEF Enable, LeavesBuild
    <2>2. poll.head <= build.decided BY <2>1 DEF LandInv, Expected
    <2>3. /\ forge'.head = forge.head /\ forge'.late = forge.late /\ forge'.by = forge.by
          /\ forge'.state = forge.state
          /\ (forge'.armed => forge.armed \/ (forge.state = "open" /\ forge.head = poll.head))
      BY <1>0, <1>10 DEF Enable, Armed, Forges
    <2>4. forge.head = poll.head => Good BY <2>2, ExpectedGood
    <2>5. forge'.armed => forge.armed \/ (forge.state = "open" /\ Good) BY <2>3, <2>4
    <2> QED BY <1>g, <2>1, <2>3, <2>5, ForgeLand
  <1>11. CASE Readback
    <2>1. poll.pc = "readback" /\ UNCHANGED <<build, forge, runner, spent>> BY <1>11 DEF Readback
    <2>2. \E pc \in {"confirm", "undo"} : Go(pc) BY <1>11 DEF Readback
    <2> QED BY <1>g, <2>1, <2>2, PassedLand DEF Unmoved, LandInv, AtRest
  <1>12. CASE Confirm
    <2>1. poll.pc = "confirm" /\ UNCHANGED <<forge, runner, spent>> BY <1>12 DEF Confirm, LeavesForge
    <2>2. \E pc \in {"end", "undo"} : Go(pc) BY <1>12 DEF Confirm
    <2>3. build'.head = build.head /\ build'.decided = build.decided /\ build'.stage = build.stage
      BY <1>0, <1>12 DEF Confirm, Receipt, Builds
    <2> QED BY <1>g, <2>1, <2>2, <2>3, PassedLand DEF Unmoved, LandInv, AtRest
  <1>13. CASE Undo
    <2>1. poll.pc = "undo" /\ Go("undone") /\ forge' = Disarmed /\ UNCHANGED <<build, runner, spent>>
      BY <1>13 DEF Undo, LeavesBuild
    <2> QED BY <1>d, <1>g, <2>1, PassedLand DEF Unmoved, LandInv, AtRest
  <1>14. CASE Undone
    <2>1. poll.pc = "undone" /\ Go("end") /\ UNCHANGED <<forge, runner, spent>>
      BY <1>14 DEF Undone, LeavesForge
    <2>2. build'.head = build.head /\ build'.decided = build.decided /\ build'.stage = build.stage
      BY <1>0, <1>14 DEF Undone, Receipt, Builds
    <2> QED BY <1>g, <2>1, <2>2, PassedLand DEF Unmoved, LandInv, AtRest
  <1>15. CASE Direct
    <2>1. poll.pc = "direct" /\ UNCHANGED <<build, forge, runner, spent>> BY <1>15 DEF Direct
    <2>2. CASE CanApply(poll.decided)
      <3>1. Go("squash") BY <1>15, <2>2 DEF Direct
      <3>2. Aims("squash") BY <1>g, <2>1, <3>1 DEF Aims
      <3> QED BY <1>a, <2>2, <3>2
    <2>3. CASE ~CanApply(poll.decided)
      <3>1. Go("end") BY <1>15, <2>3 DEF Direct
      <3> QED BY <1>g, <2>1, <3>1, PassedLand DEF Unmoved, LandInv, AtRest
    <2> QED BY <2>2, <2>3
  <1>16. CASE Squash
    <2>1. poll.pc = "squash" /\ Go("end") /\ UNCHANGED <<build, runner, spent>>
      BY <1>16 DEF Squash, LeavesBuild
    <2>2. CASE forge.state = "open" /\ forge.head = poll.head
      <3>1. Good BY <2>1, <2>2, ExpectedGood DEF LandInv, Expected
      <3>2. /\ forge'.head = forge.head /\ forge'.late = forge.late /\ forge'.armed = FALSE
            /\ forge'.state = "merged"
        BY <1>0, <1>16, <2>2 DEF Squash, Merged, Forges
      <3> QED BY <1>g, <2>1, <3>1, <3>2, ForgeLand
    <2>3. CASE ~(forge.state = "open" /\ forge.head = poll.head)
      <3>1. forge' = forge BY <1>16, <2>3 DEF Squash
      <3> QED BY <1>g, <2>1, <3>1, PassedLand DEF Unmoved, LandInv, AtRest
    <2> QED BY <2>2, <2>3
  <1>17. CASE Settle
    <2>1. poll.pc = "settle" /\ UNCHANGED <<forge, runner, spent>> BY <1>17 DEF Settle, LeavesForge
    <2>2. \E pc \in {"complete", "end"} : Go(pc) BY <1>17 DEF Settle
    <2>3. build'.head = build.head /\ build'.decided = build.decided /\ build'.stage = build.stage
      BY <1>0, <1>17 DEF Settle, Builds
    <2> QED BY <1>g, <2>1, <2>2, <2>3, PassedLand DEF Unmoved, LandInv, AtRest
  <1>18. CASE Complete
    <2>1. poll.pc = "complete" /\ Go("end") /\ UNCHANGED <<forge, runner, spent>>
      BY <1>18 DEF Complete, LeavesForge
    <2>2. build'.head = build.head /\ build'.decided = build.decided /\ build'.stage = build.stage
      BY <1>0, <1>18 DEF Complete, Builds
    <2> QED BY <1>g, <2>1, <2>2, PassedLand DEF Unmoved, LandInv, AtRest
  <1>19. CASE PollEnd
    <2>1. /\ poll.pc = "end" /\ poll'.pc = "off" /\ poll'.began = 0 /\ poll'.head = 0
          /\ UNCHANGED <<build, forge, runner>>
      BY <1>19 DEF PollEnd, Idle
    <2>2. /\ UNCHANGED <<spent.verified, spent.carried>>
          /\ spent'.polled = (spent.polled \/ (poll.began = forge.head /\ forge.state = "open"))
      BY <1>19 DEF PollEnd, TypeInv, TypeOK
    <2>3. Good' <=> Good BY <2>1, <2>2 DEF Good
    <2>4. ArmedGood' BY <2>1, <2>2, <2>3 DEF LandInv, PassedGood, ArmedGood
    <2>5. DecidedVerified' /\ AtRest' BY <2>1, <2>2 DEF LandInv, DecidedVerified, AtRest
    <2>6. Behind' BY <1>h, <2>1, <2>2, LandFacts DEF LandInv, Behind
    <2>7. Open' /\ Expected' BY <2>1 DEF LandInv, Open, Expected
    <2>8. ReadGood' /\ ReadyRead' /\ PassedGood' BY <2>1 DEF ReadGood, ReadyRead, PassedGood
    <2>9. VerifiedLands' BY <2>1, <2>2, <2>3 DEF LandInv, Open, VerifiedLands, Good
    <2> QED BY <2>4, <2>5, <2>6, <2>7, <2>8, <2>9 DEF LandInv
  <1> QED BY <1>1, <1>2, <1>3, <1>4, <1>5, <1>6, <1>7, <1>8, <1>9, <1>10, <1>11, <1>12, <1>13, <1>14,
             <1>15, <1>16, <1>17, <1>18, <1>19, <1>20, <1>21 DEF PollStep

LEMMA AroundLand == ASSUME TypeInv, ArmedInv, LandInv, Around PROVE LandInv'
PROOF
  <1>0. build \in Builds /\ forge \in Forges BY DEF TypeInv, TypeOK
  <1>1. CASE PollStops
    <2>1. /\ poll'.pc = "off" /\ poll'.began = 0 /\ poll'.head = 0 /\ UNCHANGED <<build, runner>>
      BY <1>1 DEF PollStops, Idle
    <2>2. UNCHANGED <<spent.verified, spent.polled, spent.carried>>
      BY <1>1 DEF PollStops, TypeInv, TypeOK
    <2>3. /\ forge'.head = forge.head /\ forge'.armed = forge.armed /\ forge'.state = forge.state
          /\ forge'.by = forge.by
          /\ forge'.late = forge.late \/ (poll.pc = "enable" /\ forge'.late = poll.head)
      BY <1>0, <1>1 DEF PollStops, Forges
    <2>4. Good' <=> Good BY <2>1, <2>2, <2>3 DEF Good
    <2>5. DecidedVerified' /\ AtRest' BY <2>1, <2>2, <2>3 DEF LandInv, DecidedVerified, AtRest
    <2>6. Behind' BY <2>1, <2>2, <2>3, LandFacts DEF LandInv, Behind
    <2>7. Open' /\ Expected' BY <2>1, <2>3 DEF LandInv, Open, Expected
    <2>8. ReadGood' /\ ReadyRead' /\ PassedGood' BY <2>1 DEF ReadGood, ReadyRead, PassedGood
    <2>9. ArmedGood' /\ VerifiedLands' BY <2>1, <2>2, <2>3, <2>4 DEF LandInv, ArmedGood, VerifiedLands, Good
    <2> QED BY <2>5, <2>6, <2>7, <2>8, <2>9 DEF LandInv
  <1>2. CASE RunnerStops
    <2>1. /\ build'.head = build.head /\ build'.decided = build.decided /\ runner'.pc = "off"
          /\ build'.stage = IF build.stage = "work" THEN "due" ELSE build.stage
      BY <1>0, <1>2, GiveUpType DEF RunnerStops, GiveUpPublishing, Builds
    <2>2. UNCHANGED <<spent.verified, spent.polled, spent.carried>> /\ UNCHANGED <<forge, poll>>
      BY <1>2 DEF RunnerStops, TypeInv, TypeOK
    <2> QED BY <2>1, <2>2, UnmovedLand DEF Unmoved
  <1>3. CASE Hold \/ Land
    <2>1. PICK kind : Command(kind) BY <1>3 DEF Hold, Land
    <2>2. build'.head = build.head /\ build'.decided = build.decided /\ build'.stage = build.stage
      BY <1>0, <2>1 DEF Command, Builds
    <2> QED BY <2>1, <2>2, UnmovedLand DEF Command, Unmoved, LandInv, AtRest
  <1>4. CASE Demand
    <2>1. /\ build'.head = build.head /\ build'.decided = build.decided /\ build'.stage = "due"
          /\ build.stage = "ready" /\ UNCHANGED <<forge, poll, runner, spent>>
      BY <1>0, <1>4 DEF Demand, Builds, Ready
    <2>2. runner'.pc # "verify" BY <2>1 DEF LandInv, AtRest
    <2> QED BY <2>1, <2>2, UnmovedLand DEF Unmoved
  <1>5. CASE HumanMerges
    <2>1. /\ forge'.head = forge.head /\ forge'.late = forge.late /\ forge'.armed = FALSE
          /\ forge'.state = "merged" /\ forge'.by = "human" /\ UNCHANGED <<build, poll, runner, spent>>
      BY <1>0, <1>5 DEF HumanMerges, Merged, Forges
    <2> QED BY <2>1, ForgeLand
  <1>6. CASE ForgeMerges
    <2>1. /\ forge'.head = forge.head /\ forge'.late = forge.late /\ forge'.armed = FALSE
          /\ forge'.state = "merged" /\ UNCHANGED <<build, poll, runner, spent>>
      BY <1>0, <1>6 DEF ForgeMerges, Merged, Forges
    <2>2. Good \/ (spent.carried /\ ~spent.polled) BY <1>6 DEF ForgeMerges, LandInv, ArmedGood
    <2>3. forge'.by = "native" BY <1>0, <1>6 DEF ForgeMerges, Merged, Forges
    <2> QED BY <2>1, <2>2, <2>3, ForgeLand
  <1>7. CASE LateEnable
    <2>1. /\ forge'.head = forge.head /\ forge'.late = 0 /\ forge'.by = forge.by
          /\ forge'.state = forge.state /\ UNCHANGED <<build, poll, runner, spent>>
          /\ (forge'.armed => forge.armed \/ (forge.state = "open" /\ forge.head = forge.late))
      BY <1>0, <1>7 DEF LateEnable, Armed, Forges
    <2>2. forge.head = forge.late => Good BY ExpectedGood DEF LandInv, Expected
    <2> QED BY <2>1, <2>2, ForgeLand
  <1> QED BY <1>1, <1>2, <1>3, <1>4, <1>5, <1>6, <1>7 DEF Around

LEMMA NextLand == TypeInv /\ ArmedInv /\ LandInv /\ [Next]_vars => LandInv'
PROOF
  <1>1. ASSUME TypeInv, LandInv, UNCHANGED vars PROVE LandInv'
    BY <1>1, UnmovedLand DEF vars, Unmoved, LandInv, AtRest
  <1> QED BY <1>1, PollLand, RunnerLand, AroundLand DEF Next, Around

LEMMA Invariance == Spec => [](TypeInv /\ ArmedInv)
  BY InitTypes, InitArmed, NextTypes, NextArmed, PTL DEF Spec

-----------------------------------------------------------------------------
(* Theorems                                                                *)

(***************************************************************************)
(* Log, pull request, poll and publisher keep their shape, and the branch  *)
(* is never more than the one publication ahead that the publisher's       *)
(* comparison of the remote head allows (reconcile-restack.ts).            *)
(***************************************************************************)
THEOREM LandingTypeCorrect == Spec => []TypeOK
PROOF
  <1>1. TypeInv => TypeOK BY DEF TypeInv
  <1> QED BY <1>1, Invariance, PTL

(***************************************************************************)
(* A receipt that says off, with no enable outstanding, is the truth:      *)
(* native auto-merge is not armed, whatever crashed, was lost or came late *)
(* (dispatcher.ts checkPr, kernel/landing-publication.ts).                 *)
(***************************************************************************)
THEOREM ReceiptsTell == Spec => []ArmedIsKnown
PROOF
  <1>1. ArmedInv => ArmedIsKnown BY DEF ArmedInv
  <1> QED BY <1>1, Invariance, PTL

(***************************************************************************)
(* What a direct merge lands is the head that was verified and decided on, *)
(* and so is what native auto-merge lands, whenever the checks pass and    *)
(* whatever crashes or comes late, except a head to which the publisher's  *)
(* push carried over an enable that arrived after its last look, before a  *)
(* poll of that head has ended (dispatcher.ts checkPr,                     *)
(* landing-publication.ts, reconcile-restack.ts publishRestack).           *)
(***************************************************************************)
THEOREM LandsWhatWasVerified == Spec => []VerifiedLands
PROOF
  <1>1. TypeInv /\ ArmedInv /\ LandInv /\ [Next]_vars => LandInv' BY NextLand
  <1>2. LandInv => VerifiedLands BY DEF LandInv
  <1> QED BY <1>1, <1>2, InitLand, Invariance, PTL DEF Spec
=============================================================================
