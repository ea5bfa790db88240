-------------------------- MODULE ReductionProofs --------------------------
(***************************************************************************)
(* Reductions of the log.  First cached ones, for any number of concurrent *)
(* calls over a log of any length, however often the row is damaged and    *)
(* its writes fail.  Then the fold of the build reducer, for any number of *)
(* verify members and wherever its batches end.                            *)
(***************************************************************************)
EXTENDS ReducerValues, BuildFold, FiniteSetTheorems, WellFoundedInduction, TLAPS

(***************************************************************************)
(* The strengthening.  A row that names the request and passes validation  *)
(* is the reduction at its cursor, in the store and in the hands of a call *)
(* that read it earlier; a call that starts from nothing had a row in hand *)
(* that is not sound; and what a call has folded is the reduction so far.  *)
(***************************************************************************)
SoundAt(x, h) == Sound(x) => x.cursor <= h /\ x.acc = Reduction(x.cursor)

CallAt(c, h) ==
  /\ c.asked <= c.boundary /\ c.boundary <= h
  /\ SoundAt(c.seen, h)
  /\ c.pc \in {"seeded", "store"} /\ ~c.valid => ~Sound(c.seen)
  /\ c.pc = "seeded" => c.cursor <= c.boundary /\ c.acc = Reduction(c.cursor)
  /\ c.pc \in {"store", "done"} => c.cursor = c.boundary /\ c.acc = Reduction(c.cursor)

IndInv == TypeOK /\ SoundAt(row, head) /\ \A r \in Readers : CallAt(call[r], head)

Calls == [pc : {"idle", "asked", "read", "seeded", "store", "done"},
          asked : 0..MaxSeq, boundary : 0..MaxSeq,
          seen : Rows \cup {NoRow}, valid : BOOLEAN,
          cursor : 0..(MaxSeq + 1), acc : Accs]

-----------------------------------------------------------------------------
(* Reductions                                                              *)

LEMMA InitialIsReduction == Initial = Reduction(0)
  BY ValuesAssumption DEF Initial, Reduction, Events

LEMMA ReductionType == \A n \in Int : Reduction(n) \in Accs
  BY DEF Reduction, Accs

LEMMA InitialType == Initial \in Accs
  BY DEF Initial, Accs

LEMMA AdvanceType ==
  ASSUME NEW acc \in Accs, NEW m \in Int, NEW n \in Int
  PROVE  Advance(acc, m, n) \in Accs
  BY DEF Advance, Accs

(***************************************************************************)
(* Folding the events after a cursor makes the reduction at the last of    *)
(* them: advancing by batches is folding from the start.                   *)
(***************************************************************************)
LEMMA AdvanceReduces ==
  ASSUME NEW m \in Nat, NEW n \in Nat, m <= n
  PROVE  Advance(Reduction(m), m + 1, n) = Reduction(n)
PROOF
  <1>1. \A e \in Events : e \in Int BY ValuesAssumption DEF Events
  <1>2. \A e \in Events : Advance(Reduction(m), m + 1, n)[e] = Reduction(n)[e]
    BY <1>1 DEF Advance, Reduction
  <1> QED BY <1>2 DEF Advance, Reduction

LEMMA RowType ==
  ASSUME NEW n \in 0..MaxSeq, NEW acc \in Accs
  PROVE  Row(n, acc) \in Rows /\ Sound(Row(n, acc)) /\ Row(n, acc).cursor = n /\ Row(n, acc).acc = acc
  BY ValuesAssumption DEF Row, Rows, Versions, Sound

(***************************************************************************)
(* A sound row stays sound for a longer log.                               *)
(***************************************************************************)
LEMMA SoundGrows ==
  ASSUME NEW x \in Rows \cup {NoRow}, NEW h \in Nat, NEW k \in Nat, h <= k, SoundAt(x, h)
  PROVE  SoundAt(x, k)
PROOF
  <1>1. x.cursor \in Int BY ValuesAssumption DEF Rows, NoRow
  <1> QED BY <1>1 DEF SoundAt

LEMMA CallGrows ==
  ASSUME NEW c \in Calls, NEW h \in Nat, NEW k \in Nat, h <= k, CallAt(c, h)
  PROVE  CallAt(c, k)
PROOF
  <1>1. c.seen \in Rows \cup {NoRow} /\ c.boundary \in Int BY ValuesAssumption DEF Calls
  <1>2. SoundAt(c.seen, k) BY <1>1, SoundGrows DEF CallAt
  <1> QED BY <1>1, <1>2 DEF CallAt

LEMMA InitInd == Init => IndInv
PROOF
  <1> SUFFICES ASSUME Init PROVE IndInv OBVIOUS
  <1>1. TypeOK BY ValuesAssumption, InitialType DEF Init, TypeOK, Idle, NoRow
  <1>2. ~Sound(NoRow) BY DEF Sound, NoRow
  <1>3. ASSUME NEW r \in Readers PROVE CallAt(call[r], head)
    BY <1>2 DEF Init, CallAt, SoundAt, Idle
  <1> QED BY <1>1, <1>2, <1>3 DEF IndInv, SoundAt, Init

-----------------------------------------------------------------------------
(* What a call writes                                                      *)

(***************************************************************************)
(* The row after a call's write is the old one or a sound one with what    *)
(* the call folded, and over a sound row only one with a higher cursor.    *)
(***************************************************************************)
LEMMA StoredIsSound ==
  ASSUME IndInv, NEW r \in Readers, call[r].pc = "store"
  PROVE  LET next == Stored(call[r])
         IN  /\ next \in Rows \cup {NoRow}
             /\ SoundAt(next, head)
             /\ Sound(row) /\ next # row => Sound(next) /\ next.cursor > row.cursor
PROOF
  <1> DEFINE c == call[r]
             new == Row(c.cursor, c.acc)
             next == Stored(c)
  <1>1. c \in Calls /\ row \in Rows \cup {NoRow} BY DEF IndInv, TypeOK, Calls
  <1>2. CallAt(c, head) /\ SoundAt(row, head) /\ head \in 0..MaxSeq BY DEF IndInv, TypeOK
  <1>3. /\ c.cursor \in 0..MaxSeq /\ c.cursor <= head /\ c.acc = Reduction(c.cursor)
        /\ ~c.valid => ~Sound(c.seen)
    BY <1>1, <1>2, ValuesAssumption DEF CallAt, Calls
  <1>4. /\ new \in Rows /\ Sound(new) /\ new.cursor = c.cursor /\ new.version = "current"
        /\ new.acc = Reduction(new.cursor)
    BY <1>1, <1>3, RowType DEF Calls, Row
  <1>5. SoundAt(new, head) BY <1>3, <1>4 DEF SoundAt
  <1>6. next = row \/ next = new BY DEF Stored, Put, Repair
  <1>7. next \in Rows \cup {NoRow} /\ SoundAt(next, head) BY <1>1, <1>2, <1>4, <1>5, <1>6
  <1>8. ASSUME Sound(row), next # row PROVE new.cursor > row.cursor
    <2>1. next = new BY <1>6, <1>8
    <2>2. row # NoRow /\ row.version = "current" BY <1>8 DEF Sound, NoRow
    <2>3. ~(row = c.seen /\ c.seen # NoRow /\ ~c.valid) BY <1>3, <1>8
    <2>4. Supersedes(new, row) BY <1>8, <2>1, <2>3 DEF Stored, Put, Repair
    <2> QED BY <1>4, <2>2, <2>4 DEF Supersedes
  <1> HIDE DEF new, next
  <1>9. Sound(row) /\ next # row => Sound(next) /\ next.cursor > row.cursor BY <1>4, <1>6, <1>8
  <1> QED BY <1>7, <1>9 DEF next, c

-----------------------------------------------------------------------------
(* The invariant                                                           *)

LEMMA NextInd == IndInv /\ [Next]_vars => IndInv'
PROOF
  <1> SUFFICES ASSUME IndInv, [Next]_vars PROVE IndInv' OBVIOUS
  <1>0. /\ head \in 0..MaxSeq /\ row \in Rows \cup {NoRow} /\ call \in [Readers -> Calls]
        /\ faults \in 0..MaxFaults /\ damages \in 0..MaxDamages
        /\ SoundAt(row, head)
    BY DEF IndInv, TypeOK, Calls
  <1>a. \A r \in Readers : CallAt(call[r], head) /\ call[r] \in Calls BY <1>0 DEF IndInv
  <1> USE ValuesAssumption
  <1>1. CASE UNCHANGED vars
    BY <1>1 DEF vars, IndInv, TypeOK
  <1>2. CASE AppendEvent
    <2>1. head' \in 0..MaxSeq /\ head' >= head /\ head \in Nat /\ head' \in Nat BY <1>0, <1>2 DEF AppendEvent
    <2>2. UNCHANGED <<row, call, faults, damages>> BY <1>2 DEF AppendEvent
    <2>3. SoundAt(row, head') BY <1>0, <2>1, SoundGrows
    <2>4. \A r \in Readers : CallAt(call[r], head') BY <1>a, <2>1, CallGrows
    <2> QED BY <1>0, <2>1, <2>2, <2>3, <2>4 DEF IndInv, TypeOK, Calls
  <1>3. CASE Damage
    <2>1. row' \in Rows \cup {NoRow} /\ ~Sound(row')
      <3>1. CASE row' = NoRow BY <3>1 DEF Sound, NoRow
      <3>2. CASE row' # NoRow
        BY <1>3, <3>2, InitialType DEF Damage, Rows, Sound
      <3> QED BY <3>1, <3>2
    <2>2. UNCHANGED <<head, call, faults>> /\ damages' \in 0..MaxDamages BY <1>0, <1>3 DEF Damage
    <2> QED BY <1>0, <1>a, <2>1, <2>2 DEF IndInv, TypeOK, Calls, SoundAt
  <1>4. ASSUME NEW r \in Readers, UNCHANGED head, faults' \in 0..MaxFaults, damages' = damages,
               row' \in Rows \cup {NoRow}, SoundAt(row', head),
               NEW c \in Calls, CallAt(c, head), call' = [call EXCEPT ![r] = c]
        PROVE  IndInv'
    <2>1. call' \in [Readers -> Calls] BY <1>0, <1>4
    <2>2. \A s \in Readers : CallAt(call'[s], head) BY <1>0, <1>a, <1>4
    <2> QED BY <1>0, <1>4, <2>1, <2>2 DEF IndInv, TypeOK, Calls
  <1>5. ASSUME NEW r \in Readers, Ask(r) PROVE IndInv'
    <2> DEFINE c == [Idle EXCEPT !.pc = "asked", !.asked = head, !.boundary = head]
    <2>1. c \in Calls
      <3>1. Idle \in Calls BY InitialType DEF Idle, Calls
      <3> QED BY <1>0, <3>1 DEF Calls
    <2>2. CallAt(c, head) BY <1>0 DEF Idle, CallAt, SoundAt, Sound, NoRow
    <2>3. call' = [call EXCEPT ![r] = c] /\ UNCHANGED <<head, row, faults, damages>> BY <1>5 DEF Ask
    <2> HIDE DEF c
    <2> QED BY <1>0, <1>4, <2>1, <2>2, <2>3
  <1>6. ASSUME NEW r \in Readers, ReadRow(r) PROVE IndInv'
    <2> DEFINE c(x) == [call[r] EXCEPT !.pc = "read", !.seen = x]
    <2>1. ASSUME NEW x \in {row, NoRow} PROVE c(x) \in Calls /\ CallAt(c(x), head)
      <3>1. x \in Rows \cup {NoRow} /\ SoundAt(x, head) BY <1>0, <2>1 DEF SoundAt, Sound, NoRow
      <3>2. c(x) \in Calls BY <1>a, <3>1 DEF Calls
      <3>3. CallAt(c(x), head) BY <1>a, <3>1 DEF CallAt, Calls
      <3> QED BY <3>2, <3>3
    <2>2. PICK x \in {row, NoRow} : call' = [call EXCEPT ![r] = c(x)]
      BY <1>0, <1>6 DEF ReadRow
    <2>3. UNCHANGED <<head, row, damages>> /\ faults' \in 0..MaxFaults BY <1>0, <1>6 DEF ReadRow
    <2>4. c(x) \in Calls /\ CallAt(c(x), head) BY <2>1
    <2> HIDE DEF c
    <2> QED BY <1>0, <1>4, <2>2, <2>3, <2>4
  <1>7. ASSUME NEW r \in Readers, Seed(r) PROVE IndInv'
    <2> DEFINE o == call[r]
               boundary == Boundary(o)
               valid == Usable(o.seen, boundary)
               c == [o EXCEPT !.pc = "seeded", !.boundary = boundary, !.valid = valid,
                              !.cursor = StartCursor(o.seen, valid, boundary),
                              !.acc = IF valid THEN o.seen.acc ELSE Initial]
    <2>1. o \in Calls /\ CallAt(o, head) BY <1>a
    <2>2. call' = [call EXCEPT ![r] = c] /\ UNCHANGED <<head, row, faults, damages>>
      BY <1>7 DEF Seed
    <2>3. o.seen.cursor \in 0..(MaxSeq + 1) /\ o.seen.acc \in Accs /\ o.seen \in Rows \cup {NoRow}
      BY <2>1, InitialType DEF Calls, Rows, NoRow
    <2>4. /\ boundary \in 0..MaxSeq /\ o.asked <= boundary /\ boundary <= head
          /\ o.seen # NoRow /\ o.seen.cursor > boundary => boundary = head
      BY <1>0, <2>1, <2>3 DEF Boundary, Calls, CallAt
    <2>5. valid \in BOOLEAN /\ (valid => Sound(o.seen) /\ o.seen.cursor <= boundary)
      BY DEF Usable, Sound
    <2>6. Sound(o.seen) => valid
      <3>1. SUFFICES ASSUME Sound(o.seen) PROVE o.seen.cursor <= boundary BY DEF Usable, Sound
      <3>2. o.seen.cursor <= head /\ o.seen # NoRow BY <2>1, <3>1 DEF CallAt, SoundAt, Sound, NoRow
      <3> QED BY <2>3, <2>4, <3>2
    <2>7. valid => o.seen.acc = Reduction(o.seen.cursor) BY <2>1, <2>5 DEF CallAt, SoundAt
    <2>8. /\ c.pc = "seeded" /\ c.boundary = boundary /\ c.valid = valid /\ c.seen = o.seen
          /\ c.asked = o.asked /\ c.cursor = (IF valid THEN o.seen.cursor ELSE 0)
          /\ c.acc = (IF valid THEN o.seen.acc ELSE Initial)
      BY <2>1 DEF Calls, StartCursor
    <2>9. c \in Calls
      <3>1. c.cursor \in 0..(MaxSeq + 1) /\ c.acc \in Accs BY <2>3, <2>8, InitialType
      <3> HIDE DEF valid, boundary
      <3> QED BY <2>1, <2>4, <2>5, <2>8, <3>1 DEF Calls
    <2> HIDE DEF c, valid, boundary
    <2>10. CallAt(c, head)
      BY <1>0, <2>1, <2>4, <2>5, <2>6, <2>7, <2>8, InitialIsReduction DEF CallAt
    <2> QED BY <1>0, <1>4, <2>2, <2>9, <2>10
  <1>8. ASSUME NEW r \in Readers, Fold(r) PROVE IndInv'
    <2> DEFINE o == call[r]
               pc == IF ~o.valid \/ o.cursor < o.boundary THEN "store" ELSE "done"
               acc == Advance(o.acc, o.cursor + 1, o.boundary)
               c == [o EXCEPT !.pc = pc, !.cursor = o.boundary, !.acc = acc]
    <2>1. o \in Calls /\ CallAt(o, head) /\ o.pc = "seeded" BY <1>a, <1>8 DEF Fold
    <2>2. call' = [call EXCEPT ![r] = c] /\ UNCHANGED <<head, row, faults, damages>>
      BY <1>8 DEF Fold
    <2>3. o.cursor \in Nat /\ o.boundary \in 0..MaxSeq /\ o.cursor <= o.boundary /\ o.acc \in Accs
      BY <2>1 DEF Calls, CallAt
    <2>4. acc = Reduction(o.boundary) BY <2>1, <2>3, AdvanceReduces DEF CallAt
    <2>5. acc \in Accs BY <2>3, <2>4, ReductionType
    <2>6. pc \in {"store", "done"} OBVIOUS
    <2> HIDE DEF acc, pc
    <2>7. c \in Calls
      <3>1. o.boundary \in 0..(MaxSeq + 1) BY <2>3
      <3> HIDE DEF o
      <3> QED BY <2>1, <2>3, <2>5, <2>6, <3>1 DEF Calls
    <2>8. /\ c.pc = pc /\ c.boundary = o.boundary /\ c.cursor = o.boundary /\ c.acc = acc
          /\ c.valid = o.valid /\ c.seen = o.seen /\ c.asked = o.asked
      BY <2>1 DEF Calls
    <2> HIDE DEF c
    <2>9. CallAt(c, head) BY <2>1, <2>4, <2>6, <2>8 DEF CallAt
    <2> QED BY <1>0, <1>4, <2>2, <2>7, <2>9
  <1>9. ASSUME NEW r \in Readers, Store(r) PROVE IndInv'
    <2> DEFINE c == [call[r] EXCEPT !.pc = "done"]
    <2>1. call[r] \in Calls /\ CallAt(call[r], head) /\ call[r].pc = "store" BY <1>a, <1>9 DEF Store
    <2>2. call' = [call EXCEPT ![r] = c] /\ UNCHANGED <<head, damages>> /\ faults' \in 0..MaxFaults
      BY <1>0, <1>9 DEF Store
    <2>3. row' = row \/ row' = Stored(call[r]) BY <1>9 DEF Store
    <2>4. row' \in Rows \cup {NoRow} /\ SoundAt(row', head) BY <1>0, <2>1, <2>3, StoredIsSound
    <2>5. c \in Calls /\ CallAt(c, head) BY <2>1 DEF Calls, CallAt
    <2> HIDE DEF c
    <2> QED BY <1>4, <2>2, <2>4, <2>5
  <1> QED BY <1>1, <1>2, <1>3, <1>5, <1>6, <1>7, <1>8, <1>9 DEF Next, Step

LEMMA Invariance == Spec => []IndInv
  BY InitInd, NextInd, PTL DEF Spec

-----------------------------------------------------------------------------
(* Theorems                                                                *)

(***************************************************************************)
(* Calls and the row keep their shape.                                     *)
(***************************************************************************)
THEOREM ValuesTypeCorrect == Spec => []TypeOK
  BY Invariance, PTL DEF IndInv

(***************************************************************************)
(* An answer is the reduction of the log up to the cursor it names,        *)
(* whatever the cached row held (readReducerValue).                        *)
(***************************************************************************)
THEOREM AnswersCorrect == Spec => []AnswersAreReductions
PROOF
  <1>1. IndInv => AnswersAreReductions BY DEF IndInv, CallAt, AnswersAreReductions
  <1> QED BY <1>1, Invariance, PTL

(***************************************************************************)
(* An answer has every event that was in the log when it was asked for.    *)
(***************************************************************************)
THEOREM AnswersFresh == Spec => []AnswersAreFresh
PROOF
  <1>1. ASSUME IndInv, NEW r \in Readers, call[r].pc = "done"
        PROVE  call[r].cursor \in call[r].asked..head
    <2>1. call[r] \in Calls /\ head \in Int /\ CallAt(call[r], head)
      BY <1>1, ValuesAssumption DEF IndInv, TypeOK, Calls
    <2>2. call[r].asked \in Int /\ call[r].boundary \in Int BY <2>1, ValuesAssumption DEF Calls
    <2> QED BY <1>1, <2>1, <2>2 DEF CallAt
  <1>2. IndInv => AnswersAreFresh BY <1>1 DEF AnswersAreFresh
  <1> QED BY <1>2, Invariance, PTL

(***************************************************************************)
(* A row of this version that passes validation is the reduction at its    *)
(* cursor, which lies within the log.                                      *)
(***************************************************************************)
THEOREM RowsCorrect == Spec => []StoredIsReduction
PROOF
  <1>1. IndInv => StoredIsReduction BY DEF IndInv, SoundAt, StoredIsReduction
  <1> QED BY <1>1, Invariance, PTL

(***************************************************************************)
(* No call takes back the progress of another: the conditional upsert and  *)
(* the repair over what was read replace a sound row only by a newer one.  *)
(***************************************************************************)
THEOREM RowsAdvance == Spec => RowNeverRetreats
PROOF
  <1> DEFINE Kept == Sound(row) /\ row' # row /\ damages' = damages => Sound(row') /\ row'.cursor > row.cursor
  <1>1. ASSUME IndInv, [Next]_vars PROVE [Kept]_vars
    <2> SUFFICES ASSUME Sound(row), row' # row, damages' = damages
                 PROVE  Sound(row') /\ row'.cursor > row.cursor
      OBVIOUS
    <2>1. Next BY <1>1 DEF vars
    <2>2. ~AppendEvent BY DEF AppendEvent
    <2>3. ~Damage
      <3> SUFFICES ASSUME Damage PROVE FALSE OBVIOUS
      <3>1. damages \in Int BY <1>1, ValuesAssumption DEF IndInv, TypeOK
      <3>2. damages' = damages + 1 BY DEF Damage
      <3>3. damages = damages + 1 BY <3>2
      <3> QED BY <3>1, <3>3
    <2>4. PICK r \in Readers : Step(r) BY <2>1, <2>2, <2>3 DEF Next
    <2>5. Store(r) BY <2>4 DEF Step, Ask, ReadRow, Seed, Fold
    <2>6. row' = Stored(call[r]) /\ call[r].pc = "store" BY <2>5 DEF Store
    <2> QED BY <1>1, <2>6, StoredIsSound
  <1>2. IndInv /\ [Next]_vars => [Kept]_vars BY <1>1
  <1> QED BY <1>2, Invariance, PTL DEF Spec, RowNeverRetreats

-----------------------------------------------------------------------------
(***************************************************************************)
(* The build reducer.  Folding an event and ending a batch treat every     *)
(* fact of the accumulator alike, whatever its phase and step are; those   *)
(* two are what the end of a batch repairs.                                *)
(***************************************************************************)
SameFacts(a, b) ==
  /\ a.order = b.order /\ a.fresh = b.fresh /\ a.owned = b.owned
  /\ a.outcomes = b.outcomes /\ a.cancelled = b.cancelled /\ a.concurrent = b.concurrent
  /\ a.open = b.open /\ a.answered = b.answered /\ a.aborts = b.aborts
  /\ a.superseded = b.superseded

\* Members that started and are not settled.
Unsettled(a) == Range(a.order) \ (a.outcomes \cup a.cancelled)

\* An accumulator knows who is in its cycle, and its phase is nobody's who is settled.
Coherent(a) ==
  /\ a \in BuildAccs /\ IsInjective(a.order)
  /\ a.fresh \subseteq Range(a.order)
  /\ a.currentPhase \in Unsettled(a) \cup {"none", "implement"}

\* Alike: the same facts, the same work, and the same altogether until members overlap.
Alike(a, b) ==
  /\ SameFacts(a, b)
  /\ a.currentPhase = "implement" <=> b.currentPhase = "implement"
  /\ ~b.concurrent => a = b

\* Questions are of members with a session; those of a cancelled one are out of force.
QuestionsInForce(a) ==
  /\ a.open \cup a.answered \subseteq a.owned /\ a.aborts \subseteq a.answered
  /\ a.superseded \subseteq a.cancelled
  /\ (a.open \cup a.answered) \cap a.cancelled = {}

FoldInv ==
  /\ Coherent(whole) /\ Coherent(ahead) /\ Coherent(carried) /\ Alike(ahead, whole)
  /\ unread \in BOOLEAN /\ killed = whole.cancelled
  /\ QuestionsInForce(whole)
  /\ ~unread => carried = ahead /\ Finish(ahead) = ahead

-----------------------------------------------------------------------------
(***************************************************************************)
(* Sets of naturals have a least element, bounded ones a greatest: the     *)
(* initial segments below the elements of a set are finite sets, among     *)
(* which inclusion is well founded.                                        *)
(***************************************************************************)
LEMMA Least ==
  ASSUME NEW S \in SUBSET Nat, S # {}
  PROVE  \E n \in S : \A m \in S : n <= m
PROOF
  <1> DEFINE Segments == {0 .. n : n \in S}
             R == StrictSubsetOrdering(Nat)
  <1>1. Segments \subseteq FiniteSubsetsOf(Nat) /\ Segments # {}
    <2>1. \A n \in S : n \in Nat /\ 0 .. n \in SUBSET Nat
      OBVIOUS
    <2>2. \A n \in S : IsFiniteSet(0 .. n)
      BY FS_Interval
    <2> QED BY <2>1, <2>2 DEF FiniteSubsetsOf
  <1>2. IsWellFoundedOn(R, FiniteSubsetsOf(Nat))
    BY FS_StrictSubsetOrderingWellFounded
  <1> HIDE DEF R
  <1>3. PICK least \in Segments : \A other \in Segments : <<other, least>> \notin R
    <2> HIDE DEF Segments
    <2> QED BY <1>1, <1>2, WFMin
  <1>4. PICK n \in S : least = 0 .. n
    BY <1>3
  <1>5. ASSUME NEW m \in S, m < n PROVE FALSE
    <2>1. n \in Nat /\ m \in Nat
      OBVIOUS
    <2>2. 0 .. m \subseteq 0 .. n /\ n \in 0 .. n /\ n \notin 0 .. m
      BY <1>5, <2>1
    <2>3. <<0 .. m, 0 .. n>> \in R
      BY <2>1, <2>2 DEF R, StrictSubsetOrdering
    <2> QED BY <1>3, <1>4, <2>3
  <1> QED BY <1>5

LEMMA Greatest ==
  ASSUME NEW N \in Nat, NEW S \in SUBSET (0 .. N), S # {}
  PROVE  \E n \in S : \A m \in S : n >= m
PROOF
  <1> DEFINE T == {N - i : i \in S}
  <1>1. T \in SUBSET Nat /\ T # {}
    <2>1. \A i \in S : N - i \in Nat
      OBVIOUS
    <2> QED BY <2>1
  <1>2. PICK t \in T : \A m \in T : t <= m
    BY <1>1, Least
  <1>3. PICK n \in S : t = N - n
    BY <1>2
  <1>4. \A m \in S : N - m \in T
    OBVIOUS
  <1>5. \A m \in S : N - n <= N - m
    BY <1>2, <1>3, <1>4
  <1> QED BY <1>3, <1>5

(***************************************************************************)
(* The running member that was first started last is running.              *)
(***************************************************************************)
LEMMA LastRunningRuns ==
  ASSUME NEW a \in BuildAccs, a.fresh \subseteq Range(a.order), Running(a) # {}
  PROVE  LastRunning(a) \in Running(a)
PROOF
  <1> DEFINE At == {i \in DOMAIN a.order : a.order[i] \in Running(a)}
  <1>1. a.order \in Seq(Members) /\ Len(a.order) \in Nat /\ DOMAIN a.order = 1 .. Len(a.order)
    BY DEF BuildAccs
  <1>2. PICK m : m \in Running(a)
    OBVIOUS
  <1>3. PICK i \in DOMAIN a.order : a.order[i] = m
    BY <1>2 DEF Running, Range
  <1>4. i \in At
    BY <1>2, <1>3
  <1>5. At \in SUBSET (0 .. Len(a.order))
    BY <1>1
  <1>6. PICK n \in At : \A k \in At : n >= k
    <2> HIDE DEF At
    <2> QED BY <1>1, <1>4, <1>5, Greatest
  <1>7. Max(At) \in At
    <2> HIDE DEF At
    <2> QED BY <1>6 DEF Max
  <1> QED BY <1>7 DEF LastRunning

-----------------------------------------------------------------------------
(***************************************************************************)
(* One event                                                               *)
(***************************************************************************)
LEMMA AccFields ==
  ASSUME NEW a \in BuildAccs
  PROVE  /\ a.order \in Seq(Members) /\ a.fresh \subseteq Members /\ a.owned \subseteq Members
         /\ a.outcomes \subseteq Members /\ a.cancelled \subseteq Members /\ a.concurrent \in BOOLEAN
         /\ a.currentPhase \in Phases /\ a.currentStep \in Phases
         /\ a.open \subseteq Members /\ a.answered \subseteq Members /\ a.aborts \subseteq Members
         /\ a.superseded \subseteq Members /\ Range(a.order) \subseteq Members
PROOF
  <1>1. a.order \in Seq(Members)
    BY DEF BuildAccs
  <1>2. Range(a.order) \subseteq Members
    BY <1>1 DEF Range
  <1> QED BY <1>1, <1>2 DEF BuildAccs

LEMMA InitialCoherent == Coherent(InitialAcc) /\ QuestionsInForce(InitialAcc)
  BY FoldAssumption DEF Coherent, InitialAcc, BuildAccs, Phases, IsInjective, Unsettled, Range, QuestionsInForce

\* complete() closes the phase or leaves it.
LEMMA CompleteIs ==
  ASSUME NEW a \in BuildAccs, NEW p \in Phases
  PROVE  /\ Complete(a, p) \in BuildAccs /\ SameFacts(Complete(a, p), a)
         /\ Complete(a, p).currentPhase = IF a.currentPhase = p THEN "none" ELSE a.currentPhase
         /\ Complete(a, p).currentStep = a.currentStep
  BY DEF Complete, BuildAccs, SameFacts, Phases

LEMMA OrderGrows ==
  ASSUME NEW order \in Seq(Members), IsInjective(order), NEW m \in Members, m \notin Range(order)
  PROVE  /\ Append(order, m) \in Seq(Members) /\ IsInjective(Append(order, m))
         /\ Range(Append(order, m)) = Range(order) \cup {m}
PROOF
  <1> DEFINE longer == Append(order, m)
  <1>1. Len(order) \in Nat /\ DOMAIN order = 1 .. Len(order) /\ longer \in Seq(Members)
        /\ DOMAIN longer = 1 .. Len(order) + 1 /\ longer[Len(order) + 1] = m
        /\ \A i \in 1 .. Len(order) : longer[i] = order[i]
    OBVIOUS
  <1> HIDE DEF longer
  <1>2. \A i \in 1 .. Len(order) + 1 : i \in 1 .. Len(order) \/ i = Len(order) + 1
    BY <1>1
  <1>3. \A i \in 1 .. Len(order) : order[i] # m
    BY <1>1 DEF Range
  <1>4. IsInjective(longer)
    BY <1>1, <1>2, <1>3 DEF IsInjective
  <1>5. Range(longer) = Range(order) \cup {m}
    <2>1. \A x \in Range(longer) : x \in Range(order) \cup {m}
      BY <1>1, <1>2 DEF Range
    <2>2. \A x \in Range(order) : x \in Range(longer)
      <3>1. \A i \in 1 .. Len(order) : i \in 1 .. Len(order) + 1
        BY <1>1
      <3> QED BY <1>1, <3>1 DEF Range
    <2>3. m \in Range(longer)
      <3>1. Len(order) + 1 \in 1 .. Len(order) + 1
        BY <1>1
      <3> QED BY <1>1, <3>1 DEF Range
    <2> QED BY <2>1, <2>2, <2>3
  <1> QED BY <1>1, <1>4, <1>5 DEF longer

LEMMA StartMemberIs ==
  ASSUME NEW a, Coherent(a), NEW m \in Members
  PROVE  /\ StartMember(a, m) \in BuildAccs /\ IsInjective(StartMember(a, m).order)
         /\ Range(StartMember(a, m).order) = Range(a.order) \cup {m}
         /\ StartMember(a, m).order = IF m \in Range(a.order) THEN a.order ELSE Append(a.order, m)
         /\ StartMember(a, m).fresh = a.fresh \cup {m} /\ StartMember(a, m).owned = a.owned
         /\ StartMember(a, m).outcomes = a.outcomes /\ StartMember(a, m).cancelled = a.cancelled
         /\ StartMember(a, m).concurrent = (a.concurrent \/ Running(a) \ {m} # {})
         /\ StartMember(a, m).currentPhase = m /\ StartMember(a, m).currentStep = m
         /\ StartMember(a, m).open = a.open /\ StartMember(a, m).answered = a.answered
         /\ StartMember(a, m).aborts = a.aborts /\ StartMember(a, m).superseded = a.superseded
PROOF
  <1> DEFINE b == StartMember(a, m)
             order == IF m \in Range(a.order) THEN a.order ELSE Append(a.order, m)
             overlap == a.concurrent \/ Running(a) \ {m} # {}
  <1>1. a \in BuildAccs /\ a.order \in Seq(Members) /\ IsInjective(a.order)
    BY AccFields DEF Coherent
  <1>2. order \in Seq(Members) /\ IsInjective(order) /\ Range(order) = Range(a.order) \cup {m}
    BY <1>1, OrderGrows
  <1>3. b = [a EXCEPT !.order = order, !.fresh = a.fresh \cup {m}, !.concurrent = overlap,
                      !.currentPhase = m, !.currentStep = m]
    BY <1>1 DEF StartMember, BuildAccs
  <1>4. overlap \in BOOLEAN
    BY <1>1 DEF BuildAccs
  <1> HIDE DEF order, overlap, b
  <1>5. /\ b.order = order /\ b.fresh = a.fresh \cup {m} /\ b.owned = a.owned
        /\ b.outcomes = a.outcomes /\ b.cancelled = a.cancelled /\ b.concurrent = overlap
        /\ b.currentPhase = m /\ b.currentStep = m /\ b.open = a.open /\ b.answered = a.answered
        /\ b.aborts = a.aborts /\ b.superseded = a.superseded
    BY <1>1, <1>3 DEF BuildAccs
  <1>6. b \in BuildAccs
    BY <1>1, <1>2, <1>3, <1>4 DEF BuildAccs, Phases
  <1> QED BY <1>2, <1>5, <1>6 DEF b, order, overlap

LEMMA CompleteMemberIs ==
  ASSUME NEW a \in BuildAccs, NEW m \in Members
  PROVE  /\ CompleteMember(a, m) \in BuildAccs
         /\ SameFacts(CompleteMember(a, m),
                      [a EXCEPT !.outcomes = IF m \in a.cancelled THEN @ ELSE @ \cup {m}])
         /\ CompleteMember(a, m).currentPhase =
              IF m \notin a.cancelled /\ a.currentPhase = m THEN "none" ELSE a.currentPhase
PROOF
  <1>1. CASE m \in a.cancelled
    BY <1>1 DEF CompleteMember, SameFacts, BuildAccs
  <1>2. CASE m \notin a.cancelled
    <2> DEFINE step == IF a.currentStep = m THEN "none" ELSE a.currentStep
               b == [a EXCEPT !.outcomes = a.outcomes \cup {m}, !.currentStep = step]
    <2>1. step \in Phases
      BY DEF BuildAccs, Phases
    <2>2. CompleteMember(a, m) = Complete(b, m)
      BY <1>2 DEF CompleteMember, BuildAccs
    <2> HIDE DEF step
    <2>3. b \in BuildAccs
      BY <2>1 DEF BuildAccs
    <2>4. b.currentPhase = a.currentPhase /\ SameFacts(b, [a EXCEPT !.outcomes = @ \cup {m}])
      BY DEF BuildAccs, SameFacts
    <2> HIDE DEF b
    <2>5. Complete(b, m) \in BuildAccs /\ SameFacts(Complete(b, m), b)
          /\ Complete(b, m).currentPhase = IF b.currentPhase = m THEN "none" ELSE b.currentPhase
      BY <2>3, CompleteIs DEF Phases
    <2> QED BY <1>2, <2>2, <2>4, <2>5 DEF SameFacts
  <1> QED BY <1>1, <1>2

\* What a cancellation of m takes out of force.
Withdrawn(a, m) == {m} \cap a.owned \cap (a.open \cup a.answered)

LEMMA CancelMemberIs ==
  ASSUME NEW a \in BuildAccs, NEW m \in Members
  PROVE  /\ CancelMember(a, m) \in BuildAccs
         /\ IF m \in a.outcomes \cup a.cancelled THEN CancelMember(a, m) = a
            ELSE /\ SameFacts(CancelMember(a, m),
                              [a EXCEPT !.cancelled = @ \cup {m},
                                        !.open = @ \ Withdrawn(a, m), !.answered = @ \ Withdrawn(a, m),
                                        !.aborts = @ \ Withdrawn(a, m),
                                        !.superseded = @ \cup Withdrawn(a, m)])
                 /\ CancelMember(a, m).currentPhase =
                      IF a.currentPhase = m THEN "none" ELSE a.currentPhase
PROOF
  <1>1. CASE m \in a.outcomes \cup a.cancelled
    BY <1>1 DEF CancelMember
  <1>2. CASE m \notin a.outcomes \cup a.cancelled
    <2> DEFINE b == [a EXCEPT !.cancelled = @ \cup {m},
                              !.open = @ \ Withdrawn(a, m), !.answered = @ \ Withdrawn(a, m),
                              !.aborts = @ \ Withdrawn(a, m), !.superseded = @ \cup Withdrawn(a, m)]
    <2>1. CancelMember(a, m) = Complete(b, m)
      BY <1>2 DEF CancelMember, Withdrawn
    <2>2. Withdrawn(a, m) \subseteq Members
      BY DEF Withdrawn
    <2>3. b \in BuildAccs /\ b.currentPhase = a.currentPhase
      BY <2>2 DEF BuildAccs
    <2> HIDE DEF b
    <2>4. Complete(b, m) \in BuildAccs /\ SameFacts(Complete(b, m), b)
          /\ Complete(b, m).currentPhase = IF b.currentPhase = m THEN "none" ELSE b.currentPhase
      BY <2>3, CompleteIs DEF Phases
    <2> QED BY <1>2, <2>1, <2>3, <2>4 DEF b
  <1> QED BY <1>1, <1>2

LEMMA AnswerIs ==
  ASSUME NEW a \in BuildAccs, NEW m \in Members, NEW abort \in BOOLEAN
  PROVE  Answer(a, m, abort) \in BuildAccs
PROOF
  <1>1. CASE m \notin a.open
    BY <1>1 DEF Answer
  <1>2. CASE m \in a.open
    <2> DEFINE aborts == IF abort THEN a.aborts \cup {m} ELSE a.aborts
               open == a.open \ {m}
               answered == a.answered \cup {m}
    <2>1. aborts \subseteq Members /\ open \subseteq Members /\ answered \subseteq Members
      BY DEF BuildAccs
    <2>2. Answer(a, m, abort) = [a EXCEPT !.open = open, !.answered = answered, !.aborts = aborts]
      BY <1>2 DEF Answer
    <2> HIDE DEF aborts, open, answered
    <2> QED BY <2>1, <2>2 DEF BuildAccs
  <1> QED BY <1>1, <1>2

(***************************************************************************)
(* Every event keeps an accumulator coherent, and two that are alike       *)
(* alike: what it makes of a fact depends on no phase and no step.         *)
(***************************************************************************)
\* What an operation f on accumulators has to do, at a and at b.
Keeps(fa, a, fb, b) ==
  Coherent(a) /\ Coherent(b) /\ Alike(a, b) => Coherent(fa) /\ Coherent(fb) /\ Alike(fa, fb)

LEMMA AlikeByFacts ==
  ASSUME NEW a, NEW b, NEW fa, NEW fb, Alike(a, b), SameFacts(fa, fb),
         fa.currentPhase = "implement" <=> fb.currentPhase = "implement",
         ~fb.concurrent => ~b.concurrent, a = b => fa = fb
  PROVE  Alike(fa, fb)
  BY DEF Alike

LEMMA CoherentByFacts ==
  ASSUME NEW a, Coherent(a), NEW fa \in BuildAccs, fa.order = a.order, fa.fresh \subseteq a.fresh,
         fa.outcomes = a.outcomes, fa.cancelled = a.cancelled,
         fa.currentPhase \in {a.currentPhase, "none", "implement"}
  PROVE  Coherent(fa)
  BY DEF Coherent, Unsettled

LEMMA StartKeeps ==
  ASSUME NEW a, NEW b, NEW m \in Members, m \notin b.outcomes \cup b.cancelled
  PROVE  Keeps(StartMember(a, m), a, StartMember(b, m), b)
PROOF
  <1> SUFFICES ASSUME Coherent(a), Coherent(b), Alike(a, b)
               PROVE  /\ Coherent(StartMember(a, m)) /\ Coherent(StartMember(b, m))
                      /\ Alike(StartMember(a, m), StartMember(b, m))
    BY DEF Keeps
  <1>1. a.fresh \subseteq Range(a.order) /\ b.fresh \subseteq Range(b.order) /\ SameFacts(a, b)
    BY DEF Coherent, Alike
  <1>2. Running(a) = Running(b)
    BY <1>1 DEF Running, SameFacts
  <1>3. Coherent(StartMember(a, m)) /\ Coherent(StartMember(b, m))
    BY <1>1, StartMemberIs DEF Coherent, Unsettled, SameFacts
  <1>4. SameFacts(StartMember(a, m), StartMember(b, m))
    <2>1. a.concurrent = b.concurrent /\ a.order = b.order /\ a.fresh = b.fresh
      BY <1>1 DEF SameFacts
    <2>2. (a.concurrent \/ Running(a) \ {m} # {}) = (b.concurrent \/ Running(b) \ {m} # {})
      BY <1>2, <2>1
    <2>3. StartMember(a, m).concurrent = StartMember(b, m).concurrent
      BY <2>2, StartMemberIs
    <2>4. /\ StartMember(a, m).order = IF m \in Range(a.order) THEN a.order ELSE Append(a.order, m)
          /\ StartMember(b, m).order = IF m \in Range(b.order) THEN b.order ELSE Append(b.order, m)
      BY StartMemberIs
    <2>5. StartMember(a, m).order = StartMember(b, m).order
      BY <2>1, <2>4
    <2>6. StartMember(a, m).fresh = a.fresh \cup {m} /\ StartMember(b, m).fresh = b.fresh \cup {m}
      BY StartMemberIs
    <2>7. StartMember(a, m).fresh = StartMember(b, m).fresh
      BY <2>1, <2>6
    <2> QED BY <1>1, <2>3, <2>5, <2>7, StartMemberIs DEF SameFacts
  <1>5. StartMember(a, m).currentPhase = StartMember(b, m).currentPhase
    BY StartMemberIs
  <1>6. ~StartMember(b, m).concurrent => ~b.concurrent
    BY StartMemberIs
  <1> QED BY <1>3, <1>4, <1>5, <1>6, AlikeByFacts

LEMMA CompleteMemberKeeps ==
  ASSUME NEW a, NEW b, NEW m \in Members
  PROVE  Keeps(CompleteMember(a, m), a, CompleteMember(b, m), b)
PROOF
  <1> SUFFICES ASSUME Coherent(a), Coherent(b), Alike(a, b)
               PROVE  /\ Coherent(CompleteMember(a, m)) /\ Coherent(CompleteMember(b, m))
                      /\ Alike(CompleteMember(a, m), CompleteMember(b, m))
    BY DEF Keeps
  <1>1. m # "implement" /\ m # "none"
    BY FoldAssumption
  <1>2. ASSUME NEW c, Coherent(c)
        PROVE  /\ Coherent(CompleteMember(c, m))
               /\ (CompleteMember(c, m).currentPhase = "implement" <=> c.currentPhase = "implement")
               /\ CompleteMember(c, m).order = c.order /\ CompleteMember(c, m).fresh = c.fresh
               /\ CompleteMember(c, m).owned = c.owned /\ CompleteMember(c, m).cancelled = c.cancelled
               /\ CompleteMember(c, m).outcomes = IF m \in c.cancelled THEN c.outcomes ELSE c.outcomes \cup {m}
               /\ CompleteMember(c, m).concurrent = c.concurrent
               /\ CompleteMember(c, m).open = c.open /\ CompleteMember(c, m).answered = c.answered
               /\ CompleteMember(c, m).aborts = c.aborts /\ CompleteMember(c, m).superseded = c.superseded
    <2>1. c \in BuildAccs
      BY <1>2 DEF Coherent
    <2>2. SameFacts(CompleteMember(c, m), [c EXCEPT !.outcomes = IF m \in c.cancelled THEN @ ELSE @ \cup {m}])
          /\ CompleteMember(c, m) \in BuildAccs
          /\ CompleteMember(c, m).currentPhase =
               IF m \notin c.cancelled /\ c.currentPhase = m THEN "none" ELSE c.currentPhase
      BY <2>1, CompleteMemberIs
    <2> DEFINE d == CompleteMember(c, m)
    <2> HIDE DEF d
    <2>3. d.order = c.order /\ d.fresh = c.fresh /\ d.cancelled = c.cancelled /\ d.concurrent = c.concurrent
          /\ d.owned = c.owned /\ d.open = c.open /\ d.answered = c.answered /\ d.aborts = c.aborts
          /\ d.superseded = c.superseded
          /\ d.outcomes = IF m \in c.cancelled THEN c.outcomes ELSE c.outcomes \cup {m}
      BY <2>1, <2>2 DEF SameFacts, BuildAccs, d
    <2>4. d \in BuildAccs /\ d.currentPhase =
            IF m \notin c.cancelled /\ c.currentPhase = m THEN "none" ELSE c.currentPhase
      BY <2>2 DEF d
    <2>5. Coherent(d)
      BY <1>2, <2>3, <2>4 DEF Coherent, Unsettled
    <2> QED BY <1>1, <2>3, <2>4, <2>5 DEF d
  <1>3. SameFacts(CompleteMember(a, m), CompleteMember(b, m))
    <2> DEFINE fa == CompleteMember(a, m)
               fb == CompleteMember(b, m)
    <2>1. /\ fa.order = a.order /\ fa.fresh = a.fresh /\ fa.owned = a.owned /\ fa.cancelled = a.cancelled
          /\ fa.outcomes = IF m \in a.cancelled THEN a.outcomes ELSE a.outcomes \cup {m}
          /\ fa.concurrent = a.concurrent /\ fa.open = a.open /\ fa.answered = a.answered
          /\ fa.aborts = a.aborts /\ fa.superseded = a.superseded
      BY <1>2
    <2>2. /\ fb.order = b.order /\ fb.fresh = b.fresh /\ fb.owned = b.owned /\ fb.cancelled = b.cancelled
          /\ fb.outcomes = IF m \in b.cancelled THEN b.outcomes ELSE b.outcomes \cup {m}
          /\ fb.concurrent = b.concurrent /\ fb.open = b.open /\ fb.answered = b.answered
          /\ fb.aborts = b.aborts /\ fb.superseded = b.superseded
      BY <1>2
    <2> HIDE DEF fa, fb
    <2>3. fa.outcomes = fb.outcomes
      BY <2>1, <2>2 DEF Alike, SameFacts
    <2>4. SameFacts(fa, fb)
      BY <2>1, <2>2, <2>3 DEF Alike, SameFacts
    <2> QED BY <2>4 DEF fa, fb
  <1>4. Coherent(CompleteMember(a, m)) /\ Coherent(CompleteMember(b, m))
        /\ (CompleteMember(a, m).currentPhase = "implement" <=> CompleteMember(b, m).currentPhase = "implement")
        /\ CompleteMember(b, m).concurrent = b.concurrent
    BY <1>2 DEF Alike
  <1> QED BY <1>3, <1>4, AlikeByFacts

LEMMA CancelMemberKeeps ==
  ASSUME NEW a, NEW b, NEW m \in Members
  PROVE  Keeps(CancelMember(a, m), a, CancelMember(b, m), b)
PROOF
  <1> SUFFICES ASSUME Coherent(a), Coherent(b), Alike(a, b)
               PROVE  /\ Coherent(CancelMember(a, m)) /\ Coherent(CancelMember(b, m))
                      /\ Alike(CancelMember(a, m), CancelMember(b, m))
    BY DEF Keeps
  <1>1. m # "implement" /\ m # "none"
    BY FoldAssumption
  <1>2. CASE m \in b.outcomes \cup b.cancelled
    <2>1. m \in a.outcomes \cup a.cancelled
      BY <1>2 DEF Alike, SameFacts
    <2> QED BY <1>2, <2>1 DEF CancelMember
  <1>3. CASE m \notin b.outcomes \cup b.cancelled
    <2>1. m \notin a.outcomes \cup a.cancelled /\ Withdrawn(a, m) = Withdrawn(b, m)
      BY <1>3 DEF Alike, SameFacts, Withdrawn
    <2>2. ASSUME NEW c, Coherent(c), m \notin c.outcomes \cup c.cancelled
          PROVE  /\ Coherent(CancelMember(c, m))
                 /\ (CancelMember(c, m).currentPhase = "implement" <=> c.currentPhase = "implement")
                 /\ CancelMember(c, m).order = c.order /\ CancelMember(c, m).fresh = c.fresh
                 /\ CancelMember(c, m).owned = c.owned /\ CancelMember(c, m).outcomes = c.outcomes
                 /\ CancelMember(c, m).cancelled = c.cancelled \cup {m}
                 /\ CancelMember(c, m).concurrent = c.concurrent
                 /\ CancelMember(c, m).open = c.open \ Withdrawn(c, m)
                 /\ CancelMember(c, m).answered = c.answered \ Withdrawn(c, m)
                 /\ CancelMember(c, m).aborts = c.aborts \ Withdrawn(c, m)
                 /\ CancelMember(c, m).superseded = c.superseded \cup Withdrawn(c, m)
      <3> DEFINE d == CancelMember(c, m)
      <3>1. c \in BuildAccs
        BY <2>2 DEF Coherent
      <3>2. /\ d \in BuildAccs
            /\ SameFacts(d, [c EXCEPT !.cancelled = @ \cup {m},
                                      !.open = @ \ Withdrawn(c, m), !.answered = @ \ Withdrawn(c, m),
                                      !.aborts = @ \ Withdrawn(c, m),
                                      !.superseded = @ \cup Withdrawn(c, m)])
            /\ d.currentPhase = IF c.currentPhase = m THEN "none" ELSE c.currentPhase
        BY <2>2, <3>1, CancelMemberIs
      <3> HIDE DEF d
      <3>3. /\ d.order = c.order /\ d.fresh = c.fresh /\ d.owned = c.owned /\ d.outcomes = c.outcomes
            /\ d.cancelled = c.cancelled \cup {m} /\ d.concurrent = c.concurrent
            /\ d.open = c.open \ Withdrawn(c, m) /\ d.answered = c.answered \ Withdrawn(c, m)
            /\ d.aborts = c.aborts \ Withdrawn(c, m) /\ d.superseded = c.superseded \cup Withdrawn(c, m)
        BY <3>1, <3>2 DEF SameFacts, BuildAccs
      <3>4. Coherent(d)
        BY <2>2, <3>2, <3>3 DEF Coherent, Unsettled
      <3> QED BY <1>1, <3>2, <3>3, <3>4 DEF d
    <2>3. SameFacts(CancelMember(a, m), CancelMember(b, m))
      <3> DEFINE fa == CancelMember(a, m)
                 fb == CancelMember(b, m)
                 gone == Withdrawn(b, m)
      <3>1. /\ fa.order = a.order /\ fa.fresh = a.fresh /\ fa.owned = a.owned /\ fa.outcomes = a.outcomes
            /\ fa.cancelled = a.cancelled \cup {m} /\ fa.concurrent = a.concurrent
            /\ fa.open = a.open \ gone /\ fa.answered = a.answered \ gone
            /\ fa.aborts = a.aborts \ gone /\ fa.superseded = a.superseded \cup gone
        BY <1>3, <2>1, <2>2
      <3>2. /\ fb.order = b.order /\ fb.fresh = b.fresh /\ fb.owned = b.owned /\ fb.outcomes = b.outcomes
            /\ fb.cancelled = b.cancelled \cup {m} /\ fb.concurrent = b.concurrent
            /\ fb.open = b.open \ gone /\ fb.answered = b.answered \ gone
            /\ fb.aborts = b.aborts \ gone /\ fb.superseded = b.superseded \cup gone
        BY <1>3, <2>1, <2>2
      <3> HIDE DEF fa, fb, gone
      <3>3. SameFacts(fa, fb)
        BY <3>1, <3>2 DEF Alike, SameFacts
      <3> QED BY <3>3 DEF fa, fb
    <2>4. Coherent(CancelMember(a, m)) /\ Coherent(CancelMember(b, m))
          /\ (CancelMember(a, m).currentPhase = "implement" <=> CancelMember(b, m).currentPhase = "implement")
          /\ CancelMember(b, m).concurrent = b.concurrent
      BY <1>3, <2>1, <2>2 DEF Alike
    <2> QED BY <2>3, <2>4, AlikeByFacts
  <1> QED BY <1>2, <1>3

\* An event about a session or its questions: the lists of members and the phase stay.
AsideFrom(fa, a) ==
  /\ fa \in BuildAccs /\ fa.order = a.order /\ fa.fresh = a.fresh /\ fa.outcomes = a.outcomes
  /\ fa.cancelled = a.cancelled /\ fa.concurrent = a.concurrent /\ fa.currentPhase = a.currentPhase

LEMMA AsideKeeps ==
  ASSUME NEW a, NEW b, NEW fa, NEW fb,
         Coherent(a) /\ Coherent(b) /\ Alike(a, b)
           => AsideFrom(fa, a) /\ AsideFrom(fb, b) /\ SameFacts(fa, fb) /\ (a = b => fa = fb)
  PROVE  Keeps(fa, a, fb, b)
PROOF
  <1> SUFFICES ASSUME Coherent(a), Coherent(b), Alike(a, b)
               PROVE  Coherent(fa) /\ Coherent(fb) /\ Alike(fa, fb)
    BY DEF Keeps
  <1>1. AsideFrom(fa, a) /\ AsideFrom(fb, b) /\ SameFacts(fa, fb) /\ (a = b => fa = fb)
    OBVIOUS
  <1>2. Coherent(fa) /\ Coherent(fb)
    BY <1>1 DEF AsideFrom, Coherent, Unsettled
  <1>3. (fa.currentPhase = "implement" <=> fb.currentPhase = "implement") /\ fb.concurrent = b.concurrent
    BY <1>1 DEF AsideFrom, Alike
  <1> QED BY <1>1, <1>2, <1>3, AlikeByFacts

LEMMA SessionKeeps ==
  ASSUME NEW a, NEW b, NEW m \in Members
  PROVE  Keeps([a EXCEPT !.owned = @ \cup ({m} \cap Range(a.order))], a,
               [b EXCEPT !.owned = @ \cup ({m} \cap Range(b.order))], b)
PROOF
  <1> DEFINE f(c) == [c EXCEPT !.owned = @ \cup ({m} \cap Range(c.order))]
  <1>1. ASSUME Coherent(a), Coherent(b), Alike(a, b)
        PROVE  AsideFrom(f(a), a) /\ AsideFrom(f(b), b) /\ SameFacts(f(a), f(b)) /\ (a = b => f(a) = f(b))
    <2>1. a \in BuildAccs /\ b \in BuildAccs /\ SameFacts(a, b)
      BY <1>1 DEF Coherent, Alike
    <2>2. AsideFrom(f(a), a) /\ AsideFrom(f(b), b)
      BY <2>1 DEF AsideFrom, BuildAccs
    <2>3. f(a).owned = a.owned \cup ({m} \cap Range(a.order)) /\ f(b).owned = b.owned \cup ({m} \cap Range(b.order))
      BY <2>1 DEF BuildAccs
    <2>4. f(a).owned = f(b).owned
      BY <2>1, <2>3 DEF SameFacts
    <2>5. /\ f(a).open = a.open /\ f(a).answered = a.answered /\ f(a).aborts = a.aborts
          /\ f(a).superseded = a.superseded
          /\ f(b).open = b.open /\ f(b).answered = b.answered /\ f(b).aborts = b.aborts
          /\ f(b).superseded = b.superseded
      BY <2>1 DEF BuildAccs
    <2> HIDE DEF f
    <2>6. SameFacts(f(a), f(b))
      BY <2>1, <2>2, <2>4, <2>5 DEF SameFacts, AsideFrom
    <2> QED BY <2>2, <2>6
  <1> HIDE DEF f
  <1>2. Keeps(f(a), a, f(b), b)
    BY <1>1, AsideKeeps
  <1> QED BY <1>2 DEF f

LEMMA RaiseKeeps ==
  ASSUME NEW a, NEW b, NEW m \in Members
  PROVE  Keeps(Raise(a, m), a, Raise(b, m), b)
PROOF
  <1>1. ASSUME NEW c \in BuildAccs
        PROVE  /\ AsideFrom(Raise(c, m), c) /\ Raise(c, m).owned = c.owned
               /\ Raise(c, m).answered = c.answered /\ Raise(c, m).aborts = c.aborts
               /\ Raise(c, m).superseded = c.superseded \cup ({m} \cap c.owned \cap c.cancelled)
               /\ Raise(c, m).open = c.open \cup ({m} \ (c.owned \cap c.cancelled))
    BY <1>1 DEF Raise, AsideFrom, BuildAccs
  <1>2. ASSUME Coherent(a), Coherent(b), Alike(a, b)
        PROVE  /\ AsideFrom(Raise(a, m), a) /\ AsideFrom(Raise(b, m), b)
               /\ SameFacts(Raise(a, m), Raise(b, m)) /\ (a = b => Raise(a, m) = Raise(b, m))
    <2> DEFINE fa == Raise(a, m)
               fb == Raise(b, m)
    <2>1. a \in BuildAccs /\ b \in BuildAccs /\ SameFacts(a, b)
      BY <1>2 DEF Coherent, Alike
    <2>2. /\ AsideFrom(fa, a) /\ fa.owned = a.owned /\ fa.answered = a.answered /\ fa.aborts = a.aborts
          /\ fa.superseded = a.superseded \cup ({m} \cap a.owned \cap a.cancelled)
          /\ fa.open = a.open \cup ({m} \ (a.owned \cap a.cancelled))
      BY <1>1, <2>1
    <2>3. /\ AsideFrom(fb, b) /\ fb.owned = b.owned /\ fb.answered = b.answered /\ fb.aborts = b.aborts
          /\ fb.superseded = b.superseded \cup ({m} \cap b.owned \cap b.cancelled)
          /\ fb.open = b.open \cup ({m} \ (b.owned \cap b.cancelled))
      BY <1>1, <2>1
    <2> HIDE DEF fa, fb
    <2>4. SameFacts(fa, fb)
      BY <2>1, <2>2, <2>3 DEF SameFacts, AsideFrom
    <2> QED BY <2>2, <2>3, <2>4 DEF fa, fb
  <1> QED BY <1>2, AsideKeeps

LEMMA AnswerKeeps ==
  ASSUME NEW a, NEW b, NEW m \in Members, NEW abort \in BOOLEAN
  PROVE  Keeps(Answer(a, m, abort), a, Answer(b, m, abort), b)
PROOF
  <1> DEFINE Answered(c) == {m} \cap c.open
             Aborted(c) == IF abort THEN {m} \cap c.open ELSE {}
  <1>1. ASSUME NEW c \in BuildAccs
        PROVE  /\ AsideFrom(Answer(c, m, abort), c) /\ Answer(c, m, abort).owned = c.owned
               /\ Answer(c, m, abort).superseded = c.superseded
               /\ Answer(c, m, abort).open = c.open \ Answered(c)
               /\ Answer(c, m, abort).answered = c.answered \cup Answered(c)
               /\ Answer(c, m, abort).aborts = c.aborts \cup Aborted(c)
    <2>1. CASE m \notin c.open
      <3>1. Answered(c) = {} /\ Aborted(c) = {} /\ Answer(c, m, abort) = c
        BY <2>1 DEF Answer
      <3> HIDE DEF Answered, Aborted
      <3> QED BY <3>1 DEF AsideFrom
    <2>2. CASE m \in c.open
      <3> DEFINE aborts == c.aborts \cup Aborted(c)
      <3>1. Answered(c) = {m} /\ aborts = IF abort THEN c.aborts \cup {m} ELSE c.aborts
        BY <2>2
      <3> HIDE DEF aborts, Answered, Aborted
      <3>2. Answer(c, m, abort) = [c EXCEPT !.open = c.open \ {m}, !.answered = c.answered \cup {m},
                                            !.aborts = aborts]
        BY <2>2, <3>1 DEF Answer
      <3>3. Answer(c, m, abort) \in BuildAccs
        BY AnswerIs
      <3> QED BY <3>1, <3>2, <3>3 DEF AsideFrom, BuildAccs, aborts
    <2> QED BY <2>1, <2>2
  <1>2. ASSUME Coherent(a), Coherent(b), Alike(a, b)
        PROVE  /\ AsideFrom(Answer(a, m, abort), a) /\ AsideFrom(Answer(b, m, abort), b)
               /\ SameFacts(Answer(a, m, abort), Answer(b, m, abort))
               /\ (a = b => Answer(a, m, abort) = Answer(b, m, abort))
    <2> DEFINE fa == Answer(a, m, abort)
               fb == Answer(b, m, abort)
    <2>1. a \in BuildAccs /\ b \in BuildAccs /\ SameFacts(a, b)
      BY <1>2 DEF Coherent, Alike
    <2>2. Answered(a) = Answered(b) /\ Aborted(a) = Aborted(b)
      BY <2>1 DEF SameFacts
    <2> HIDE DEF Answered, Aborted
    <2>3. /\ AsideFrom(fa, a) /\ fa.owned = a.owned /\ fa.superseded = a.superseded
          /\ fa.open = a.open \ Answered(a) /\ fa.answered = a.answered \cup Answered(a)
          /\ fa.aborts = a.aborts \cup Aborted(a)
      BY <1>1, <2>1
    <2>4. /\ AsideFrom(fb, b) /\ fb.owned = b.owned /\ fb.superseded = b.superseded
          /\ fb.open = b.open \ Answered(b) /\ fb.answered = b.answered \cup Answered(b)
          /\ fb.aborts = b.aborts \cup Aborted(b)
      BY <1>1, <2>1
    <2> HIDE DEF fa, fb
    <2>5. SameFacts(fa, fb)
      BY <2>1, <2>2, <2>3, <2>4 DEF SameFacts, AsideFrom
    <2> QED BY <2>3, <2>4, <2>5 DEF fa, fb
  <1> QED BY <1>2, AsideKeeps

\* A boundary of the cycle, and the implement context's start and end.
LEMMA ContextKeeps ==
  ASSUME NEW a, NEW b
  PROVE  /\ Keeps([a EXCEPT !.fresh = {}], a, [b EXCEPT !.fresh = {}], b)
         /\ Keeps([a EXCEPT !.currentPhase = "implement"], a, [b EXCEPT !.currentPhase = "implement"], b)
         /\ Keeps(Complete(a, "implement"), a, Complete(b, "implement"), b)
PROOF
  <1> SUFFICES ASSUME Coherent(a), Coherent(b), Alike(a, b)
               PROVE  /\ Coherent([a EXCEPT !.fresh = {}]) /\ Coherent([b EXCEPT !.fresh = {}])
                      /\ Alike([a EXCEPT !.fresh = {}], [b EXCEPT !.fresh = {}])
                      /\ Coherent([a EXCEPT !.currentPhase = "implement"])
                      /\ Coherent([b EXCEPT !.currentPhase = "implement"])
                      /\ Alike([a EXCEPT !.currentPhase = "implement"], [b EXCEPT !.currentPhase = "implement"])
                      /\ Coherent(Complete(a, "implement")) /\ Coherent(Complete(b, "implement"))
                      /\ Alike(Complete(a, "implement"), Complete(b, "implement"))
    BY DEF Keeps
  <1>1. a \in BuildAccs /\ b \in BuildAccs /\ SameFacts(a, b)
        /\ (a.currentPhase = "implement" <=> b.currentPhase = "implement")
    BY DEF Coherent, Alike
  <1>2. Coherent([a EXCEPT !.fresh = {}]) /\ Coherent([b EXCEPT !.fresh = {}])
        /\ Alike([a EXCEPT !.fresh = {}], [b EXCEPT !.fresh = {}])
    <2> DEFINE f(c) == [c EXCEPT !.fresh = {}]
    <2>1. ASSUME NEW c \in BuildAccs
          PROVE  /\ f(c) \in BuildAccs /\ f(c).fresh = {}
                 /\ f(c).order = c.order /\ f(c).outcomes = c.outcomes /\ f(c).cancelled = c.cancelled
                 /\ f(c).currentPhase = c.currentPhase /\ f(c).concurrent = c.concurrent
      BY <2>1 DEF BuildAccs
    <2>2. SameFacts(f(a), f(b))
      BY <1>1 DEF SameFacts, BuildAccs
    <2> HIDE DEF f
    <2>3. Coherent(f(a)) /\ Coherent(f(b))
      BY <1>1, <2>1, CoherentByFacts
    <2>4. Alike(f(a), f(b))
      BY <1>1, <2>1, <2>2, AlikeByFacts
    <2> QED BY <2>3, <2>4 DEF f
  <1>3. Coherent([a EXCEPT !.currentPhase = "implement"]) /\ Coherent([b EXCEPT !.currentPhase = "implement"])
        /\ Alike([a EXCEPT !.currentPhase = "implement"], [b EXCEPT !.currentPhase = "implement"])
    <2> DEFINE f(c) == [c EXCEPT !.currentPhase = "implement"]
    <2>1. ASSUME NEW c \in BuildAccs
          PROVE  /\ f(c) \in BuildAccs /\ SameFacts(f(c), c) /\ f(c).currentPhase = "implement"
      BY <2>1 DEF BuildAccs, SameFacts, Phases
    <2> HIDE DEF f
    <2>2. SameFacts(f(a), a) /\ SameFacts(f(b), b) /\ f(a) \in BuildAccs /\ f(b) \in BuildAccs
          /\ f(a).currentPhase = "implement" /\ f(b).currentPhase = "implement"
      BY <1>1, <2>1
    <2>3. SameFacts(f(a), f(b)) /\ f(b).concurrent = b.concurrent
      BY <1>1, <2>2 DEF SameFacts
    <2>4. Coherent(f(a)) /\ Coherent(f(b))
      BY <2>2, CoherentByFacts DEF SameFacts
    <2>5. Alike(f(a), f(b))
      BY <2>2, <2>3, AlikeByFacts
    <2> QED BY <2>4, <2>5 DEF f
  <1>4. Coherent(Complete(a, "implement")) /\ Coherent(Complete(b, "implement"))
        /\ Alike(Complete(a, "implement"), Complete(b, "implement"))
    <2> DEFINE f(c) == Complete(c, "implement")
    <2>1. ASSUME NEW c \in BuildAccs
          PROVE  /\ f(c) \in BuildAccs /\ SameFacts(f(c), c)
                 /\ f(c).currentPhase = IF c.currentPhase = "implement" THEN "none" ELSE c.currentPhase
      BY <2>1, CompleteIs DEF Phases
    <2> HIDE DEF f
    <2>2. SameFacts(f(a), a) /\ SameFacts(f(b), b) /\ f(a) \in BuildAccs /\ f(b) \in BuildAccs
          /\ f(a).currentPhase # "implement" /\ f(b).currentPhase # "implement"
          /\ f(a).currentPhase \in {a.currentPhase, "none"} /\ f(b).currentPhase \in {b.currentPhase, "none"}
      BY <1>1, <2>1
    <2>3. SameFacts(f(a), f(b)) /\ f(b).concurrent = b.concurrent
      BY <1>1, <2>2 DEF SameFacts
    <2>4. Coherent(f(a)) /\ Coherent(f(b))
      BY <2>2, CoherentByFacts DEF SameFacts
    <2>5. a = b => f(a) = f(b)
      BY DEF f
    <2>6. Alike(f(a), f(b))
      BY <2>2, <2>3, <2>5, AlikeByFacts
    <2> QED BY <2>4, <2>6 DEF f
  <1> QED BY <1>2, <1>3, <1>4

-----------------------------------------------------------------------------
(***************************************************************************)
(* The end of a batch                                                      *)
(***************************************************************************)
LEMMA LastRunningBySame ==
  ASSUME NEW a, NEW b, SameFacts(a, b)
  PROVE  Running(a) = Running(b) /\ LastRunning(a) = LastRunning(b)
  BY DEF SameFacts, Running, LastRunning

LEMMA FinishIs ==
  ASSUME NEW a, Coherent(a)
  PROVE  /\ Coherent(Finish(a)) /\ SameFacts(Finish(a), a)
         /\ (Finish(a).currentPhase = "implement" <=> a.currentPhase = "implement")
         /\ ~a.concurrent => Finish(a) = a
         /\ a.concurrent /\ Running(a) = {} =>
              Finish(a).currentStep = "none" /\ Finish(a).currentPhase = a.currentPhase
         /\ a.concurrent /\ Running(a) # {} =>
              /\ Finish(a).currentStep = LastRunning(a)
              /\ Finish(a).currentPhase =
                   IF a.currentPhase = "implement" THEN "implement" ELSE LastRunning(a)
PROOF
  <1>1. a \in BuildAccs /\ a.fresh \subseteq Range(a.order)
    BY DEF Coherent
  <1>2. CASE ~a.concurrent
    BY <1>2 DEF Finish, SameFacts
  <1>3. CASE a.concurrent /\ Running(a) = {}
    <2> DEFINE b == [a EXCEPT !.currentStep = "none"]
    <2>1. Finish(a) = b
      BY <1>3 DEF Finish
    <2>2. b \in BuildAccs /\ SameFacts(b, a) /\ b.currentStep = "none" /\ b.currentPhase = a.currentPhase
      BY <1>1 DEF BuildAccs, SameFacts, Phases
    <2> HIDE DEF b
    <2>3. Coherent(b)
      BY <2>2, CoherentByFacts DEF SameFacts
    <2> QED BY <1>3, <2>1, <2>2, <2>3
  <1>4. CASE a.concurrent /\ Running(a) # {}
    <2> DEFINE last == LastRunning(a)
               phase == IF a.currentPhase = "implement" THEN a.currentPhase ELSE last
               b == [a EXCEPT !.currentStep = last, !.currentPhase = phase]
    <2>1. last \in Running(a)
      BY <1>1, <1>4, LastRunningRuns
    <2>2. last \in Unsettled(a) /\ last \in Members
      BY <1>1, <2>1, AccFields DEF Running, Unsettled
    <2>3. phase \in Phases /\ last \in Phases
      BY <1>1, <2>2 DEF Phases
    <2>4. Finish(a) = b
      BY <1>1, <1>4 DEF Finish, BuildAccs
    <2>5. phase \in Unsettled(a) \cup {"none", "implement"} /\ (phase = "implement" <=> a.currentPhase = "implement")
      BY <2>2, FoldAssumption
    <2> HIDE DEF last, phase
    <2>6. b \in BuildAccs /\ SameFacts(b, a) /\ b.currentStep = last /\ b.currentPhase = phase
      BY <1>1, <2>3 DEF BuildAccs, SameFacts
    <2> HIDE DEF b
    <2>7. Coherent(b)
      <3>1. Unsettled(b) = Unsettled(a)
        BY <2>6 DEF SameFacts, Unsettled
      <3> QED BY <2>5, <2>6, <3>1 DEF Coherent, SameFacts
    <2> QED BY <1>4, <2>4, <2>5, <2>6, <2>7 DEF last, phase
  <1> QED BY <1>2, <1>3, <1>4 DEF BuildAccs

\* Two that are alike end a batch in the same step, and, while members run, in the same phase.
LEMMA FinishBySame ==
  ASSUME NEW a, NEW b, Coherent(a), Coherent(b), Alike(a, b)
  PROVE  /\ Alike(Finish(a), b)
         /\ Finish(a).currentStep = Finish(b).currentStep
         /\ b.concurrent /\ Running(b) # {} => Finish(a).currentPhase = Finish(b).currentPhase
PROOF
  <1>1. SameFacts(a, b) /\ SameFacts(Finish(a), a) /\ Running(a) = Running(b) /\ LastRunning(a) = LastRunning(b)
    BY FinishIs, LastRunningBySame DEF Alike
  <1>2. SameFacts(Finish(a), b)
    BY <1>1 DEF SameFacts
  <1>3. a.concurrent = b.concurrent /\ b.concurrent \in BOOLEAN
        /\ (a.currentPhase = "implement" <=> b.currentPhase = "implement")
    BY DEF Alike, SameFacts, Coherent, BuildAccs
  <1>4. Alike(Finish(a), b)
    BY <1>2, <1>3, FinishIs DEF Alike
  <1>5. CASE ~b.concurrent
    <2>1. a = b
      BY <1>5 DEF Alike
    <2> QED BY <1>4, <1>5, <2>1
  <1>6. CASE b.concurrent
    BY <1>1, <1>3, <1>4, <1>6, FinishIs
  <1> QED BY <1>3, <1>5, <1>6

\* The end of a batch repairs nothing the second time.
LEMMA FinishTwice ==
  ASSUME NEW a, Coherent(a)
  PROVE  Finish(Finish(a)) = Finish(a)
PROOF
  <1> DEFINE b == Finish(a)
  <1>1. a \in BuildAccs
    BY DEF Coherent
  <1>2. SameFacts(b, a) /\ Coherent(b) /\ (b.currentPhase = "implement" <=> a.currentPhase = "implement")
        /\ b.concurrent = a.concurrent /\ a.concurrent \in BOOLEAN
    BY <1>1, FinishIs DEF SameFacts, BuildAccs
  <1>3. b \in BuildAccs /\ Running(b) = Running(a) /\ LastRunning(b) = LastRunning(a)
    BY <1>2, LastRunningBySame DEF Coherent
  <1>4. CASE ~a.concurrent
    BY <1>4, FinishIs
  <1>5. CASE a.concurrent /\ Running(a) = {}
    <2>1. b.currentStep = "none"
      BY <1>5, FinishIs
    <2>2. Finish(b) = [b EXCEPT !.currentStep = "none"]
      <3> HIDE DEF b
      <3> QED BY <1>2, <1>3, <1>5 DEF Finish
    <2> HIDE DEF b
    <2>3. Finish(b) = b
      BY <1>3, <2>1, <2>2 DEF BuildAccs
    <2> QED BY <2>3 DEF b
  <1>6. CASE a.concurrent /\ Running(a) # {}
    <2> DEFINE phase == IF b.currentPhase = "implement" THEN b.currentPhase ELSE LastRunning(b)
    <2>1. b.currentStep = LastRunning(b) /\ b.currentPhase = phase
      BY <1>2, <1>3, <1>6, FinishIs
    <2>2. Finish(b) = [b EXCEPT !.currentStep = LastRunning(b), !.currentPhase = phase]
      <3> HIDE DEF b
      <3> QED BY <1>2, <1>3, <1>6 DEF Finish, BuildAccs
    <2> HIDE DEF b, phase
    <2>3. Finish(b) = b
      BY <1>3, <2>1, <2>2 DEF BuildAccs
    <2> QED BY <2>3 DEF b
  <1> QED BY <1>2, <1>4, <1>5, <1>6

-----------------------------------------------------------------------------
(***************************************************************************)
(* The invariant is inductive                                              *)
(***************************************************************************)
LEMMA FoldEventIs ==
  ASSUME NEW a, NEW m \in Members
  PROVE  /\ FoldEvent(a, Event("verify.started", m)) = StartMember(a, m)
         /\ FoldEvent(a, Event("session.started", m)) = [a EXCEPT !.owned = @ \cup ({m} \cap Range(a.order))]
         /\ FoldEvent(a, Event("verify.completed", m)) = CompleteMember(a, m)
         /\ FoldEvent(a, Event("verify.cancelled", m)) = CancelMember(a, m)
         /\ FoldEvent(a, Event("escalation.raised", m)) = Raise(a, m)
         /\ FoldEvent(a, Event("escalation.answered", m)) = Answer(a, m, FALSE)
         /\ FoldEvent(a, Event("escalation.aborted", m)) = Answer(a, m, TRUE)
  BY DEF FoldEvent, Event

LEMMA FoldContextIs ==
  ASSUME NEW a
  PROVE  /\ FoldEvent(a, [type |-> "cycle"]) = [a EXCEPT !.fresh = {}]
         /\ FoldEvent(a, [type |-> "implement.started"]) = [a EXCEPT !.currentPhase = "implement"]
         /\ FoldEvent(a, [type |-> "implement.completed"]) = Complete(a, "implement")
  BY DEF FoldEvent

\* A writer's step: both readers fold the event, neither has read it.
LEMMA WriteKeeps ==
  ASSUME FoldInv, NEW e, Write(e),
         Keeps(FoldEvent(ahead, e), ahead, FoldEvent(whole, e), whole),
         QuestionsInForce(FoldEvent(whole, e)), killed' = FoldEvent(whole, e).cancelled
  PROVE  FoldInv'
PROOF
  <1>1. /\ Coherent(FoldEvent(ahead, e)) /\ Coherent(FoldEvent(whole, e))
        /\ Alike(FoldEvent(ahead, e), FoldEvent(whole, e))
    BY DEF FoldInv, Keeps
  <1>2. Coherent(whole') /\ Coherent(ahead') /\ Alike(ahead', whole')
        /\ QuestionsInForce(whole') /\ killed' = whole'.cancelled /\ unread' = TRUE
    BY <1>1 DEF Write
  <1>3. Coherent(carried')
    BY DEF FoldInv, Write
  <1> QED BY <1>2, <1>3 DEF FoldInv

LEMMA StartHolds ==
  ASSUME FoldInv, NEW m \in Members, Start(m)
  PROVE  FoldInv'
PROOF
  <1> DEFINE e == Event("verify.started", m)
  <1>1. Write(e) /\ m \notin whole.outcomes \cup whole.cancelled /\ killed' = killed
    BY DEF Start, Settled
  <1>2. FoldEvent(whole, e) = StartMember(whole, m) /\ FoldEvent(ahead, e) = StartMember(ahead, m)
    BY FoldEventIs
  <1> HIDE DEF e
  <1>3. Keeps(FoldEvent(ahead, e), ahead, FoldEvent(whole, e), whole)
    BY <1>1, <1>2, StartKeeps
  <1>4. QuestionsInForce(StartMember(whole, m)) /\ StartMember(whole, m).cancelled = whole.cancelled
    BY StartMemberIs DEF FoldInv, QuestionsInForce
  <1> QED BY <1>1, <1>2, <1>3, <1>4, WriteKeeps DEF FoldInv

LEMMA SessionHolds ==
  ASSUME FoldInv, NEW m \in Members, Session(m)
  PROVE  FoldInv'
PROOF
  <1> DEFINE e == Event("session.started", m)
             f(c) == [c EXCEPT !.owned = @ \cup ({m} \cap Range(c.order))]
  <1>1. Write(e) /\ killed' = killed
    BY DEF Session
  <1>2. FoldEvent(whole, e) = f(whole) /\ FoldEvent(ahead, e) = f(ahead)
    BY FoldEventIs
  <1>3. Keeps(f(ahead), ahead, f(whole), whole)
    BY SessionKeeps
  <1>4. QuestionsInForce(f(whole)) /\ f(whole).cancelled = whole.cancelled
    BY DEF FoldInv, QuestionsInForce, Coherent, BuildAccs
  <1> HIDE DEF e, f
  <1> QED BY <1>1, <1>2, <1>3, <1>4, WriteKeeps DEF FoldInv

LEMMA ReportHolds ==
  ASSUME FoldInv, NEW m \in Members, Report(m)
  PROVE  FoldInv'
PROOF
  <1> DEFINE e == Event("verify.completed", m)
             d == CompleteMember(whole, m)
  <1>1. Write(e) /\ killed' = killed
    BY DEF Report
  <1>2. FoldEvent(whole, e) = d /\ FoldEvent(ahead, e) = CompleteMember(ahead, m)
    BY FoldEventIs
  <1>3. Keeps(FoldEvent(ahead, e), ahead, FoldEvent(whole, e), whole)
    BY <1>2, CompleteMemberKeeps
  <1>4. whole \in BuildAccs
    BY DEF FoldInv, Coherent
  <1>5. SameFacts(d, [whole EXCEPT !.outcomes = IF m \in whole.cancelled THEN @ ELSE @ \cup {m}])
    BY <1>4, CompleteMemberIs
  <1> HIDE DEF e, d
  <1>6. /\ d.owned = whole.owned /\ d.cancelled = whole.cancelled /\ d.open = whole.open
        /\ d.answered = whole.answered /\ d.aborts = whole.aborts /\ d.superseded = whole.superseded
    BY <1>4, <1>5 DEF SameFacts, BuildAccs
  <1>7. QuestionsInForce(d)
    BY <1>6 DEF FoldInv, QuestionsInForce
  <1> QED BY <1>1, <1>2, <1>3, <1>6, <1>7, WriteKeeps DEF FoldInv

LEMMA CancelHolds ==
  ASSUME FoldInv, NEW m \in Members, Cancel(m)
  PROVE  FoldInv'
PROOF
  <1> DEFINE e == Event("verify.cancelled", m)
             d == CancelMember(whole, m)
             gone == Withdrawn(whole, m)
  <1>1. Write(e) /\ m \notin whole.cancelled
        /\ killed' = IF m \in whole.outcomes THEN killed ELSE killed \cup {m}
    BY DEF Cancel
  <1>2. FoldEvent(whole, e) = d /\ FoldEvent(ahead, e) = CancelMember(ahead, m)
    BY FoldEventIs
  <1>3. Keeps(FoldEvent(ahead, e), ahead, FoldEvent(whole, e), whole)
    BY <1>2, CancelMemberKeeps
  <1>4. whole \in BuildAccs
    BY DEF FoldInv, Coherent
  <1>5. QuestionsInForce(d) /\ killed' = d.cancelled
    <2>1. CASE m \in whole.outcomes
      <3>1. d = whole
        BY <2>1 DEF CancelMember
      <3> QED BY <1>1, <2>1, <3>1 DEF FoldInv
    <2>2. CASE m \notin whole.outcomes
      <3>1. SameFacts(d, [whole EXCEPT !.cancelled = @ \cup {m}, !.open = @ \ gone,
                                       !.answered = @ \ gone, !.aborts = @ \ gone,
                                       !.superseded = @ \cup gone])
        BY <1>1, <1>4, <2>2, CancelMemberIs
      <3> HIDE DEF d, gone
      <3>2. /\ d.owned = whole.owned /\ d.cancelled = whole.cancelled \cup {m}
            /\ d.open = whole.open \ gone /\ d.answered = whole.answered \ gone
            /\ d.aborts = whole.aborts \ gone /\ d.superseded = whole.superseded \cup gone
        BY <1>4, <3>1 DEF SameFacts, BuildAccs
      <3>3. gone \subseteq {m} /\ (m \in whole.open \cup whole.answered => m \in gone)
        BY DEF gone, Withdrawn, FoldInv, QuestionsInForce
      <3>4. QuestionsInForce(d)
        BY <3>2, <3>3 DEF FoldInv, QuestionsInForce
      <3> QED BY <1>1, <2>2, <3>2, <3>4 DEF FoldInv
    <2> QED BY <2>1, <2>2
  <1> HIDE DEF e, d
  <1> QED BY <1>1, <1>2, <1>3, <1>5, WriteKeeps

LEMMA EscalateHolds ==
  ASSUME FoldInv, NEW m \in Members, Escalate(m)
  PROVE  FoldInv'
PROOF
  <1> DEFINE e == Event("escalation.raised", m)
             d == Raise(whole, m)
  <1>1. Write(e) /\ m \in whole.owned /\ killed' = killed
    BY DEF Escalate
  <1>2. FoldEvent(whole, e) = d /\ FoldEvent(ahead, e) = Raise(ahead, m)
    BY FoldEventIs
  <1>3. Keeps(FoldEvent(ahead, e), ahead, FoldEvent(whole, e), whole)
    BY <1>2, RaiseKeeps
  <1>4. whole \in BuildAccs
    BY DEF FoldInv, Coherent
  <1>5. QuestionsInForce(d) /\ d.cancelled = whole.cancelled
    BY <1>1, <1>4 DEF Raise, FoldInv, QuestionsInForce, BuildAccs
  <1> HIDE DEF e, d
  <1> QED BY <1>1, <1>2, <1>3, <1>5, WriteKeeps DEF FoldInv

LEMMA ReplyHolds ==
  ASSUME FoldInv, NEW m \in Members, Reply(m)
  PROVE  FoldInv'
PROOF
  <1>1. PICK abort \in BOOLEAN :
          Write(Event(IF abort THEN "escalation.aborted" ELSE "escalation.answered", m))
    <2>1. CASE Write(Event("escalation.answered", m))
      BY <2>1
    <2>2. CASE Write(Event("escalation.aborted", m))
      BY <2>2
    <2> QED BY <2>1, <2>2 DEF Reply
  <1> DEFINE e == Event(IF abort THEN "escalation.aborted" ELSE "escalation.answered", m)
             d == Answer(whole, m, abort)
  <1>2. killed' = killed
    BY DEF Reply
  <1>3. FoldEvent(whole, e) = d /\ FoldEvent(ahead, e) = Answer(ahead, m, abort)
    BY FoldEventIs
  <1>4. Keeps(FoldEvent(ahead, e), ahead, FoldEvent(whole, e), whole)
    BY <1>3, AnswerKeeps
  <1>5. whole \in BuildAccs
    BY DEF FoldInv, Coherent
  <1>6. QuestionsInForce(d) /\ d.cancelled = whole.cancelled
    BY <1>5 DEF Answer, FoldInv, QuestionsInForce, BuildAccs
  <1> HIDE DEF d
  <1> QED BY <1>1, <1>2, <1>3, <1>4, <1>6, WriteKeeps DEF FoldInv

\* A boundary and the implement context touch no question.
LEMMA ContextHolds ==
  ASSUME FoldInv, NewCycle \/ StartImplement \/ EndImplement
  PROVE  FoldInv'
PROOF
  <1>1. PICK e \in {[type |-> "cycle"], [type |-> "implement.started"], [type |-> "implement.completed"]} :
          Write(e) /\ killed' = killed
    BY DEF NewCycle, StartImplement, EndImplement
  <1>2. Keeps(FoldEvent(ahead, e), ahead, FoldEvent(whole, e), whole)
    <2> DEFINE phase(c) == [c EXCEPT !.currentPhase = "implement"]
               cycle(c) == [c EXCEPT !.fresh = {}]
    <2>1. /\ Keeps(cycle(ahead), ahead, cycle(whole), whole)
          /\ Keeps(phase(ahead), ahead, phase(whole), whole)
          /\ Keeps(Complete(ahead, "implement"), ahead, Complete(whole, "implement"), whole)
      BY ContextKeeps
    <2>2. \/ FoldEvent(ahead, e) = cycle(ahead) /\ FoldEvent(whole, e) = cycle(whole)
          \/ FoldEvent(ahead, e) = phase(ahead) /\ FoldEvent(whole, e) = phase(whole)
          \/ /\ FoldEvent(ahead, e) = Complete(ahead, "implement")
             /\ FoldEvent(whole, e) = Complete(whole, "implement")
      BY FoldContextIs
    <2> HIDE DEF phase, cycle
    <2> QED BY <2>1, <2>2
  <1> DEFINE d == FoldEvent(whole, e)
  <1>3. whole \in BuildAccs
    BY DEF FoldInv, Coherent
  <1>4. /\ d.owned = whole.owned /\ d.cancelled = whole.cancelled /\ d.open = whole.open
        /\ d.answered = whole.answered /\ d.aborts = whole.aborts /\ d.superseded = whole.superseded
    <2>1. d = [whole EXCEPT !.fresh = {}] \/ d = [whole EXCEPT !.currentPhase = "implement"]
          \/ d = Complete(whole, "implement")
      BY FoldContextIs
    <2>2. SameFacts(Complete(whole, "implement"), whole)
      BY <1>3, CompleteIs DEF Phases
    <2> HIDE DEF d
    <2>3. CASE d = Complete(whole, "implement")
      BY <2>2, <2>3 DEF SameFacts
    <2>4. CASE d = [whole EXCEPT !.fresh = {}]
      BY <1>3, <2>4 DEF BuildAccs
    <2>5. CASE d = [whole EXCEPT !.currentPhase = "implement"]
      BY <1>3, <2>5 DEF BuildAccs
    <2> QED BY <2>1, <2>3, <2>4, <2>5
  <1> HIDE DEF d
  <1>5. QuestionsInForce(d)
    BY <1>4 DEF FoldInv, QuestionsInForce
  <1> QED BY <1>1, <1>2, <1>4, <1>5, WriteKeeps DEF FoldInv, d

LEMMA AdvanceHolds ==
  ASSUME FoldInv, AdvanceBatch
  PROVE  FoldInv'
PROOF
  <1>1. /\ Coherent(ahead) /\ Coherent(whole) /\ Alike(ahead, whole)
        /\ carried' = Finish(ahead) /\ ahead' = Finish(ahead) /\ unread' = FALSE
        /\ whole' = whole /\ killed' = killed
    BY DEF FoldInv, AdvanceBatch
  <1>2. Coherent(Finish(ahead)) /\ Alike(Finish(ahead), whole) /\ Finish(Finish(ahead)) = Finish(ahead)
    BY <1>1, FinishIs, FinishBySame, FinishTwice
  <1>3. /\ Coherent(whole') /\ Coherent(ahead') /\ Coherent(carried') /\ Alike(ahead', whole')
        /\ carried' = ahead' /\ Finish(ahead') = ahead' /\ unread' \in BOOLEAN
    BY <1>1, <1>2
  <1>4. killed' = whole'.cancelled /\ QuestionsInForce(whole')
    BY <1>1 DEF FoldInv
  <1> QED BY <1>3, <1>4 DEF FoldInv

LEMMA FoldInductive == FoldSpec => []FoldInv
PROOF
  <1>1. FoldInit => FoldInv
    <2> SUFFICES ASSUME FoldInit PROVE FoldInv
      OBVIOUS
    <2>1. Alike(InitialAcc, InitialAcc) /\ Finish(InitialAcc) = InitialAcc /\ InitialAcc.cancelled = {}
      BY DEF Alike, SameFacts, Finish, InitialAcc
    <2> QED BY <2>1, InitialCoherent DEF FoldInit, FoldInv
  <1>2. FoldInv /\ [FoldNext]_foldVars => FoldInv'
    <2> SUFFICES ASSUME FoldInv, [FoldNext]_foldVars PROVE FoldInv'
      OBVIOUS
    <2>1. CASE FoldNext
      <3>1. CASE \E m \in Members : Start(m) \/ Session(m) \/ Report(m) \/ Cancel(m) \/ Escalate(m) \/ Reply(m)
        BY <3>1, StartHolds, SessionHolds, ReportHolds, CancelHolds, EscalateHolds, ReplyHolds
      <3>2. CASE NewCycle \/ StartImplement \/ EndImplement
        BY <3>2, ContextHolds
      <3>3. CASE AdvanceBatch
        BY <3>3, AdvanceHolds
      <3> QED BY <2>1, <3>1, <3>2, <3>3 DEF FoldNext
    <2>2. CASE UNCHANGED foldVars
      BY <2>2 DEF foldVars, FoldInv, QuestionsInForce, Coherent, Alike, SameFacts, Unsettled
    <2> QED BY <2>1, <2>2
  <1> QED BY <1>1, <1>2, PTL DEF FoldSpec

(***************************************************************************)
(* Both accumulators of the build reducer, and the one that advance is     *)
(* making, are well formed after every event and every batch, and their    *)
(* list of members (advanceVerifyStage's occurrences) names each once.     *)
(***************************************************************************)
THEOREM FoldTypeCorrect == FoldSpec => []FoldTypeOK
PROOF
  <1>1. FoldInv => FoldTypeOK
    <2> SUFFICES ASSUME FoldInv PROVE FoldTypeOK
      OBVIOUS
    <2>1. killed \subseteq Members
      BY DEF FoldInv, Coherent, BuildAccs
    <2>2. {whole, carried, ahead} \subseteq BuildAccs /\ \A a \in {whole, carried, ahead} : IsInjective(a.order)
      BY DEF FoldInv, Coherent
    <2> QED BY <2>1, <2>2 DEF FoldTypeOK, FoldInv
  <1> QED BY <1>1, FoldInductive, PTL

(***************************************************************************)
(* Wherever the batches ended, the accumulator advance has carried states  *)
(* what one fold of the whole log states: members, cycle, sessions,        *)
(* outcomes, cancellations, questions, commands and the running step.      *)
(***************************************************************************)
THEOREM BatchesChangeNoFact == FoldSpec => []FactsAgree
PROOF
  <1>1. FoldInv => FactsAgree
    <2> SUFFICES ASSUME FoldInv, Same,
                        NEW f \in DOMAIN carried \ {"currentPhase"}
                 PROVE  carried[f] = Finish(whole)[f]
      BY DEF FactsAgree
    <2>1. carried = ahead /\ Finish(carried) = carried /\ Coherent(carried) /\ Coherent(whole)
          /\ Alike(carried, whole)
      BY DEF FoldInv, Same
    <2>2. carried.currentStep = Finish(whole).currentStep
      BY <2>1, FinishBySame
    <2>3. SameFacts(carried, whole) /\ SameFacts(Finish(whole), whole)
      BY <2>1, FinishIs DEF Alike
    <2>4. f \in {"order", "fresh", "owned", "outcomes", "cancelled", "concurrent", "currentStep",
                 "open", "answered", "aborts", "superseded"}
      BY <2>1 DEF Coherent, BuildAccs
    <2> QED BY <2>2, <2>3, <2>4 DEF SameFacts
  <1> QED BY <1>1, FoldInductive, PTL

(***************************************************************************)
(* The one fact that may depend on where batches ended is the current      *)
(* phase, and then only when no member of the cycle runs: both phases are  *)
(* none or a member started before the cycle's boundary that was never     *)
(* settled (finish leaves the phase alone when running is empty).          *)
(***************************************************************************)
THEOREM OnlyOrphansSplitThePhase == FoldSpec => []PhaseDiffersOnlyForOrphans
PROOF
  <1>1. FoldInv => PhaseDiffersOnlyForOrphans
    <2> SUFFICES ASSUME FoldInv, Same, carried.currentPhase # Finish(whole).currentPhase
                 PROVE  /\ Running(whole) = {}
                        /\ {carried.currentPhase, whole.currentPhase} \ {"none"}
                             \subseteq Range(whole.order) \ (whole.outcomes \cup whole.cancelled)
      BY DEF PhaseDiffersOnlyForOrphans
    <2>1. Finish(carried) = carried /\ Coherent(carried) /\ Coherent(whole) /\ Alike(carried, whole)
      BY DEF FoldInv, Same
    <2>2. whole.concurrent
      <3>1. ~whole.concurrent => carried = whole
        BY <2>1 DEF Alike
      <3> QED BY <2>1, <3>1
    <2>3. Running(whole) = {}
      BY <2>1, <2>2, FinishBySame
    <2>4. Finish(whole).currentPhase = whole.currentPhase
      BY <2>1, <2>2, <2>3, FinishIs
    <2>5. carried.currentPhase # "implement" /\ whole.currentPhase # "implement"
      BY <2>1, <2>4 DEF Alike
    <2>6. Unsettled(carried) = Unsettled(whole)
      BY <2>1 DEF Alike, SameFacts, Unsettled
    <2>7. {carried.currentPhase, whole.currentPhase} \ {"none"} \subseteq Unsettled(whole)
      BY <2>1, <2>5, <2>6 DEF Coherent
    <2> QED BY <2>3, <2>7 DEF Unsettled
  <1> QED BY <1>1, FoldInductive, PTL

(***************************************************************************)
(* A question of a cancelled member's session, and the abort it was        *)
(* answered with, is in force nowhere, in whichever order cancellation,    *)
(* question and answer were appended and in whichever batches they were    *)
(* folded; every other question is (supersededEscalations).                *)
(***************************************************************************)
THEOREM CancelledMembersAskNothing == FoldSpec => []QuestionsFollowTheMember
PROOF
  <1>1. FoldInv => QuestionsFollowTheMember
    <2> SUFFICES ASSUME FoldInv, Same PROVE QuestionsFollowTheMember
      BY DEF QuestionsFollowTheMember
    <2>1. SameFacts(carried, whole) /\ QuestionsInForce(whole) /\ killed = whole.cancelled
      BY DEF FoldInv, Same, Alike
    <2>2. /\ carried.superseded \subseteq killed /\ carried.aborts \subseteq carried.answered
          /\ (carried.open \cup carried.answered) \cap killed = {}
      BY <2>1 DEF SameFacts, QuestionsInForce
    <2> QED BY <2>2 DEF QuestionsFollowTheMember
  <1> QED BY <1>1, FoldInductive, PTL

=============================================================================
