--------------------------- MODULE ReducerValues ---------------------------
(***************************************************************************)
(* Reducer values: the answer of a registered reducer over one log, read   *)
(* through a cached accumulator (store/reducer-values.ts, readReducerValue)*)
(* that the local store keeps in one row (store/local/store.ts).           *)
(*                                                                         *)
(* The log is append-only and an event is its sequence number, so the log  *)
(* is its head.  An accumulator says how often each event was folded into  *)
(* it: the right one at a cursor folded every event up to it once.  The    *)
(* readers are concurrent calls, of one process or of several, and every   *)
(* await of a call is a step.  The row may be damaged or deleted from      *)
(* outside at any time.                                                    *)
(***************************************************************************)
EXTENDS Integers, FiniteSets

CONSTANTS
  Readers,      \* concurrent getReducerValue calls
  MaxSeq,       \* events of the log (bound)
  MaxFaults,    \* cache reads and writes that throw (bound)
  MaxDamages    \* times the row is damaged or deleted (bound)

ASSUME ValuesAssumption ==
  MaxSeq \in Nat /\ MaxFaults \in Nat /\ MaxDamages \in Nat

VARIABLES
  head,      \* the log's tail
  row,       \* the row of reducer_snapshots under the value's key
  call,      \* each reader's call
  faults, damages

vars == <<head, row, call, faults, damages>>

Events == 1..MaxSeq
Accs == [Events -> Nat]

\* What the reducer's advance makes of the events first..last.
Advance(acc, first, last) == [e \in Events |-> IF e \in first..last THEN acc[e] + 1 ELSE acc[e]]
Initial == [e \in Events |-> 0]
\* The reduction of the log up to a cursor.
Reduction(cursor) == [e \in Events |-> IF e <= cursor THEN 1 ELSE 0]

\* A row is whole when its state names the request and passes the reducer's validation.
Versions == {"current", "foreign"}
NoRow == [version |-> "none", cursor |-> 0, acc |-> Initial, whole |-> FALSE]
Rows == [version : Versions, cursor : 0..(MaxSeq + 1), acc : Accs, whole : BOOLEAN]
Row(cursor, acc) == [version |-> "current", cursor |-> cursor, acc |-> acc, whole |-> TRUE]

Idle == [pc |-> "idle", asked |-> 0, boundary |-> 0, seen |-> NoRow,
         valid |-> FALSE, cursor |-> 0, acc |-> Initial]

-----------------------------------------------------------------------------
(* The row (store/local/store.ts)                                          *)

\* The WHERE of the upsert; the foreign version is the newer one.
Supersedes(next, stored) ==
  \/ stored = NoRow
  \/ /\ ~(stored.version = "foreign" /\ next.version = "current")
     /\ \/ next.cursor > stored.cursor
        \/ next.cursor = stored.cursor /\ stored.version = "current" /\ next.version = "foreign"

\* putSnapshot: nothing beyond the tail, and one conditional upsert.
Put(stored, next) == IF next.cursor <= head /\ Supersedes(next, stored) THEN next ELSE stored

\* repair: only over exactly the row that was read.
Repair(stored, seen, next) == IF next.cursor <= head /\ stored = seen THEN next ELSE stored

-----------------------------------------------------------------------------
(* A call (readReducerValue)                                               *)

\* A row this call may start from.
Usable(seen, boundary) ==
  /\ seen.version = "current"
  /\ seen.cursor <= boundary
  /\ seen.whole

\* The call reads the log's tail, its boundary.
Ask(r) ==
  /\ call[r].pc \in {"idle", "done"}
  /\ call' = [call EXCEPT ![r] = [Idle EXCEPT !.pc = "asked", !.asked = head, !.boundary = head]]
  /\ UNCHANGED <<head, row, faults, damages>>

\* It reads the row; an unreadable cache is a miss.
ReadRow(r) ==
  /\ call[r].pc = "asked"
  /\ \/ call' = [call EXCEPT ![r].pc = "read", ![r].seen = row]
        /\ UNCHANGED faults
     \/ /\ faults < MaxFaults
        /\ faults' = faults + 1
        /\ call' = [call EXCEPT ![r].pc = "read", ![r].seen = NoRow]
  /\ UNCHANGED <<head, row, damages>>

\* Mutant: a row ahead of the boundary is judged by the boundary read before it.
Boundary_Stale(c) == c.boundary

\* Another reader may have stored beyond the first boundary, so only a fresh one
\* makes the row ahead of the log.
Boundary(c) == IF c.seen # NoRow /\ c.seen.cursor > c.boundary THEN head ELSE c.boundary

\* Mutant: the cursor of a row that is not usable is kept.
StartCursor_Kept(seen, valid, boundary) == IF seen.cursor <= boundary THEN seen.cursor ELSE 0

StartCursor(seen, valid, boundary) == IF valid THEN seen.cursor ELSE 0

\* The call starts from the row, or from nothing.
Seed(r) ==
  LET c == call[r]
      boundary == Boundary(c)
      valid == Usable(c.seen, boundary)
  IN  /\ c.pc = "read"
      /\ call' = [call EXCEPT ![r] =
                    [c EXCEPT !.pc = "seeded",
                              !.boundary = boundary,
                              !.valid = valid,
                              !.cursor = StartCursor(c.seen, valid, boundary),
                              !.acc = IF valid THEN c.seen.acc ELSE Initial]]
      /\ UNCHANGED <<head, row, faults, damages>>

\* It reads the events after its cursor up to the boundary and folds them; a row
\* that was usable and current is left alone.
Fold(r) ==
  LET c == call[r]
  IN  /\ c.pc = "seeded"
      /\ call' = [call EXCEPT ![r] =
                    [c EXCEPT !.pc = IF ~c.valid \/ c.cursor < c.boundary THEN "store" ELSE "done",
                              !.cursor = c.boundary,
                              !.acc = Advance(c.acc, c.cursor + 1, c.boundary)]]
      /\ UNCHANGED <<head, row, faults, damages>>

\* Mutant: an unusable row is replaced by an ordinary put.
Stored_PutOnly(c) ==
  Put(row, Row(c.cursor, c.acc))

\* The row after the call: an unusable row of this version is repaired, one of
\* another version is left alone, anything else is put.
Stored(c) ==
  LET next == Row(c.cursor, c.acc)
      unusable == c.seen # NoRow /\ ~c.valid
  IN  CASE unusable /\ c.seen.version = "current" -> Repair(row, c.seen, next)
        [] unusable /\ c.seen.version # "current" -> row
        [] OTHER -> Put(row, next)

\* The cache is best effort: a write that throws changes neither row nor answer.
Store(r) ==
  /\ call[r].pc = "store"
  /\ \/ row' = Stored(call[r]) /\ UNCHANGED faults
     \/ faults < MaxFaults /\ faults' = faults + 1 /\ UNCHANGED row
  /\ call' = [call EXCEPT ![r].pc = "done"]
  /\ UNCHANGED <<head, damages>>

-----------------------------------------------------------------------------
(* Around the calls                                                        *)

AppendEvent ==
  /\ head < MaxSeq
  /\ head' = head + 1
  /\ UNCHANGED <<row, call, faults, damages>>

\* The row is lost, or replaced by bytes no call wrote.
Damage ==
  /\ damages < MaxDamages
  /\ damages' = damages + 1
  /\ row # NoRow
  /\ row' \in {NoRow} \cup [version : Versions, cursor : 0..(MaxSeq + 1),
                                 acc : {Initial}, whole : {FALSE}]
  /\ UNCHANGED <<head, call, faults>>

Init ==
  /\ head = 0
  /\ row = NoRow
  /\ call = [r \in Readers |-> Idle]
  /\ faults = 0
  /\ damages = 0

Step(r) == Ask(r) \/ ReadRow(r) \/ Seed(r) \/ Fold(r) \/ Store(r)

Next == AppendEvent \/ Damage \/ \E r \in Readers : Step(r)

\* Calls are asked again (every dispatcher tick and every view reads), and run on.
Fairness == \A r \in Readers : WF_vars(Step(r))

Spec == Init /\ [][Next]_vars /\ Fairness

-----------------------------------------------------------------------------
(* Properties                                                              *)

TypeOK ==
  /\ head \in 0..MaxSeq
  /\ row \in Rows \cup {NoRow}
  /\ call \in [Readers -> [pc : {"idle", "asked", "read", "seeded", "store", "done"},
                           asked : 0..MaxSeq, boundary : 0..MaxSeq,
                           seen : Rows \cup {NoRow}, valid : BOOLEAN,
                           cursor : 0..(MaxSeq + 1), acc : Accs]]
  /\ faults \in 0..MaxFaults
  /\ damages \in 0..MaxDamages

Sound(r) == r.version = "current" /\ r.whole

\* Whatever the row held and whoever wrote it meanwhile, an answer is the reduction
\* of the log up to the cursor it names: deleting or damaging the cache changes no
\* answer (snapshots.ts: "deleting every snapshot changes no observable output").
AnswersAreReductions ==
  \A r \in Readers : call[r].pc = "done" => call[r].acc = Reduction(call[r].cursor)

\* An answer takes in every event there was when it was asked for, and none that is
\* not in the log.
AnswersAreFresh ==
  \A r \in Readers : call[r].pc = "done" => call[r].cursor \in call[r].asked..head

\* A sound row is the reduction at its cursor, within the log.
StoredIsReduction == Sound(row) => row.cursor <= head /\ row.acc = Reduction(row.cursor)

\* A call never takes back another's progress: over a sound row it writes only a
\* sound row with a higher cursor, whichever of the two read first.
RowNeverRetreats ==
  [][ Sound(row) /\ row' # row /\ damages' = damages =>
        Sound(row') /\ row'.cursor > row.cursor ]_vars

\* A damaged row of this version does not stay: some call repairs it, also when the
\* log has stopped growing and the row claims a cursor beyond it.
Damaged == row.version = "current" /\ ~row.whole
DamageIsRepaired == Damaged ~> ~Damaged
=============================================================================
