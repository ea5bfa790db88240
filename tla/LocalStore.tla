----------------------------- MODULE LocalStore -----------------------------
(***************************************************************************)
(* One build's stream in the SQLite store (store/local/store.ts), shared   *)
(* by processes that interleave freely.  Blob writes are awaited one at a  *)
(* time before any transaction; the transaction itself (BEGIN IMMEDIATE)   *)
(* is one step.  A process may die, or its event may fail validation,      *)
(* between any two steps.                                                  *)
(***************************************************************************)
EXTENDS Naturals, Sequences, FiniteSets, FiniteSetsExt

CONSTANTS
  Clients,       \* dispatcher, runner, `ab` CLI processes
  Kinds,         \* artifact kinds
  Managed,       \* kinds under retention
  Blobs,         \* artifact contents
  Bundles,       \* the artifact lists the clients deposit
  MaxRevisions,  \* retention bound of the store
  MaxSeq,        \* bound: events in the log
  MaxIssued      \* bound: revisions per kind

Artifact == [kind : Kinds, blob : Blobs]

ASSUME ManagedAssumption == Managed \subseteq Kinds
ASSUME BundlesAssumption == Bundles \subseteq Seq(Artifact)
ASSUME MaxRevisionsAssumption == MaxRevisions \in Nat \ {0}
ASSUME BoundsAssumption == MaxSeq \in Nat /\ MaxIssued \in Nat

VARIABLES
  log,        \* table events of the build, in seq order
  artifacts,  \* table artifacts: kind -> (revision -> blobRef)
  blobs,      \* the content-addressed blob store
  issued,     \* kind -> revisions ever assigned (history)
  pc,         \* client -> what it is doing
  cursor,     \* client -> expectedSeq it last read
  bundle,     \* client -> artifacts of the call in flight
  stored      \* client -> how many of them have their blob written

vars == <<log, artifacts, blobs, issued, pc, cursor, bundle, stored>>

Ref == [kind : Kinds, rev : Nat, blob : Blobs]
Event == [conditional : BOOLEAN, read : Nat, refs : SUBSET Ref]

TypeOK ==
  /\ log \in Seq(Event)
  /\ artifacts \in [Kinds -> UNION {[R -> Blobs] : R \in SUBSET (0 .. MaxIssued)}]
  /\ blobs \subseteq Blobs
  /\ issued \in [Kinds -> SUBSET (0 .. MaxIssued)]
  /\ pc \in [Clients -> {"idle", "read", "append", "ifCurrent", "put"}]
  /\ cursor \in [Clients -> 0 .. MaxSeq]
  /\ bundle \in [Clients -> Seq(Artifact)]
  /\ stored \in [Clients -> Nat]
  /\ \A c \in Clients : stored[c] <= Len(bundle[c])

Init ==
  /\ log = << >>
  /\ artifacts = [k \in Kinds |-> << >>]
  /\ blobs = {}
  /\ issued = [k \in Kinds |-> {}]
  /\ pc = [c \in Clients |-> "idle"]
  /\ cursor = [c \in Clients |-> 0]
  /\ bundle = [c \in Clients |-> << >>]
  /\ stored = [c \in Clients |-> 0]

-----------------------------------------------------------------------------
(* The transaction's statements.                                           *)

\* Mutant: the next revision taken from the number of rows, as before pruning
\* existed.
NextRevision_FromCount(k) == Cardinality(DOMAIN artifacts[k])

\* depositInTx: MAX(revision) + 1 over the rows that survive, 0 when none do.
NextRevision(k) ==
  LET R == DOMAIN artifacts[k] IN IF R = {} THEN 0 ELSE Max(R) + 1

\* The i-th artifact of a bundle is deposited after the earlier ones, so each
\* earlier one of its kind has already moved MAX(revision) up by one.
RevisionInBundle(b, i) ==
  NextRevision(b[i].kind) + Cardinality({j \in 1 .. i - 1 : b[j].kind = b[i].kind})

Deposited(b) ==
  {[kind |-> b[i].kind, rev |-> RevisionInBundle(b, i), blob |-> b[i].blob] :
     i \in DOMAIN b}

\* The rows of kind k once the references `refs` are inserted.
Inserted(k, refs) ==
  LET new == {r \in refs : r.kind = k}
  IN  [rev \in DOMAIN artifacts[k] \cup {r.rev : r \in new} |->
         IF \E r \in new : r.rev = rev
         THEN (CHOOSE r \in new : r.rev = rev).blob
         ELSE artifacts[k][rev]]

\* retention.ts revisionsToPrune keeps the newest MaxRevisions.
Newest(R) == {r \in R : Cardinality({q \in R : q > r}) < MaxRevisions}

\* pruneBuildInTx, once for every kind of the bundle.
Pruned(k, rows) ==
  IF k \in Managed THEN [r \in Newest(DOMAIN rows) |-> rows[r]] ELSE rows

Insert(refs) ==
  /\ \A r \in refs : r.rev <= MaxIssued
  /\ artifacts' = [k \in Kinds |->
       IF \E r \in refs : r.kind = k THEN Pruned(k, Inserted(k, refs)) ELSE artifacts[k]]
  /\ issued' = [k \in Kinds |-> issued[k] \cup {r.rev : r \in {s \in refs : s.kind = k}}]

\* appendInTx: seq is MAX(seq) + 1.
AppendInTx(c, conditional, refs) ==
  /\ Len(log) < MaxSeq
  /\ log' = Append(log, [conditional |-> conditional, read |-> cursor[c],
                         refs |-> refs])

Return(c) ==
  /\ pc' = [pc EXCEPT ![c] = "idle"]
  /\ bundle' = [bundle EXCEPT ![c] = << >>]
  /\ stored' = [stored EXCEPT ![c] = 0]
  /\ cursor' = [cursor EXCEPT ![c] = 0]
  /\ UNCHANGED blobs

-----------------------------------------------------------------------------
(* The operations of the store.                                            *)

\* getEvents: the caller now knows the log up to its tail.
GetEvents(c) ==
  /\ pc[c] = "idle"
  /\ pc' = [pc EXCEPT ![c] = "read"]
  /\ cursor' = [cursor EXCEPT ![c] = Len(log)]
  /\ UNCHANGED <<log, artifacts, blobs, issued, bundle, stored>>

\* append: one unconditional transaction.
AppendEvent(c) ==
  /\ pc[c] \in {"idle", "read"}
  /\ AppendInTx(c, FALSE, {})
  /\ Return(c)
  /\ UNCHANGED <<artifacts, issued>>

\* appendIfCurrent: compare and append in one transaction, or return null.
AppendIfCurrent(c) ==
  /\ pc[c] = "read"
  /\ IF Len(log) = cursor[c]
     THEN AppendInTx(c, TRUE, {})
     ELSE log' = log
  /\ Return(c)
  /\ UNCHANGED <<artifacts, issued>>

\* appendWithArtifacts, appendWithArtifactsIfCurrent and putArtifact are called.
BeginDeposit(c) ==
  /\ \E b \in Bundles, op \in {"append", "ifCurrent", "put"} :
       /\ pc[c] = "read" \/ (pc[c] = "idle" /\ op # "ifCurrent")
       /\ op = "put" => Len(b) = 1
       /\ pc' = [pc EXCEPT ![c] = op]
       /\ bundle' = [bundle EXCEPT ![c] = b]
  /\ UNCHANGED <<log, artifacts, blobs, issued, cursor, stored>>

\* prepareArtifact: await the blob write of the next artifact.
PrepareArtifact(c) ==
  /\ pc[c] \in {"append", "ifCurrent", "put"}
  /\ stored[c] < Len(bundle[c])
  /\ blobs' = blobs \cup {bundle[c][stored[c] + 1].blob}
  /\ stored' = [stored EXCEPT ![c] = @ + 1]
  /\ UNCHANGED <<log, artifacts, issued, pc, cursor, bundle>>

Prepared(c) == stored[c] = Len(bundle[c])

AppendWithArtifacts(c) ==
  /\ pc[c] = "append" /\ Prepared(c)
  /\ Insert(Deposited(bundle[c]))
  /\ AppendInTx(c, FALSE, Deposited(bundle[c]))
  /\ Return(c)

\* Mutant: expectedSeq is compared before the blob writes are awaited and not
\* again inside the transaction.
AppendWithArtifactsIfCurrent_CheckedEarly(c) ==
  /\ pc[c] = "ifCurrent" /\ Prepared(c)
  /\ Insert(Deposited(bundle[c]))
  /\ AppendInTx(c, TRUE, Deposited(bundle[c]))
  /\ Return(c)

AppendWithArtifactsIfCurrent(c) ==
  /\ pc[c] = "ifCurrent" /\ Prepared(c)
  /\ IF Len(log) = cursor[c]
     THEN /\ Insert(Deposited(bundle[c]))
          /\ AppendInTx(c, TRUE, Deposited(bundle[c]))
     ELSE UNCHANGED <<log, artifacts, issued>>
  /\ Return(c)

PutArtifact(c) ==
  /\ pc[c] = "put" /\ Prepared(c)
  /\ Insert(Deposited(bundle[c]))
  /\ Return(c)
  /\ UNCHANGED log

\* The process dies, the blob write throws, or the event fails validation and
\* its transaction rolls back: blobs already written stay as orphans.
Abandon(c) ==
  /\ pc[c] # "idle"
  /\ Return(c)
  /\ UNCHANGED <<log, artifacts, issued>>

Next ==
  \E c \in Clients :
    \/ GetEvents(c)
    \/ AppendEvent(c)
    \/ AppendIfCurrent(c)
    \/ BeginDeposit(c)
    \/ PrepareArtifact(c)
    \/ AppendWithArtifacts(c)
    \/ AppendWithArtifactsIfCurrent(c)
    \/ PutArtifact(c)
    \/ Abandon(c)

Spec == Init /\ [][Next]_vars

-----------------------------------------------------------------------------
(* Properties.                                                             *)

\* An artifact reference an event carries (payload of appendWithArtifacts)
\* never resolves to other content than the one deposited with the event,
\* whatever was pruned and deposited since, and always resolves when its kind
\* is not retention-managed.
RefsKeepTheirContent ==
  \A i \in DOMAIN log : \A r \in log[i].refs :
    /\ r.rev \in DOMAIN artifacts[r.kind] => artifacts[r.kind][r.rev] = r.blob
    /\ r.kind \notin Managed => r.rev \in DOMAIN artifacts[r.kind]

\* Every row's content is in the blob store: blobs are written before the
\* transaction that references them, so getArtifact never finds a row whose
\* blob is missing.
RowsHaveBlobs ==
  \A k \in Kinds : \A rev \in DOMAIN artifacts[k] : artifacts[k][rev] \in blobs

\* getArtifact without a revision returns the newest deposit ever made of the
\* kind: pruning removes only what a newer surviving revision supersedes.
LatestIsNewest ==
  \A k \in Kinds : issued[k] # {} =>
    /\ Max(issued[k]) \in DOMAIN artifacts[k]
    /\ Max(issued[k]) = NextRevision(k) - 1

\* The SQLite store keeps the promise of StorePromise.
Promise == INSTANCE StorePromise
PromiseSpec == Promise!Spec
=============================================================================
