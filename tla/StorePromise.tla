---------------------------- MODULE StorePromise ----------------------------
(***************************************************************************)
(* What a build store promises its clients (store/types.ts), with no word  *)
(* on how an adapter keeps it.  One build's stream is a log of events plus *)
(* rows of artifact revisions.  Every operation below is one atomic step:  *)
(* an event and the artifacts deposited with it appear together, revision  *)
(* numbers are never issued twice, a row never changes its content, and a  *)
(* conditional event was written by a client that had seen exactly the log *)
(* the event extends.                                                      *)
(***************************************************************************)
EXTENDS Naturals, Sequences, FiniteSets

CONSTANTS
  Kinds,     \* artifact kinds
  Managed,   \* the kinds under retention (retention.ts isRetentionManagedKind)
  Blobs      \* artifact contents, identified by their hash

VARIABLES
  log,        \* the event stream; position in it is the event's seq
  artifacts,  \* kind -> (surviving revision -> content)
  issued      \* kind -> every revision number ever assigned (history)

Ref == [kind : Kinds, rev : Nat, blob : Blobs]

Event == [conditional : BOOLEAN, read : Nat, refs : SUBSET Ref]

Init ==
  /\ log = << >>
  /\ artifacts = [k \in Kinds |-> << >>]
  /\ issued = [k \in Kinds |-> {}]

\* The rows of one kind, after depositing the references `new` of that kind.
\* Surviving rows keep their content and are old rows or the new ones; only
\* rows of managed kinds may be dropped, and never the newest.
Deposits(k, new) ==
  /\ \A r \in new : r.rev \notin issued[k]
  /\ \A r, s \in new : r.rev = s.rev => r = s
  /\ issued'[k] = issued[k] \cup {r.rev : r \in new}
  /\ \A rev \in DOMAIN artifacts'[k] :
       \/ \E r \in new : r.rev = rev /\ artifacts'[k][rev] = r.blob
       \/ rev \in DOMAIN artifacts[k] /\ artifacts'[k][rev] = artifacts[k][rev]
  /\ k \notin Managed =>
       DOMAIN artifacts'[k] = DOMAIN artifacts[k] \cup {r.rev : r \in new}
  /\ \A r \in new : (\A old \in issued'[k] : old <= r.rev)
                       => r.rev \in DOMAIN artifacts'[k]

OfKind(refs, k) == {r \in refs : r.kind = k}

\* An append, with or without a bundle of artifacts: the log gains one event.
Write ==
  LET e == log'[Len(log) + 1]
  IN  /\ Len(log') = Len(log) + 1
      /\ e \in Event
      /\ e.conditional => e.read = Len(log)
      /\ log' = Append(log, e)
      /\ \A k \in Kinds : Deposits(k, OfKind(e.refs, k))

\* putArtifact: one artifact, no event.
Put ==
  /\ log' = log
  /\ \E kind \in Kinds, blob \in Blobs :
       \E rev \in issued'[kind] :
         \A k \in Kinds :
           Deposits(k, OfKind({[kind |-> kind, rev |-> rev, blob |-> blob]}, k))

Next == Write \/ Put

Spec == Init /\ [][Next]_<<log, artifacts, issued>>
=============================================================================
