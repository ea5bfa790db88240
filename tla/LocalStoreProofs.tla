-------------------------- MODULE LocalStoreProofs --------------------------
(***************************************************************************)
(* The safety of one build's stream in the SQLite store, for any number of *)
(* processes, kinds, contents and bundles.                                 *)
(***************************************************************************)
EXTENDS LocalStore, FiniteSetTheorems, TLAPS

(***************************************************************************)
(* A finite nonempty set of numbers has a largest element.                 *)
(***************************************************************************)
LEMMA LargestExists ==
  ASSUME NEW S \in SUBSET Nat, IsFiniteSet(S), S # {}
  PROVE  \E m \in S : \A q \in S : q <= m
PROOF
  <1> DEFINE Above(x) == {y \in S : y > x}
             T == {Above(x) : x \in S}
             R == StrictSubsetOrdering(S)
  <1>1. T # {} /\ T \subseteq FiniteSubsetsOf(S)
    <2>1. ASSUME NEW x \in S PROVE Above(x) \in FiniteSubsetsOf(S)
      BY FS_FiniteSubsetsOfFinite
    <2> QED BY <2>1
  <1>2. IsWellFoundedOn(R, FiniteSubsetsOf(S))
    BY FS_StrictSubsetOrderingWellFounded
  <1> HIDE DEF R
  <1>3. PICK A \in T : \A B \in T : ~(<<B, A>> \in R)
    <2> HIDE DEF T
    <2> QED BY <1>1, <1>2, WFMin
  <1>4. PICK m \in S : A = Above(m)
    BY <1>3
  <1>5. ASSUME NEW q \in S, q > m PROVE FALSE
    <2>1. Above(q) \in T /\ Above(q) # A /\ Above(q) \subseteq A
      <3>1. q \in A /\ q \notin Above(q) BY <1>4, <1>5
      <3>2. ASSUME NEW y \in Above(q) PROVE y \in A
        <4>1. y \in S /\ y > q /\ y \in Nat /\ q \in Nat /\ m \in Nat
          OBVIOUS
        <4>2. y > m BY <4>1, <1>5
        <4> QED BY <4>1, <4>2, <1>4
      <3> QED BY <3>1, <3>2
    <2>2. <<Above(q), A>> \in R
      BY <2>1, <1>4 DEF R, StrictSubsetOrdering
    <2> QED BY <2>1, <2>2, <1>3
  <1> QED BY <1>5

(***************************************************************************)
(* The strengthening.  Rows: a kind's rows carry issued numbers, and the   *)
(* largest number ever issued is among them.  Refs: what an event refers   *)
(* to was issued.  Written: the blobs a client has counted are stored.     *)
(* Call: only a deposit in flight has counted blobs; a put has one         *)
(* artifact.                                                               *)
(***************************************************************************)
RowsInv ==
  \A k \in Kinds :
    /\ DOMAIN artifacts[k] \subseteq issued[k]
    /\ issued[k] # {} => \E m \in DOMAIN artifacts[k] : \A q \in issued[k] : q <= m

RefsIssued ==
  \A i \in DOMAIN log : \A r \in log[i].refs : r.rev \in issued[r.kind]

WrittenInv ==
  \A c \in Clients : \A i \in 1 .. stored[c] : bundle[c][i].blob \in blobs

CallsInv ==
  /\ \A c \in Clients : pc[c] \in {"idle", "read"} => stored[c] = 0
  /\ \A c \in Clients : pc[c] = "put" => Len(bundle[c]) = 1

CallInv == Len(log) <= MaxSeq /\ CallsInv

IndInv ==
  /\ TypeOK
  /\ CallInv
  /\ RowsInv
  /\ RefsIssued
  /\ RefsKeepTheirContent
  /\ RowsHaveBlobs
  /\ WrittenInv

(***************************************************************************)
(* References that continue the numbering of their kinds.                  *)
(***************************************************************************)
Continues(refs) ==
  /\ refs \subseteq Ref
  /\ \A r \in refs : \A q \in issued[r.kind] : q < r.rev
  /\ \A r, s \in refs : r.kind = s.kind /\ r.rev = s.rev => r = s
  /\ \A r \in refs : \E m \in refs : /\ m.kind = r.kind
                                     /\ \A s \in refs : s.kind = r.kind => s.rev <= m.rev

(***************************************************************************)
(* NextRevision (depositInTx's MAX(revision) + 1 over surviving rows) is    *)
(* above every revision ever issued.                                       *)
(***************************************************************************)
LEMMA NextRevisionFresh ==
  ASSUME TypeOK, RowsInv, NEW k \in Kinds
  PROVE  /\ NextRevision(k) \in Nat
         /\ \A q \in issued[k] : q < NextRevision(k)
PROOF
  <1> DEFINE R == DOMAIN artifacts[k]
  <1>1. R \subseteq issued[k] /\ issued[k] \subseteq Nat
    BY DEF RowsInv, TypeOK
  <1>2. CASE issued[k] = {}
    <2>1. R = {} BY <1>1, <1>2
    <2> QED BY <1>2, <2>1 DEF NextRevision
  <1>3. CASE issued[k] # {}
    <2>1. PICK m \in R : \A q \in issued[k] : q <= m
      BY <1>3 DEF RowsInv
    <2>2. Max(R) = m
      <3>1. \A y \in R : m >= y BY <1>1, <2>1
      <3>2. ASSUME NEW x \in R, \A y \in R : x >= y PROVE x = m
        BY <1>1, <2>1, <3>2
      <3> QED BY <3>1, <3>2 DEF Max
    <2>3. NextRevision(k) = m + 1
      BY <2>1, <2>2 DEF NextRevision
    <2> QED BY <1>1, <2>1, <2>3
  <1> QED BY <1>2, <1>3

(***************************************************************************)
(* A bundle's references continue the numbering of their kinds: deposits   *)
(* of one kind inside the batch get successive numbers.                    *)
(***************************************************************************)
LEMMA DepositedContinues ==
  ASSUME TypeOK, RowsInv, NEW b \in Seq(Artifact)
  PROVE  Continues(Deposited(b))
PROOF
  <1> DEFINE Earlier(i) == {j \in 1 .. i - 1 : b[j].kind = b[i].kind}
             RefOf(i) == [kind |-> b[i].kind, rev |-> RevisionInBundle(b, i),
                          blob |-> b[i].blob]
             D == DOMAIN b
  <1>1. D = 1 .. Len(b) /\ Len(b) \in Nat /\ \A i \in D : b[i] \in Artifact
    OBVIOUS
  <1>2. \A i \in D : b[i].kind \in Kinds /\ b[i].blob \in Blobs
    BY <1>1 DEF Artifact
  <1>3. ASSUME NEW i \in D
        PROVE  /\ IsFiniteSet(Earlier(i)) /\ Cardinality(Earlier(i)) \in Nat
               /\ RevisionInBundle(b, i) = NextRevision(b[i].kind) + Cardinality(Earlier(i))
               /\ RevisionInBundle(b, i) \in Nat
               /\ \A q \in issued[b[i].kind] : q < RevisionInBundle(b, i)
    <2>1. IsFiniteSet(1 .. i - 1) BY <1>1, FS_Interval
    <2>2. Earlier(i) \in SUBSET (1 .. i - 1) OBVIOUS
    <2>3. IsFiniteSet(Earlier(i)) BY <2>1, <2>2, FS_Subset
    <2>4. Cardinality(Earlier(i)) \in Nat BY <2>3, FS_CardinalityType
    <2>5. /\ NextRevision(b[i].kind) \in Nat
          /\ \A q \in issued[b[i].kind] : q < NextRevision(b[i].kind)
      BY <1>2, NextRevisionFresh
    <2>6. RevisionInBundle(b, i) = NextRevision(b[i].kind) + Cardinality(Earlier(i))
      BY DEF RevisionInBundle
    <2>7. issued[b[i].kind] \subseteq Nat BY <1>2 DEF TypeOK
    <2> HIDE DEF Earlier
    <2> QED BY <2>3, <2>4, <2>5, <2>6, <2>7
  <1>4. ASSUME NEW i \in D, NEW j \in D, i < j, b[i].kind = b[j].kind
        PROVE  RevisionInBundle(b, i) < RevisionInBundle(b, j)
    <2>1. i \in Earlier(j) /\ i \notin Earlier(i) BY <1>1, <1>4
    <2>2. Earlier(i) \in SUBSET Earlier(j) BY <1>1, <1>4
    <2>3. IsFiniteSet(Earlier(j)) BY <1>3
    <2>4. Cardinality(Earlier(i)) <= Cardinality(Earlier(j))
          /\ Cardinality(Earlier(j)) # Cardinality(Earlier(i))
      BY <2>1, <2>2, <2>3, FS_Subset
    <2>5. NextRevision(b[i].kind) \in Nat BY <1>2, NextRevisionFresh
    <2>6. Cardinality(Earlier(i)) \in Nat /\ Cardinality(Earlier(j)) \in Nat
          /\ RevisionInBundle(b, i) = NextRevision(b[i].kind) + Cardinality(Earlier(i))
          /\ RevisionInBundle(b, j) = NextRevision(b[j].kind) + Cardinality(Earlier(j))
      BY <1>3
    <2> HIDE DEF Earlier
    <2> QED BY <2>4, <2>5, <2>6, <1>4
  <1>5. Deposited(b) = {RefOf(i) : i \in D} BY DEF Deposited
  <1>6. Deposited(b) \subseteq Ref
    <2>1. ASSUME NEW i \in D PROVE RefOf(i) \in Ref
      <3>1. b[i].kind \in Kinds /\ b[i].blob \in Blobs /\ RevisionInBundle(b, i) \in Nat
        BY <1>2, <1>3
      <3> QED BY <3>1 DEF Ref
    <2> QED BY <1>5, <2>1
  <1>7. ASSUME NEW r \in Deposited(b) PROVE \A q \in issued[r.kind] : q < r.rev
    <2>1. PICK i \in D : r = RefOf(i) BY <1>5
    <2> QED BY <2>1, <1>3
  <1>8. ASSUME NEW r \in Deposited(b), NEW s \in Deposited(b),
               r.kind = s.kind, r.rev = s.rev
        PROVE  r = s
    <2>1. PICK i \in D : r = RefOf(i) BY <1>5
    <2>2. PICK j \in D : s = RefOf(j) BY <1>5
    <2>3. b[i].kind = b[j].kind /\ RevisionInBundle(b, i) = RevisionInBundle(b, j)
      BY <2>1, <2>2, <1>8
    <2>4. RevisionInBundle(b, i) \in Nat BY <1>3
    <2>5. ~(i < j) /\ ~(j < i) BY <2>3, <2>4, <1>4
    <2>6. i = j BY <2>5, <1>1
    <2> QED BY <2>1, <2>2, <2>6
  <1>9. ASSUME NEW r \in Deposited(b)
        PROVE  \E m \in Deposited(b) : /\ m.kind = r.kind
                 /\ \A s \in Deposited(b) : s.kind = r.kind => s.rev <= m.rev
    <2> DEFINE I == {i \in D : b[i].kind = r.kind}
    <2>1. I \in SUBSET Nat /\ I \in SUBSET (1 .. Len(b)) BY <1>1
    <2>2. IsFiniteSet(I)
      <3>1. IsFiniteSet(1 .. Len(b)) BY <1>1, FS_Interval
      <3> HIDE DEF I
      <3> QED BY <2>1, <3>1, FS_Subset
    <2>3. I # {} BY <1>5
    <2>4. PICK last \in I : \A i \in I : i <= last
      <3> HIDE DEF I
      <3> QED BY <2>1, <2>2, <2>3, LargestExists
    <2>5. RefOf(last) \in Deposited(b) /\ RefOf(last).kind = r.kind BY <1>5
    <2>6. ASSUME NEW s \in Deposited(b), s.kind = r.kind
          PROVE  s.rev <= RefOf(last).rev
      <3>1. PICK i \in I : s = RefOf(i) BY <1>5, <2>6
      <3>2. RevisionInBundle(b, i) \in Nat /\ RevisionInBundle(b, last) \in Nat BY <1>3
      <3>3. i = last \/ i < last BY <2>4, <2>1
      <3>4. RevisionInBundle(b, i) <= RevisionInBundle(b, last)
        BY <3>2, <3>3, <1>4
      <3> QED BY <3>1, <3>4
    <2> QED BY <2>5, <2>6
  <1> QED BY <1>6, <1>7, <1>8, <1>9 DEF Continues

(***************************************************************************)
(* Retention (revisionsToPrune) keeps a subset of the rows and never drops *)
(* the largest revision.                                                   *)
(***************************************************************************)
LEMMA NewestKeepsLargest ==
  ASSUME NEW R \in SUBSET Nat, NEW m \in R, \A q \in R : q <= m
  PROVE  m \in Newest(R) /\ Newest(R) \subseteq R
PROOF
  <1>1. {q \in R : q > m} = {}
    <2>1. ASSUME NEW q \in R PROVE ~(q > m)
      <3>1. q \in Nat /\ m \in Nat /\ q <= m OBVIOUS
      <3> QED BY <3>1
    <2> QED BY <2>1
  <1>2. Cardinality({q \in R : q > m}) = 0 BY <1>1, FS_EmptySet
  <1>3. 0 < MaxRevisions BY MaxRevisionsAssumption
  <1> QED BY <1>2, <1>3 DEF Newest

(***************************************************************************)
(* What inserting references that continue the numbering does to the rows  *)
(* of one kind.                                                            *)
(***************************************************************************)
LEMMA InsertRows ==
  ASSUME TypeOK, RowsInv, NEW refs, Continues(refs), Insert(refs), NEW k \in Kinds
  PROVE  LET new == {r \in refs : r.kind = k}
         IN  /\ issued'[k] = issued[k] \cup {r.rev : r \in new}
             /\ issued'[k] \subseteq 0 .. MaxIssued
             /\ DOMAIN artifacts'[k] \subseteq DOMAIN artifacts[k] \cup {r.rev : r \in new}
             /\ artifacts'[k] \in [DOMAIN artifacts'[k] -> Blobs]
             /\ \A rev \in DOMAIN artifacts'[k] :
                  \/ \E r \in new : r.rev = rev /\ artifacts'[k][rev] = r.blob
                  \/ rev \in DOMAIN artifacts[k] /\ artifacts'[k][rev] = artifacts[k][rev]
             /\ k \notin Managed =>
                  DOMAIN artifacts'[k] = DOMAIN artifacts[k] \cup {r.rev : r \in new}
             /\ issued'[k] # {} =>
                  \E m \in DOMAIN artifacts'[k] : \A q \in issued'[k] : q <= m
PROOF
  <1> DEFINE new == {r \in refs : r.kind = k}
             revs == {r.rev : r \in new}
             rows == Inserted(k, refs)
  <1>1. /\ artifacts[k] \in [DOMAIN artifacts[k] -> Blobs]
        /\ issued[k] \subseteq 0 .. MaxIssued
        /\ DOMAIN artifacts[k] \subseteq issued[k]
    BY DEF TypeOK, RowsInv
  <1>2. new \subseteq Ref /\ \A r \in new : r.rev \in 0 .. MaxIssued /\ r.blob \in Blobs
    BY BoundsAssumption DEF Continues, Insert, Ref
  <1>3. issued'[k] = issued[k] \cup revs BY DEF Insert
  <1>4. issued'[k] \subseteq 0 .. MaxIssued BY <1>1, <1>2, <1>3
  <1>5. CASE new = {}
    <2>1. artifacts'[k] = artifacts[k] BY <1>5 DEF Insert
    <2>2. issued'[k] = issued[k] BY <1>3, <1>5
    <2>3. issued[k] # {} => \E m \in DOMAIN artifacts[k] : \A q \in issued[k] : q <= m
      BY DEF RowsInv
    <2> QED BY <1>1, <1>3, <1>4, <1>5, <2>1, <2>2, <2>3
  <1>6. CASE new # {}
    <2>1. artifacts'[k] = Pruned(k, rows) BY <1>6 DEF Insert
    <2>2. DOMAIN rows = DOMAIN artifacts[k] \cup revs BY DEF Inserted
    <2>3. ASSUME NEW rev \in DOMAIN rows
          PROVE  \/ \E r \in new : r.rev = rev /\ rows[rev] = r.blob
                 \/ rev \in DOMAIN artifacts[k] /\ rows[rev] = artifacts[k][rev]
      <3>1. CASE \E r \in new : r.rev = rev
        <4>1. rows[rev] = (CHOOSE r \in new : r.rev = rev).blob
          BY <3>1, <2>2 DEF Inserted
        <4> QED BY <3>1, <4>1
      <3>2. CASE ~ \E r \in new : r.rev = rev
        <4>1. rows[rev] = artifacts[k][rev] BY <3>2, <2>2 DEF Inserted
        <4> QED BY <3>2, <4>1, <2>2
      <3> QED BY <3>1, <3>2
    <2>4. \A rev \in DOMAIN rows : rows[rev] \in Blobs
      BY <2>3, <1>1, <1>2
    <2>5. PICK m \in new : \A s \in new : s.rev <= m.rev
      BY <1>6 DEF Continues
    <2>6. \A q \in issued[k] : q < m.rev BY DEF Continues
    <2>7. m.rev \in DOMAIN rows /\ \A q \in issued'[k] : q <= m.rev
      BY <2>2, <2>5, <2>6, <1>1, <1>2, <1>3
    <2>8. DOMAIN rows \subseteq issued'[k] /\ DOMAIN rows \in SUBSET Nat
      BY <2>2, <1>1, <1>3, <1>4
    <2>9. m.rev \in Newest(DOMAIN rows) /\ Newest(DOMAIN rows) \subseteq DOMAIN rows
      BY <2>7, <2>8, NewestKeepsLargest
    <2> HIDE DEF rows
    <2>10. /\ DOMAIN Pruned(k, rows) \subseteq DOMAIN rows
           /\ m.rev \in DOMAIN Pruned(k, rows)
           /\ \A rev \in DOMAIN Pruned(k, rows) : Pruned(k, rows)[rev] = rows[rev]
           /\ k \notin Managed => DOMAIN Pruned(k, rows) = DOMAIN rows
      BY <2>7, <2>9 DEF Pruned
    <2>11. Pruned(k, rows) \in [DOMAIN Pruned(k, rows) -> Blobs]
      <3>1. CASE k \in Managed
        BY <3>1, <2>4, <2>9 DEF Pruned
      <3>2. CASE k \notin Managed
        <4>1. rows \in [DOMAIN rows -> Blobs] BY <2>4 DEF rows, Inserted
        <4> QED BY <3>2, <4>1 DEF Pruned
      <3> QED BY <3>1, <3>2
    <2> QED BY <1>3, <1>4, <2>1, <2>2, <2>3, <2>7, <2>10, <2>11
  <1> QED BY <1>5, <1>6

-----------------------------------------------------------------------------
(***************************************************************************)
(* The initial state.                                                      *)
(***************************************************************************)
LEMMA InitInd == Init => IndInv
PROOF
  <1> SUFFICES ASSUME Init PROVE IndInv OBVIOUS
  <1> USE DEF Init
  <1>1. \A k \in Kinds : artifacts[k] = << >> /\ DOMAIN artifacts[k] = {} /\ issued[k] = {}
    OBVIOUS
  <1>2. TypeOK
    <2>1. << >> \in [{} -> Blobs]
      <3>1. DOMAIN << >> = {} OBVIOUS
      <3>2. << >> = [i \in 1 .. 0 |-> i] OBVIOUS
      <3> QED BY <3>1, <3>2
    <2>2. artifacts \in [Kinds -> UNION {[R -> Blobs] : R \in SUBSET (0 .. MaxIssued)}]
      BY <2>1
    <2>3. 0 \in 0 .. MaxSeq BY BoundsAssumption
    <2>4. << >> \in Seq(Event) /\ << >> \in Seq(Artifact) /\ Len(<< >>) = 0 OBVIOUS
    <2>5. issued \in [Kinds -> SUBSET (0 .. MaxIssued)] OBVIOUS
    <2>6. log \in Seq(Event) /\ blobs \subseteq Blobs BY <2>4
    <2>7. /\ pc \in [Clients -> {"idle", "read", "append", "ifCurrent", "put"}]
          /\ cursor \in [Clients -> 0 .. MaxSeq]
          /\ bundle \in [Clients -> Seq(Artifact)]
          /\ stored \in [Clients -> Nat]
      BY <2>3, <2>4
    <2>8. \A c \in Clients : stored[c] <= Len(bundle[c]) BY <2>4
    <2> QED BY <2>2, <2>5, <2>6, <2>7, <2>8 DEF TypeOK
  <1>3. RowsInv /\ RowsHaveBlobs BY <1>1 DEF RowsInv, RowsHaveBlobs
  <1>4. RefsIssued /\ RefsKeepTheirContent BY DEF RefsIssued, RefsKeepTheirContent
  <1>5. WrittenInv BY DEF WrittenInv
  <1>6. CallInv
    <2>1. Len(<< >>) = 0 OBVIOUS
    <2> QED BY <2>1, BoundsAssumption DEF CallInv, CallsInv
  <1> QED BY <1>2, <1>3, <1>4, <1>5, <1>6 DEF IndInv

(***************************************************************************)
(* Steps that leave the tables alone: only a client's call moves.          *)
(***************************************************************************)
LEMMA CallStep ==
  ASSUME IndInv, UNCHANGED <<log, artifacts, issued>>, blobs \subseteq blobs',
         TypeOK', CallInv', WrittenInv'
  PROVE  IndInv'
PROOF
  <1>1. RowsInv' BY DEF IndInv, RowsInv
  <1>2. RefsIssued' /\ RefsKeepTheirContent'
    BY DEF IndInv, RefsIssued, RefsKeepTheirContent
  <1>3. RowsHaveBlobs' BY DEF IndInv, RowsHaveBlobs
  <1> QED BY <1>1, <1>2, <1>3 DEF IndInv

(***************************************************************************)
(* A call returns: its bundle is forgotten.                                *)
(***************************************************************************)
LEMMA ReturnType ==
  ASSUME TypeOK, WrittenInv, NEW c \in Clients, Return(c)
  PROVE  /\ blobs' \subseteq Blobs /\ blobs' = blobs
         /\ pc' \in [Clients -> {"idle", "read", "append", "ifCurrent", "put"}]
         /\ cursor' \in [Clients -> 0 .. MaxSeq]
         /\ bundle' \in [Clients -> Seq(Artifact)]
         /\ stored' \in [Clients -> Nat]
         /\ \A d \in Clients : stored'[d] <= Len(bundle'[d])
         /\ WrittenInv'
         /\ CallsInv => CallsInv'
PROOF
  <1>1. /\ blobs' = blobs /\ blobs' \subseteq Blobs
        /\ pc' \in [Clients -> {"idle", "read", "append", "ifCurrent", "put"}]
        /\ stored' \in [Clients -> Nat]
    BY DEF TypeOK, Return
  <1>2. cursor' \in [Clients -> 0 .. MaxSeq]
    BY BoundsAssumption DEF TypeOK, Return
  <1>3. bundle' \in [Clients -> Seq(Artifact)]
    BY DEF TypeOK, Return
  <1>4. ASSUME NEW d \in Clients PROVE stored'[d] <= Len(bundle'[d])
    <2>1. Len(<< >>) = 0 OBVIOUS
    <2>2. CASE d = c BY <2>1, <2>2 DEF TypeOK, Return
    <2>3. CASE d # c BY <2>3 DEF TypeOK, Return
    <2> QED BY <2>2, <2>3
  <1>5. WrittenInv'
    <2>1. ASSUME NEW d \in Clients, NEW i \in 1 .. stored'[d]
          PROVE  bundle'[d][i].blob \in blobs'
      <3>1. CASE d = c BY <3>1 DEF TypeOK, Return
      <3>2. CASE d # c
        <4>1. bundle'[d] = bundle[d] /\ stored'[d] = stored[d]
          BY <3>2 DEF TypeOK, Return
        <4> QED BY <4>1, <1>1 DEF WrittenInv
      <3> QED BY <3>1, <3>2
    <2> QED BY <2>1 DEF WrittenInv
  <1>6. CallsInv => CallsInv'
    BY DEF TypeOK, Return, CallsInv
  <1> QED BY <1>1, <1>2, <1>3, <1>4, <1>5, <1>6

(***************************************************************************)
(* The part of the invariant that speaks of one event's references is kept *)
(* by an insertion, for the events already in the log and for one that     *)
(* carries the inserted references.                                        *)
(***************************************************************************)
LEMMA InsertKeepsRefs ==
  ASSUME IndInv, NEW refs, Continues(refs), Insert(refs),
         NEW r \in Ref,
         \/ r \in refs
         \/ /\ r.rev \in issued[r.kind]
            /\ r.rev \in DOMAIN artifacts[r.kind] => artifacts[r.kind][r.rev] = r.blob
            /\ r.kind \notin Managed => r.rev \in DOMAIN artifacts[r.kind]
  PROVE  /\ r.rev \in issued'[r.kind]
         /\ r.rev \in DOMAIN artifacts'[r.kind] => artifacts'[r.kind][r.rev] = r.blob
         /\ r.kind \notin Managed => r.rev \in DOMAIN artifacts'[r.kind]
PROOF
  <1> DEFINE k == r.kind
             new == {s \in refs : s.kind = k}
  <1>0. k \in Kinds /\ TypeOK /\ RowsInv BY DEF Ref, IndInv
  <1>1. /\ issued'[k] = issued[k] \cup {s.rev : s \in new}
        /\ \A rev \in DOMAIN artifacts'[k] :
             \/ \E s \in new : s.rev = rev /\ artifacts'[k][rev] = s.blob
             \/ rev \in DOMAIN artifacts[k] /\ artifacts'[k][rev] = artifacts[k][rev]
        /\ k \notin Managed =>
             DOMAIN artifacts'[k] = DOMAIN artifacts[k] \cup {s.rev : s \in new}
    BY <1>0, InsertRows
  <1>2. /\ DOMAIN artifacts[k] \subseteq issued[k] /\ issued[k] \subseteq Nat
        /\ \A s \in new : s.rev \in Nat /\ \A q \in issued[k] : q < s.rev
    BY <1>0 DEF RowsInv, TypeOK, Continues, Ref
  <1>3. \A s \in new : s.rev \notin issued[k]
    BY <1>2
  <1>4. CASE r \in refs
    <2>1. r \in new BY <1>4
    <2>2. \A s \in new : s.rev = r.rev => s = r BY <2>1 DEF Continues
    <2>3. r.rev \notin DOMAIN artifacts[k] BY <2>1, <1>2, <1>3
    <2> QED BY <1>1, <2>1, <2>2, <2>3
  <1>5. CASE r \notin refs
    <2>1. r.rev \in issued[k] BY <1>5
    <2>2. \A s \in new : s.rev # r.rev BY <2>1, <1>3
    <2> QED BY <1>1, <1>5, <2>1, <2>2
  <1> QED BY <1>4, <1>5

(***************************************************************************)
(* The transactions: references are inserted, the call returns, and the    *)
(* log stays or gains the event that carries those references.             *)
(***************************************************************************)
LEMMA TransactionStep ==
  ASSUME IndInv, NEW c \in Clients, NEW refs, NEW conditional \in BOOLEAN,
         Continues(refs), \A r \in refs : r.blob \in blobs,
         Insert(refs), Return(c),
         log' = log \/ AppendInTx(c, conditional, refs)
  PROVE  IndInv'
PROOF
  <1> DEFINE event == [conditional |-> conditional, read |-> cursor[c], refs |-> refs]
  <1>1. TypeOK /\ RowsInv /\ RefsIssued /\ RefsKeepTheirContent
        /\ RowsHaveBlobs /\ WrittenInv /\ CallInv
    BY DEF IndInv
  <1>2. /\ blobs' = blobs /\ blobs' \subseteq Blobs
        /\ pc' \in [Clients -> {"idle", "read", "append", "ifCurrent", "put"}]
        /\ cursor' \in [Clients -> 0 .. MaxSeq]
        /\ bundle' \in [Clients -> Seq(Artifact)]
        /\ stored' \in [Clients -> Nat]
        /\ \A d \in Clients : stored'[d] <= Len(bundle'[d])
        /\ WrittenInv'
        /\ CallsInv'
    BY <1>1, ReturnType DEF CallInv
  <1>3. event \in Event
    <2>1. cursor[c] \in Nat BY <1>1, BoundsAssumption DEF TypeOK
    <2>2. refs \subseteq Ref BY DEF Continues
    <2> QED BY <2>1, <2>2 DEF Event
  <1>4. log' = log \/ log' = Append(log, event) BY DEF AppendInTx
  <1>5. log \in Seq(Event) BY <1>1 DEF TypeOK
  <1> HIDE DEF event
  <1>6. log' \in Seq(Event) BY <1>3, <1>4, <1>5
  <1>7. ASSUME NEW i \in DOMAIN log', NEW r \in log'[i].refs
        PROVE  r \in Ref /\ (r \in refs \/ (i \in DOMAIN log /\ r \in log[i].refs))
    <2>1. event.refs = refs /\ refs \subseteq Ref BY DEF event, Continues
    <2>2. CASE i \in DOMAIN log
      <3>1. log'[i] = log[i] BY <1>3, <1>4, <1>5, <2>2
      <3>2. log[i] \in Event BY <1>5, <2>2
      <3> QED BY <3>1, <3>2, <2>2 DEF Event
    <2>3. CASE i \notin DOMAIN log
      <3>1. log'[i] = event BY <1>3, <1>4, <1>5, <2>3
      <3> QED BY <3>1, <2>1
    <2> QED BY <2>2, <2>3
  <1>8. ASSUME NEW i \in DOMAIN log', NEW r \in log'[i].refs
        PROVE  /\ r.rev \in issued'[r.kind]
               /\ r.rev \in DOMAIN artifacts'[r.kind] => artifacts'[r.kind][r.rev] = r.blob
               /\ r.kind \notin Managed => r.rev \in DOMAIN artifacts'[r.kind]
    <2>1. r \in Ref /\ (r \in refs \/ (i \in DOMAIN log /\ r \in log[i].refs)) BY <1>7
    <2>2. \/ r \in refs
          \/ /\ r.rev \in issued[r.kind]
             /\ r.rev \in DOMAIN artifacts[r.kind] => artifacts[r.kind][r.rev] = r.blob
             /\ r.kind \notin Managed => r.rev \in DOMAIN artifacts[r.kind]
      BY <2>1, <1>1 DEF RefsIssued, RefsKeepTheirContent
    <2> QED BY <2>1, <2>2, InsertKeepsRefs
  <1>9. ASSUME NEW k \in Kinds
        PROVE  /\ issued'[k] \subseteq 0 .. MaxIssued
               /\ DOMAIN artifacts'[k] \subseteq issued'[k]
               /\ artifacts'[k] \in [DOMAIN artifacts'[k] -> Blobs]
               /\ \A rev \in DOMAIN artifacts'[k] : artifacts'[k][rev] \in blobs'
               /\ issued'[k] # {} =>
                    \E m \in DOMAIN artifacts'[k] : \A q \in issued'[k] : q <= m
    <2> DEFINE new == {r \in refs : r.kind = k}
    <2>1. /\ issued'[k] = issued[k] \cup {r.rev : r \in new}
          /\ issued'[k] \subseteq 0 .. MaxIssued
          /\ DOMAIN artifacts'[k] \subseteq DOMAIN artifacts[k] \cup {r.rev : r \in new}
          /\ artifacts'[k] \in [DOMAIN artifacts'[k] -> Blobs]
          /\ \A rev \in DOMAIN artifacts'[k] :
               \/ \E r \in new : r.rev = rev /\ artifacts'[k][rev] = r.blob
               \/ rev \in DOMAIN artifacts[k] /\ artifacts'[k][rev] = artifacts[k][rev]
          /\ issued'[k] # {} =>
               \E m \in DOMAIN artifacts'[k] : \A q \in issued'[k] : q <= m
      BY <1>1, InsertRows
    <2>2. DOMAIN artifacts'[k] \subseteq issued'[k]
      BY <2>1, <1>1 DEF RowsInv
    <2>3. \A rev \in DOMAIN artifacts'[k] : artifacts'[k][rev] \in blobs'
      BY <2>1, <1>1, <1>2 DEF RowsHaveBlobs
    <2> QED BY <2>1, <2>2, <2>3
  <1>10. TypeOK'
    <2>1. \A k \in Kinds : artifacts'[k] \in
                UNION {[R -> Blobs] : R \in SUBSET (0 .. MaxIssued)}
      BY <1>9
    <2>2. artifacts' = [k \in Kinds |-> artifacts'[k]]
          /\ issued' = [k \in Kinds |-> issued'[k]]
      BY DEF Insert
    <2>3. /\ artifacts' \in [Kinds -> UNION {[R -> Blobs] : R \in SUBSET (0 .. MaxIssued)}]
          /\ issued' \in [Kinds -> SUBSET (0 .. MaxIssued)]
      BY <2>1, <2>2, <1>9
    <2> QED BY <1>2, <1>6, <2>3 DEF TypeOK
  <1>11. RowsInv' /\ RowsHaveBlobs' BY <1>9 DEF RowsInv, RowsHaveBlobs
  <1>12. RefsIssued' /\ RefsKeepTheirContent' BY <1>8 DEF RefsIssued, RefsKeepTheirContent
  <1>13. CallInv'
    <2>1. CASE log' = log BY <2>1, <1>1, <1>2 DEF CallInv
    <2>2. CASE AppendInTx(c, conditional, refs)
      <3>1. Len(log') = Len(log) + 1 /\ Len(log) < MaxSeq
        BY <2>2, <1>3, <1>5 DEF AppendInTx, event
      <3>2. Len(log') <= MaxSeq BY <3>1, <1>5, BoundsAssumption
      <3> QED BY <3>2, <1>2 DEF CallInv
    <2> QED BY <2>1, <2>2
  <1> QED BY <1>2, <1>10, <1>11, <1>12, <1>13 DEF IndInv

(***************************************************************************)
(* An event without artifacts inserts no references.                       *)
(***************************************************************************)
LEMMA NoRefs ==
  ASSUME TypeOK, UNCHANGED <<artifacts, issued>>
  PROVE  Insert({}) /\ Continues({})
PROOF
  <1>1. artifacts = [k \in Kinds |-> artifacts[k]] /\ issued = [k \in Kinds |-> issued[k]]
    BY DEF TypeOK
  <1>2. \A k \in Kinds : {r.rev : r \in {s \in {} : s.kind = k}} = {} OBVIOUS
  <1>3. issued' = [k \in Kinds |-> issued[k] \cup {r.rev : r \in {s \in {} : s.kind = k}}]
    BY <1>1, <1>2
  <1>4. artifacts' = [k \in Kinds |->
          IF \E r \in {} : r.kind = k THEN Pruned(k, Inserted(k, {})) ELSE artifacts[k]]
    BY <1>1
  <1> QED BY <1>3, <1>4 DEF Insert, Continues

(***************************************************************************)
(* The references a prepared bundle deposits, and their blobs.             *)
(***************************************************************************)
LEMMA PreparedBundle ==
  ASSUME IndInv, NEW c \in Clients, Prepared(c)
  PROVE  /\ Continues(Deposited(bundle[c]))
         /\ \A r \in Deposited(bundle[c]) : r.blob \in blobs
PROOF
  <1>1. TypeOK /\ RowsInv /\ WrittenInv BY DEF IndInv
  <1>2. bundle[c] \in Seq(Artifact) /\ stored[c] = Len(bundle[c])
    BY <1>1 DEF TypeOK, Prepared
  <1>3. DOMAIN bundle[c] = 1 .. stored[c] BY <1>2
  <1>4. \A i \in DOMAIN bundle[c] : bundle[c][i].blob \in blobs
    BY <1>1, <1>3 DEF WrittenInv
  <1> QED BY <1>1, <1>2, <1>4, DepositedContinues DEF Deposited

LEMMA NextInd == IndInv /\ [Next]_vars => IndInv'
PROOF
  <1> SUFFICES ASSUME IndInv, [Next]_vars PROVE IndInv' OBVIOUS
  <1>0. TypeOK /\ CallInv /\ WrittenInv BY DEF IndInv
  <1>1. CASE UNCHANGED vars
    BY <1>1 DEF vars, IndInv, TypeOK, CallInv, CallsInv, RowsInv, RefsIssued, RefsKeepTheirContent,
                RowsHaveBlobs, WrittenInv
  <1>2. ASSUME NEW c \in Clients, GetEvents(c) PROVE IndInv'
    <2>1. Len(log) \in 0 .. MaxSeq
      BY <1>0, BoundsAssumption DEF CallInv, CallsInv, TypeOK
    <2>2. TypeOK' BY <1>0, <1>2, <2>1 DEF TypeOK, GetEvents
    <2>3. CallInv' BY <1>0, <1>2 DEF TypeOK, CallInv, CallsInv, GetEvents
    <2>4. WrittenInv' BY <1>0, <1>2 DEF WrittenInv, GetEvents
    <2> QED BY <1>2, <2>2, <2>3, <2>4, CallStep DEF GetEvents
  <1>3. ASSUME NEW c \in Clients, AppendEvent(c) PROVE IndInv'
    <2>1. Insert({}) /\ Continues({}) BY <1>0, <1>3, NoRefs DEF AppendEvent
    <2> QED BY <1>3, <2>1, TransactionStep DEF AppendEvent
  <1>4. ASSUME NEW c \in Clients, AppendIfCurrent(c) PROVE IndInv'
    <2>1. Insert({}) /\ Continues({}) BY <1>0, <1>4, NoRefs DEF AppendIfCurrent
    <2> QED BY <1>4, <2>1, TransactionStep DEF AppendIfCurrent
  <1>5. ASSUME NEW c \in Clients, BeginDeposit(c) PROVE IndInv'
    <2>1. PICK b \in Bundles, op \in {"append", "ifCurrent", "put"} :
            /\ pc[c] \in {"idle", "read"}
            /\ op = "put" => Len(b) = 1
            /\ pc' = [pc EXCEPT ![c] = op] /\ bundle' = [bundle EXCEPT ![c] = b]
      BY <1>5 DEF BeginDeposit
    <2>2. b \in Seq(Artifact) /\ Len(b) \in Nat BY BundlesAssumption
    <2>3. stored[c] = 0 BY <1>0, <2>1 DEF CallInv, CallsInv
    <2>4. UNCHANGED <<log, artifacts, blobs, issued, cursor, stored>>
      BY <1>5 DEF BeginDeposit
    <2>5. \A d \in Clients : stored'[d] <= Len(bundle'[d])
      BY <1>0, <2>1, <2>2, <2>3, <2>4 DEF TypeOK
    <2>6. bundle' \in [Clients -> Seq(Artifact)]
      BY <1>0, <2>1, <2>2 DEF TypeOK
    <2>7. TypeOK' BY <1>0, <2>1, <2>4, <2>5, <2>6 DEF TypeOK
    <2>8. CallInv' BY <1>0, <2>1, <2>3, <2>4 DEF TypeOK, CallInv, CallsInv
    <2>9. WrittenInv'
      <3>1. ASSUME NEW d \in Clients, NEW i \in 1 .. stored'[d]
            PROVE  bundle'[d][i].blob \in blobs'
        BY <1>0, <2>1, <2>3, <2>4 DEF TypeOK, WrittenInv
      <3> QED BY <3>1 DEF WrittenInv
    <2> QED BY <2>4, <2>7, <2>8, <2>9, CallStep
  <1>6. ASSUME NEW c \in Clients, PrepareArtifact(c) PROVE IndInv'
    <2> DEFINE next == bundle[c][stored[c] + 1].blob
    <2>1. /\ stored[c] \in Nat /\ stored[c] < Len(bundle[c])
          /\ bundle[c] \in Seq(Artifact)
          /\ stored' = [stored EXCEPT ![c] = @ + 1]
          /\ blobs' = blobs \cup {next}
          /\ UNCHANGED <<log, artifacts, issued, pc, cursor, bundle>>
      BY <1>0, <1>6 DEF PrepareArtifact, TypeOK
    <2>2. next \in Blobs
      <3>1. bundle[c][stored[c] + 1] \in Artifact BY <2>1
      <3> QED BY <3>1 DEF Artifact
    <2>3. \A d \in Clients : stored'[d] <= Len(bundle'[d])
      BY <1>0, <2>1 DEF TypeOK
    <2>4. TypeOK' BY <1>0, <2>1, <2>2, <2>3 DEF TypeOK
    <2>5. CallInv'
      <3>1. pc[c] \notin {"idle", "read"} \/ stored[c] = 0 BY <1>0 DEF CallInv, CallsInv
      <3>2. pc[c] \notin {"idle", "read"}
        BY <1>6 DEF PrepareArtifact
      <3> QED BY <1>0, <2>1, <3>2 DEF TypeOK, CallInv, CallsInv
    <2>6. WrittenInv'
      <3>1. ASSUME NEW d \in Clients, NEW i \in 1 .. stored'[d]
            PROVE  bundle'[d][i].blob \in blobs'
        <4>1. CASE d = c /\ i = stored[c] + 1 BY <2>1, <4>1
        <4>2. CASE ~(d = c /\ i = stored[c] + 1)
          <5>1. i \in 1 .. stored[d] BY <1>0, <2>1, <4>2 DEF TypeOK
          <5> QED BY <1>0, <2>1, <5>1 DEF WrittenInv
        <4> QED BY <4>1, <4>2
      <3> QED BY <3>1 DEF WrittenInv
    <2> QED BY <2>1, <2>4, <2>5, <2>6, CallStep
  <1>7. ASSUME NEW c \in Clients, AppendWithArtifacts(c) PROVE IndInv'
    BY <1>7, PreparedBundle, TransactionStep DEF AppendWithArtifacts
  <1>8. ASSUME NEW c \in Clients, AppendWithArtifactsIfCurrent(c) PROVE IndInv'
    <2>1. CASE Len(log) = cursor[c]
      BY <1>8, <2>1, PreparedBundle, TransactionStep DEF AppendWithArtifactsIfCurrent
    <2>2. CASE Len(log) # cursor[c]
      <3>1. Insert({}) /\ Continues({})
        BY <1>0, <1>8, <2>2, NoRefs DEF AppendWithArtifactsIfCurrent
      <3> QED BY <1>8, <2>2, <3>1, TransactionStep DEF AppendWithArtifactsIfCurrent
    <2> QED BY <2>1, <2>2
  <1>9. ASSUME NEW c \in Clients, PutArtifact(c) PROVE IndInv'
    BY <1>9, PreparedBundle, TransactionStep DEF PutArtifact
  <1>10. ASSUME NEW c \in Clients, Abandon(c) PROVE IndInv'
    <2>1. Insert({}) /\ Continues({}) BY <1>0, <1>10, NoRefs DEF Abandon
    <2> QED BY <1>10, <2>1, TransactionStep DEF Abandon
  <1> QED
    BY <1>1, <1>2, <1>3, <1>4, <1>5, <1>6, <1>7, <1>8, <1>9, <1>10 DEF Next

(***************************************************************************)
(* The strengthening holds in every reachable state of the store, which    *)
(* includes type correctness of its tables and of the calls in flight.     *)
(***************************************************************************)
THEOREM Inductive == Spec => []IndInv
  BY InitInd, NextInd, PTL DEF Spec

THEOREM TypeCorrect == Spec => []TypeOK
PROOF
  <1>1. IndInv => TypeOK BY DEF IndInv
  <1> QED BY <1>1, Inductive, PTL

(***************************************************************************)
(* References carried by events (appendWithArtifacts payloads) never       *)
(* change their meaning, whatever retention bound and interleaving.        *)
(***************************************************************************)
THEOREM ReferencesStable == Spec => []RefsKeepTheirContent
PROOF
  <1>1. IndInv => RefsKeepTheirContent BY DEF IndInv
  <1> QED BY <1>1, Inductive, PTL

(***************************************************************************)
(* getArtifact never finds a row whose blob was not written.               *)
(***************************************************************************)
THEOREM BlobsPresent == Spec => []RowsHaveBlobs
PROOF
  <1>1. IndInv => RowsHaveBlobs BY DEF IndInv
  <1> QED BY <1>1, Inductive, PTL

(***************************************************************************)
(* The newest surviving revision is the newest ever deposited, so the next *)
(* number (MAX(revision) + 1) is never one that was used.                  *)
(***************************************************************************)
THEOREM NewestSurvives == Spec => []LatestIsNewest
PROOF
  <1>1. ASSUME IndInv PROVE LatestIsNewest
    <2> SUFFICES ASSUME NEW k \in Kinds, issued[k] # {}
                 PROVE  /\ Max(issued[k]) \in DOMAIN artifacts[k]
                        /\ Max(issued[k]) = NextRevision(k) - 1
      BY DEF LatestIsNewest
    <2> DEFINE R == DOMAIN artifacts[k]
    <2>1. R \subseteq issued[k] /\ issued[k] \subseteq Nat
      BY <1>1 DEF IndInv, RowsInv, TypeOK
    <2>2. PICK m \in R : \A q \in issued[k] : q <= m
      BY <1>1 DEF IndInv, RowsInv
    <2>3. ASSUME NEW S \in SUBSET issued[k], m \in S PROVE Max(S) = m
      <3>1. \A y \in S : m >= y BY <2>1, <2>2
      <3>2. ASSUME NEW x \in S, \A y \in S : x >= y PROVE x = m
        BY <2>1, <2>2, <2>3, <3>2
      <3> QED BY <2>3, <3>1, <3>2 DEF Max
    <2>4. Max(R) = m /\ Max(issued[k]) = m BY <2>1, <2>2, <2>3
    <2>5. NextRevision(k) = m + 1 BY <2>2, <2>4 DEF NextRevision
    <2> QED BY <2>1, <2>2, <2>4, <2>5
  <1> QED BY <1>1, Inductive, PTL

-----------------------------------------------------------------------------
(***************************************************************************)
(* Refinement.  A transaction is a Write or a Put of the promise.          *)
(***************************************************************************)
LEMMA InsertDeposits ==
  ASSUME TypeOK, RowsInv, NEW refs, Continues(refs), Insert(refs), NEW k \in Kinds
  PROVE  Promise!Deposits(k, Promise!OfKind(refs, k))
PROOF
  <1> DEFINE new == {r \in refs : r.kind = k}
  <1>1. Promise!OfKind(refs, k) = new BY DEF Promise!OfKind
  <1>2. /\ issued'[k] = issued[k] \cup {r.rev : r \in new}
        /\ issued'[k] \subseteq 0 .. MaxIssued
        /\ \A rev \in DOMAIN artifacts'[k] :
             \/ \E r \in new : r.rev = rev /\ artifacts'[k][rev] = r.blob
             \/ rev \in DOMAIN artifacts[k] /\ artifacts'[k][rev] = artifacts[k][rev]
        /\ k \notin Managed =>
             DOMAIN artifacts'[k] = DOMAIN artifacts[k] \cup {r.rev : r \in new}
        /\ DOMAIN artifacts'[k] \subseteq DOMAIN artifacts[k] \cup {r.rev : r \in new}
        /\ issued'[k] # {} =>
             \E m \in DOMAIN artifacts'[k] : \A q \in issued'[k] : q <= m
    BY InsertRows
  <1>3. issued[k] \subseteq Nat /\ DOMAIN artifacts[k] \subseteq issued[k]
    BY DEF TypeOK, RowsInv
  <1>4. \A r \in new : r.rev \in Nat /\ \A q \in issued[k] : q < r.rev
    BY DEF Continues, Ref
  <1>5. \A r \in new : r.rev \notin issued[k]
    BY <1>3, <1>4
  <1>6. \A r, s \in new : r.rev = s.rev => r = s BY DEF Continues
  <1>7. ASSUME NEW r \in new, \A old \in issued'[k] : old <= r.rev
        PROVE  r.rev \in DOMAIN artifacts'[k]
    <2>1. r.rev \in issued'[k] BY <1>2
    <2>2. PICK m \in DOMAIN artifacts'[k] : \A q \in issued'[k] : q <= m
      BY <1>2, <2>1
    <2>3. m \in issued'[k] BY <1>2, <1>3
    <2>4. m <= r.rev /\ r.rev <= m /\ m \in Nat /\ r.rev \in Nat
      BY <1>2, <1>4, <1>7, <2>1, <2>2, <2>3
    <2> QED BY <2>2, <2>4
  <1> QED BY <1>1, <1>2, <1>5, <1>6, <1>7 DEF Promise!Deposits

LEMMA WriteStep ==
  ASSUME IndInv, NEW c \in Clients, NEW refs, NEW conditional \in BOOLEAN,
         Continues(refs), Insert(refs), AppendInTx(c, conditional, refs),
         conditional => Len(log) = cursor[c]
  PROVE  Promise!Write
PROOF
  <1> DEFINE event == [conditional |-> conditional, read |-> cursor[c], refs |-> refs]
  <1>0. TypeOK /\ RowsInv BY DEF IndInv
  <1>1. event \in Event
    <2>1. cursor[c] \in Nat BY <1>0, BoundsAssumption DEF TypeOK
    <2> QED BY <2>1 DEF Event, Continues
  <1>2. event \in Promise!Event
    BY <1>1 DEF Event, Ref, Promise!Event, Promise!Ref
  <1>3. log' = Append(log, event) /\ log \in Seq(Event)
    BY <1>0 DEF AppendInTx, TypeOK
  <1>4. event.conditional => event.read = Len(log) OBVIOUS
  <1>5. event.refs = refs OBVIOUS
  <1>6. \A k \in Kinds : Promise!Deposits(k, Promise!OfKind(event.refs, k))
    BY <1>0, <1>5, InsertDeposits
  <1> HIDE DEF event
  <1>7. Len(log') = Len(log) + 1 /\ log'[Len(log) + 1] = event
    BY <1>1, <1>3
  <1> QED BY <1>2, <1>3, <1>4, <1>6, <1>7 DEF Promise!Write

LEMMA PutStep ==
  ASSUME IndInv, NEW c \in Clients, PutArtifact(c), Len(bundle[c]) = 1
  PROVE  Promise!Put
PROOF
  <1> DEFINE b == bundle[c]
             ref == [kind |-> b[1].kind, rev |-> RevisionInBundle(b, 1), blob |-> b[1].blob]
  <1>0. TypeOK /\ RowsInv BY DEF IndInv
  <1>1. b \in Seq(Artifact) /\ DOMAIN b = {1} BY <1>0 DEF TypeOK
  <1>2. b[1] \in Artifact BY <1>1
  <1>3. b[1].kind \in Kinds /\ b[1].blob \in Blobs BY <1>2 DEF Artifact
  <1>4. Deposited(b) = {ref} BY <1>1 DEF Deposited
  <1>5. Continues(Deposited(b)) BY PreparedBundle DEF PutArtifact
  <1>6. Insert(Deposited(b)) /\ log' = log BY DEF PutArtifact
  <1>7. ref.rev \in issued'[b[1].kind]
    <2>1. \A k \in Kinds : issued'[k] =
            issued[k] \cup {r.rev : r \in {s \in Deposited(b) : s.kind = k}}
      BY <1>6 DEF Insert
    <2> QED BY <2>1, <1>3, <1>4
  <1>8. \A k \in Kinds : Promise!Deposits(k, Promise!OfKind({ref}, k))
    BY <1>0, <1>4, <1>5, <1>6, InsertDeposits
  <1> QED BY <1>3, <1>6, <1>7, <1>8 DEF Promise!Put

LEMMA NextPromise == IndInv /\ [Next]_vars => [Promise!Next]_<<log, artifacts, issued>>
PROOF
  <1> SUFFICES ASSUME IndInv, [Next]_vars
               PROVE  Promise!Write \/ Promise!Put \/ UNCHANGED <<log, artifacts, issued>>
    BY DEF Promise!Next
  <1>0. TypeOK /\ CallInv BY DEF IndInv
  <1>1. CASE UNCHANGED vars BY <1>1 DEF vars
  <1>2. ASSUME NEW c \in Clients,
               GetEvents(c) \/ BeginDeposit(c) \/ PrepareArtifact(c) \/ Abandon(c)
        PROVE  UNCHANGED <<log, artifacts, issued>>
    BY <1>2 DEF GetEvents, BeginDeposit, PrepareArtifact, Abandon
  <1>3. ASSUME NEW c \in Clients, AppendEvent(c) PROVE Promise!Write
    <2>1. Insert({}) /\ Continues({}) BY <1>0, <1>3, NoRefs DEF AppendEvent
    <2> QED BY <1>3, <2>1, WriteStep DEF AppendEvent
  <1>4. ASSUME NEW c \in Clients, AppendIfCurrent(c), log' # log PROVE Promise!Write
    <2>1. Insert({}) /\ Continues({}) BY <1>0, <1>4, NoRefs DEF AppendIfCurrent
    <2> QED BY <1>4, <2>1, WriteStep DEF AppendIfCurrent
  <1>5. ASSUME NEW c \in Clients, AppendWithArtifacts(c) PROVE Promise!Write
    BY <1>5, PreparedBundle, WriteStep DEF AppendWithArtifacts
  <1>6. ASSUME NEW c \in Clients, AppendWithArtifactsIfCurrent(c), Len(log) = cursor[c]
        PROVE  Promise!Write
    BY <1>6, PreparedBundle, WriteStep DEF AppendWithArtifactsIfCurrent
  <1>7. ASSUME NEW c \in Clients, PutArtifact(c) PROVE Promise!Put
    <2>1. Len(bundle[c]) = 1 BY <1>0, <1>7 DEF CallInv, CallsInv, PutArtifact
    <2> QED BY <1>7, <2>1, PutStep
  <1>8. ASSUME NEW c \in Clients, AppendIfCurrent(c), log' = log
        PROVE  UNCHANGED <<log, artifacts, issued>>
    BY <1>8 DEF AppendIfCurrent
  <1>9. ASSUME NEW c \in Clients, AppendWithArtifactsIfCurrent(c), Len(log) # cursor[c]
        PROVE  UNCHANGED <<log, artifacts, issued>>
    BY <1>9 DEF AppendWithArtifactsIfCurrent
  <1> QED
    BY <1>1, <1>2, <1>3, <1>4, <1>5, <1>6, <1>7, <1>8, <1>9 DEF Next

(***************************************************************************)
(* The SQLite store implements the promise: to every client its awaits,    *)
(* lost compare-and-append races and crashes look like atomic operations.  *)
(***************************************************************************)
THEOREM Implements == Spec => PromiseSpec
PROOF
  <1>1. Init => Promise!Init BY DEF Init, Promise!Init
  <1>2. IndInv /\ [Next]_vars => [Promise!Next]_<<log, artifacts, issued>>
    BY NextPromise
  <1> QED BY <1>1, <1>2, Inductive, PTL DEF Spec, PromiseSpec, Promise!Spec

=============================================================================
