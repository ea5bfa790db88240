--------------------------- MODULE FindingChains ---------------------------
(***************************************************************************)
(* The histories over which a review loop looks for stalled chains.  Each  *)
(* step adds one reviewed round, or a human dismissing the chain just      *)
(* raised.                                                                 *)
(***************************************************************************)
EXTENDS Stall

CONSTANTS
  MaxHistory,    \* rounds of the history (bound)
  MaxFindings,   \* findings per round (bound)
  MaxLinks       \* ids one finding persists (bound)

ASSUME HistoryAssumption == {MaxHistory, MaxFindings, MaxLinks} \subseteq Nat

VARIABLES
  history,   \* findingsByRound
  silenced   \* ids a human dismissed

historyVars == <<history, silenced>>

\* Ids are stamped at deposit.
Id(round, k) == <<round, k>>

\* A reviewer may mark what earlier rounds found, from before the last spec
\* revision too: the engine starts its rounds afresh, the reviewer does not.
BeforeRestart == Id(0, 1)
Marks(h) ==
  {l \in SUBSET (Ids(h) \cup {BeforeRestart}) :
     Cardinality(l) <= MaxLinks /\ (BeforeRestart \in l => l = {BeforeRestart})}

HistoryInit == history = << >> /\ silenced = {}

\* A round without a revise verdict leaves an empty entry.
ReviewRound ==
  /\ Len(history) < MaxHistory
  /\ \E n \in 0 .. MaxFindings : \E marks \in [1 .. n -> Marks(history)] :
       history' = Append(history, {[id |-> Id(Len(history) + 1, k), persists |-> marks[k]] :
                                     k \in 1 .. n})
  /\ UNCHANGED silenced

\* Answering a stall with dismiss-finding dismisses every id it cites.
DismissFinding ==
  \E chain \in Reported(history, silenced) :
    /\ silenced' = silenced \cup chain
    /\ UNCHANGED history

HistoryNext == ReviewRound \/ DismissFinding

HistorySpec == HistoryInit /\ [][HistoryNext]_historyVars

-----------------------------------------------------------------------------
(* Properties.                                                             *)

HistoryTypeOK ==
  LET ids == (0 .. MaxHistory) \X (1 .. MaxFindings)
  IN  /\ history \in Seq(SUBSET [id : ids, persists : SUBSET ids])
      /\ silenced \subseteq Ids(history)

Continues(f, ids) == \E id \in f.persists \cap ids : RoundOf(id) < RoundOf(f.id)

\* The reference: a chain starts with a finding that continues none and holds
\* exactly the findings that continue one of its members.
IsChain(h, root, chain) ==
  \A f \in Findings(h) : f.id \in chain <=> f.id = root \/ Continues(f, chain)
ReferenceChains(h) ==
  {CHOOSE chain \in SUBSET Ids(h) : IsChain(h, root, chain) :
     root \in {f.id : f \in {f \in Findings(h) : ~Continues(f, Ids(h))}}}

\* The memoized walk finds exactly those chains, shared ancestors and marks
\* from before a restart included.
ChainsAreClosures == ChainsOf(history) = ReferenceChains(history)

\* A round is put to a human exactly when some disagreement has lasted
\* StallRounds rounds in a row and the newest round still holds a finding of
\* it that nobody dismissed.
ContestedIsRaised ==
  history # << >> =>
    (Raisable(history, silenced) # {} <=>
       \E chain \in ReferenceChains(history) :
         /\ \E first \in 1 .. Len(history) : \A r \in first .. first + StallRounds - 1 :
              \E id \in chain : RoundOf(id) = r
         /\ \E id \in chain \ silenced : RoundOf(id) = Len(history))

=============================================================================
