------------------------------- MODULE Stall --------------------------------
(***************************************************************************)
(* Persistence chains of review findings and the stall threshold           *)
(* (kernel/stall.ts; liveChains of kernel/engine.ts).                      *)
(*                                                                         *)
(* A history is the sequence of rounds' findings.  A finding has a stamped *)
(* id <<round, index>> and the ids it was marked to persist; the order in  *)
(* which a chain lists its members is left out, and a chain is the set of  *)
(* the ids that share a root.                                              *)
(***************************************************************************)
EXTENDS Integers, Sequences, FiniteSets, FiniteSetsExt

CONSTANT StallRounds   \* policy.stallRounds

ASSUME StallAssumption == StallRounds \in Nat \ {0}

RoundOf(id) == id[1]
Findings(h) == UNION {h[r] : r \in DOMAIN h}
Ids(h) == {f.id : f \in Findings(h)}

-----------------------------------------------------------------------------
(* stall.ts                                                                *)

\* Links are honoured only into a strictly earlier round of the history.
Parents(ids, f) == {p \in f.persists \cap ids : RoundOf(p) < RoundOf(f.id)}

\* Mutant: a finding that persists several joins the chains of one of them only.
RootsOf_FirstParent(h) ==
  LET ids == Ids(h)
      findings == Findings(h)
      roots[id \in ids] ==
        LET f == CHOOSE f \in findings : f.id = id
        IN  IF Parents(ids, f) = {} THEN {id} ELSE roots[CHOOSE p \in Parents(ids, f) : TRUE]
  IN  roots

\* rootsOf, memoized by id.
RootsOf(h) ==
  LET ids == Ids(h)
      findings == Findings(h)
      roots[id \in ids] ==
        LET f == CHOOSE f \in findings : f.id = id
        IN  IF Parents(ids, f) = {} THEN {id} ELSE UNION {roots[p] : p \in Parents(ids, f)}
  IN  roots

\* buildChains: the members of each root.
ChainsOf(h) ==
  LET roots == RootsOf(h)
      members == {<<root, id>> : id \in Ids(h), root \in Ids(h)}
      joined == {m \in members : m[1] \in roots[m[2]]}
  IN  {{m[2] : m \in {m \in joined : m[1] = root}} : root \in {m[1] : m \in joined}}

\* longestConsecutiveRun, walked from every round that opens a run.
LongestRun(rounds) ==
  LET opens == {r \in rounds : r - 1 \notin rounds}
      length(r) == Min({n \in 1 .. Cardinality(rounds) + 1 : r + n \notin rounds})
  IN  IF rounds = {} THEN 0 ELSE Max({length(r) : r \in opens})

Streak(chain) == LongestRun({RoundOf(id) : id \in chain})

Tip(chain) ==
  LET last == Max({RoundOf(id) : id \in chain}) IN {id \in chain : RoundOf(id) = last}

\* Mutant: one dismissed member of the tip silences the chain.
TipDismissed_AnyMember(chain, ids) == Tip(chain) \cap ids # {}

TipDismissed(chain, ids) == Tip(chain) \subseteq ids

StalledChains(h, limit, ids) ==
  {c \in ChainsOf(h) : Streak(c) >= limit /\ ~TipDismissed(c, ids)}

-----------------------------------------------------------------------------
(* engine.ts                                                               *)

\* Only chains with a member in the round being routed can raise.
LiveChains(chains, h, round) ==
  {c \in chains : c \cap {f.id : f \in h[round]} # {}}

Raisable(h, ids) ==
  IF h = << >> THEN {} ELSE LiveChains(StalledChains(h, StallRounds, ids), h, Len(h))

\* The chain reported: the deepest.
Reported(h, ids) ==
  {c \in Raisable(h, ids) : \A d \in Raisable(h, ids) : Streak(d) <= Streak(c)}

=============================================================================
