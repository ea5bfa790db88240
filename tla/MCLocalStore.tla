--------------------------- MODULE MCLocalStore ---------------------------
(* A build stream shared by two processes, one kind under retention.       *)
EXTENDS LocalStore, TLC

CONSTANTS spec, config, x, y

MCKinds == {spec, config}
MCManaged == {config}
MCBlobs == {x, y}

\* A deposit of two kinds and a batch with two revisions of the managed kind;
\* single deposits of the managed kind.
MCBundles ==
  { << [kind |-> config, blob |-> y] >>,
    << [kind |-> config, blob |-> x], [kind |-> config, blob |-> y] >>,
    << [kind |-> spec, blob |-> y], [kind |-> config, blob |-> x] >> }

Symmetry == Permutations(Clients)
=============================================================================
