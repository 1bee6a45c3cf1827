-------------------------- MODULE MCTorrentClient --------------------------
(* Small instances of TorrentClient for TLC.                               *)
EXTENDS TorrentClient, TLC

CalmOnly == {{}}
\* A known hash added again, or two requests at a time.
SeveralEnvs == {{"sameHash"}, {"parallel"}, {"sameHash", "overlap"}}

\* No hash, handle or request is told from another of its kind.
Symmetry ==
  Permutations(Hashes) \cup Permutations(Handles) \cup Permutations(Adders)
    \cup Permutations(Workers) \cup Permutations(Jobs)
============================================================================
