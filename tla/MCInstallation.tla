--------------------------- MODULE MCInstallation ---------------------------
(***************************************************************************)
(* Small instances of Installation: an old and a new package version.      *)
(***************************************************************************)
EXTENDS Installation, TLC

CONSTANTS v1, v2, d1, d2

Symmetric == Permutations(Version) \union Permutations(Doc)
=============================================================================
