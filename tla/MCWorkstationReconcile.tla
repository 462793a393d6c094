----------------------- MODULE MCWorkstationReconcile -----------------------
(***************************************************************************)
(* Small instances of WorkstationReconcile.                                *)
(***************************************************************************)
EXTENDS WorkstationReconcile, TLC

CONSTANTS r1, r2, o1, o2

Symmetric == Permutations(Release) \union Permutations(Owner)
=============================================================================
