---------------------------- MODULE MCPathLocks -----------------------------
(***************************************************************************)
(* Values for the constants of PathLocks.                                  *)
(***************************************************************************)
EXTENDS PathLocks

CONSTANTS d, a   \* names

NamesDA == {d, a}

\* A directory and a name in it, with a lock each.
NodesDA == {<<d>>, <<d, a>>}
=============================================================================
