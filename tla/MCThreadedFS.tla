---------------------------- MODULE MCThreadedFS ----------------------------
(***************************************************************************)
(* Values for the constants of ThreadedFS.                                 *)
(***************************************************************************)
EXTENDS ThreadedFS, MCTelegramFS

\* Two files side by side; a directory with a file, and a file beside it.
PathsDA     == {<<d>>, <<d, a>>}
PathsTwo    == {<<a>>, <<b>>}
PathsBeside == {<<d>>, <<d, a>>, <<b>>}
=============================================================================
