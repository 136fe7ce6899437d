---------------------------- MODULE MCFileTable -----------------------------
(***************************************************************************)
(* Values for the constants of FileTable: three records, two of them with  *)
(* the same path, since push does not look for one, and room for the       *)
(* capacities 2, 5 and 11 and for what halving makes of them.              *)
(***************************************************************************)
EXTENDS FileTable

CONSTANTS a, b   \* names

TwoNames == {a, b}
TwoPaths == {<<a>>, <<b>>}

ThreeEntries == {tg_file_new_file(<<a>>, 0), tg_file_new_file(<<a>>, 1),
                 tg_file_new_dir(<<b>>)}
=============================================================================
