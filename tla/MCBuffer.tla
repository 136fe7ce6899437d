------------------------------ MODULE MCBuffer ------------------------------
(***************************************************************************)
(* Values for the constants of Buffer: a block of two bytes to start with, *)
(* so that every operation meets a full, an exactly filled and a roomy     *)
(* block, and strings long enough to more than double it.                  *)
(***************************************************************************)
EXTENDS Buffer

ByteValues   == {1, 2}
ShortStrings == {<< >>, <<1>>, <<2, 1>>, <<1, 2, 2>>}
LowPositions == 0 .. 4
=============================================================================
