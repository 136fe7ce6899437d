---------------------------- MODULE MCTelegramFS ----------------------------
(***************************************************************************)
(* Values for the constants of TelegramFS.                                 *)
(***************************************************************************)
EXTENDS TelegramFS, TLC

CONSTANTS d, a, b, c   \* names

NamesDABC == {d, a, b, c}

\* A directory with two files, the least that a removal can reorder; and with
\* three, so that hello_rmdir's loop takes more than one turn.
PathsOneDir   == {<<d>>, <<d, a>>, <<d, b>>}
PathsThreeDir == PathsOneDir \cup {<<d, c>>}

\* Bytes 1 and 2; a write at the start, and one that may leave a gap.
ByteValues == {1, 2}
OneChunk   == {[off |-> 0, data |-> <<1>>]}
TwoChunks  == {[off |-> 0, data |-> <<1>>], [off |-> 2, data |-> <<2>>]}

\* A read of the start, and one across the end.
OneRange   == {[off |-> 0, size |-> 2]}
TwoRanges  == {[off |-> 0, size |-> 2], [off |-> 2, size |-> 2]}

\* The files of the directory may change places.
FileSymmetry  == Permutations({a, b})
ThreeSymmetry == Permutations({a, b, c})

\* All but the reply to the last request.  No action reads it, and the
\* properties of the run with this view only that of the step at hand.
WithoutReply == <<up, st, handles, stray, sweep, epoch, clientVars>>

\* The same with the one invariant that is about the reply.
WithoutGoodReply == <<WithoutReply, OnlyStraysKill>>

NoFaults   == {}
Refused    == {"refused"}
Split      == {"split"}
AllFaults  == {"refused", "lost", "late", "split"}
=============================================================================
