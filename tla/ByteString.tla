----------------------------- MODULE ByteString -----------------------------
(***************************************************************************)
(* What callers of the buffer rely on: a string that grows at its end, and *)
(* may be overwritten or extended at any position.  TelegramFS takes the   *)
(* insertion in this form.                                                 *)
(***************************************************************************)
EXTENDS ByteStrings

CONSTANTS Strings, Positions

VARIABLE str

Clear == str' = << >>

Extend(data) == str' = str \o data

Insert(pos, data) == str' = Inserted(str, pos, data)

Init == str = << >>

Next ==
  \/ Clear
  \/ \E c \in Bytes : Extend(<<c>>)
  \/ \E data \in Strings : Extend(data)
  \/ \E data \in Strings, pos \in Positions : Insert(pos, data)

Spec == Init /\ [][Next]_str
=============================================================================
