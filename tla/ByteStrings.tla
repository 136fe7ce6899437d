---------------------------- MODULE ByteStrings -----------------------------
(***************************************************************************)
(* Contents of files as strings of bytes: what the buffer of src/buffer.c  *)
(* holds between its start and its size.  Module Buffer shows that the     *)
(* buffer with its allocation computes these functions.                    *)
(***************************************************************************)
EXTENDS Integers, Sequences

CONSTANTS
  Bytes,   \* byte values that users write
  Junk     \* a byte nobody wrote: uninitialised heap, or text of an error page

ASSUME JunkAssumption == Junk \notin Bytes

Contents == Seq(Bytes \cup {Junk})

Larger(m, n) == IF m >= n THEN m ELSE n

\* buffer_insert: data copied to offset pos; a gap behind the old end stays
\* unwritten.
Inserted(old, pos, data) ==
  [k \in 1 .. Larger(Len(old), pos + Len(data)) |->
     IF k > pos /\ k <= pos + Len(data) THEN data[k - pos]
     ELSE IF k <= Len(old) THEN old[k]
     ELSE Junk]

\* The part of contents that a read of n bytes at offset off returns.
Slice(contents, off, n) ==
  IF off < Len(contents)
  THEN SubSeq(contents, off + 1,
              IF off + n > Len(contents) THEN Len(contents) ELSE off + n)
  ELSE << >>
=============================================================================
