------------------------------- MODULE Buffer -------------------------------
(***************************************************************************)
(* The growable byte buffer of src/buffer.c with its heap block: files are *)
(* fetched into one with buffer_append, one call per piece that curl       *)
(* delivers, patched with buffer_insert and uploaded from it.              *)
(*                                                                         *)
(* Sizes are mathematical integers: the operands are a length that was     *)
(* allocated and an off_t, whose sum stays below 2^64.  An allocation      *)
(* always succeeds.                                                        *)
(***************************************************************************)
EXTENDS ByteStrings

CONSTANTS
  InitialCapacity,  \* what buffer_new allocates; 100 in the code
  Strings,          \* the data that callers hand over
  Positions,        \* the offsets that callers insert at
  MaxLength         \* bound on the length of the contents

ASSUME CapacityAssumption == InitialCapacity \in Nat

ASSUME CallersAssumption ==
  /\ Strings \subseteq Seq(Bytes)
  /\ Positions \subseteq Nat
  /\ MaxLength \in Nat

VARIABLES
  ptr,       \* the heap block
  size,      \* how much of it is in use
  capacity   \* how long the code believes the block to be

vars == <<ptr, size, capacity>>

\* malloc and realloc: what is new in the block was written by nobody.
malloc(n)     == [k \in 1 .. n |-> Junk]
realloc(p, n) == [k \in 1 .. n |-> IF k <= Len(p) THEN p[k] ELSE Junk]

\* What reaches the block of a copy to p + at; the rest would corrupt the heap.
memcpy(p, at, data) ==
  [k \in 1 .. Len(p) |->
     IF k > at /\ k <= at + Len(data) THEN data[k - at] ELSE p[k]]

\* The block before a copy, at the capacity the operation decided on.
Grown(full, cap) == IF full THEN realloc(ptr, cap) ELSE ptr

buffer_new ==
  /\ ptr' = malloc(InitialCapacity)
  /\ size' = 0
  /\ capacity' = InitialCapacity

\* Mutant: the buffer is emptied but its block is kept.
BufferKept ==
  /\ size' = 0
  /\ UNCHANGED <<ptr, capacity>>

buffer_free ==
  /\ ptr' = << >>
  /\ size' = 0
  /\ capacity' = 0

\* Mutant: the test for a full block is off by one.
BufferPushLate(c) ==
  LET full == size > capacity IN
  /\ size + 1 <= MaxLength
  /\ capacity' = IF full THEN capacity * 2 + 1 ELSE capacity
  /\ ptr' = memcpy(Grown(full, capacity * 2 + 1), size, <<c>>)
  /\ size' = size + 1

buffer_push(c) ==
  LET full == size >= capacity IN
  /\ size + 1 <= MaxLength
  /\ capacity' = IF full THEN capacity * 2 + 1 ELSE capacity
  /\ ptr' = memcpy(Grown(full, capacity * 2 + 1), size, <<c>>)
  /\ size' = size + 1

buffer_append(data) ==
  LET full == size + Len(data) >= capacity IN
  /\ size + Len(data) <= MaxLength
  /\ capacity' = IF full THEN capacity + Len(data) ELSE capacity
  /\ ptr' = memcpy(Grown(full, capacity + Len(data)), size, data)
  /\ size' = size + Len(data)

\* Mutant: the size is always set to the end of what was inserted.
BufferInsertCuts(pos, data) ==
  LET last == pos + Len(data)
      full == last >= capacity
  IN
  /\ last <= MaxLength
  /\ capacity' = IF full THEN last ELSE capacity
  /\ ptr' = memcpy(Grown(full, last), pos, data)
  /\ size' = last

buffer_insert(pos, data) ==
  LET last == pos + Len(data)
      full == last >= capacity
  IN
  /\ last <= MaxLength
  /\ capacity' = IF full THEN last ELSE capacity
  /\ ptr' = memcpy(Grown(full, last), pos, data)
  /\ size' = IF size < last THEN last ELSE size

Init ==
  /\ ptr = malloc(InitialCapacity)
  /\ size = 0
  /\ capacity = InitialCapacity

Next ==
  \/ buffer_new
  \/ buffer_free
  \/ \E c \in Bytes : buffer_push(c)
  \/ \E data \in Strings : buffer_append(data)
  \/ \E data \in Strings, pos \in Positions : buffer_insert(pos, data)

Spec == Init /\ [][Next]_vars

-----------------------------------------------------------------------------
TypeOK ==
  /\ ptr \in Contents
  /\ size \in Nat
  /\ capacity \in Nat

\* The contents lie inside the block and capacity is the block's true length,
\* after any sequence of pushes, appends and inserts, also on a buffer that
\* buffer_free has left with a NULL block: no copy runs over the block's end.
InsideBlock ==
  /\ TypeOK
  /\ capacity = Len(ptr)
  /\ size <= capacity

\* The part of the block behind the contents is as malloc left it, so that a
\* gap an insert leaves holds bytes of no earlier contents of this buffer.
TailUnwritten == \A k \in 1 .. Len(ptr) : k > size => ptr[k] = Junk

\* The contents, without the allocation.
String == SubSeq(ptr, 1, size)

Simple == INSTANCE ByteString WITH str <- String

\* Growing, copying and reallocating compute what the string functions say:
\* no operation loses or alters a byte it was not asked to.
ImplementsString == Simple!Spec
=============================================================================
