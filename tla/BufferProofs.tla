---------------------------- MODULE BufferProofs ----------------------------
(***************************************************************************)
(* The buffer never copies past its block, and computes the string         *)
(* functions of ByteStrings: for every initial capacity, every set of      *)
(* bytes and strings, and every sequence of calls.                         *)
(***************************************************************************)
EXTENDS Buffer, DataTheorems

IInv == InsideBlock /\ TailUnwritten

-----------------------------------------------------------------------------
(* The heap functions.                                                     *)

\* malloc returns a block of the size asked for, written by nobody.
LEMMA MallocBlock ==
  ASSUME NEW n \in Nat
  PROVE  /\ malloc(n) \in Contents
         /\ Len(malloc(n)) = n
         /\ \A k \in 1 .. n : malloc(n)[k] = Junk
<1>1. malloc(n) \in [1 .. n -> Bytes \cup {Junk}]
  BY DEF malloc
<1> QED
  BY <1>1, FunctionIsSequence DEF Contents, malloc

\* realloc keeps what fits and leaves the rest unwritten.
LEMMA ReallocBlock ==
  ASSUME NEW p \in Contents, NEW n \in Nat
  PROVE  /\ realloc(p, n) \in Contents
         /\ Len(realloc(p, n)) = n
         /\ \A k \in 1 .. n :
              realloc(p, n)[k] = IF k <= Len(p) THEN p[k] ELSE Junk
<1>1. realloc(p, n) \in [1 .. n -> Bytes \cup {Junk}]
  BY DEF realloc, Contents
<1> QED
  BY <1>1, FunctionIsSequence DEF Contents, realloc

\* memcpy changes the bytes from at on, and never the length of the block.
LEMMA MemcpyBlock ==
  ASSUME NEW p \in Contents, NEW at \in Nat, NEW data \in Seq(Bytes)
  PROVE  /\ memcpy(p, at, data) \in Contents
         /\ Len(memcpy(p, at, data)) = Len(p)
         /\ \A k \in 1 .. Len(p) :
              memcpy(p, at, data)[k] =
                IF k > at /\ k <= at + Len(data) THEN data[k - at] ELSE p[k]
<1>1. Len(p) \in Nat
  BY DEF Contents
<1>2. ASSUME NEW k \in 1 .. Len(p)
      PROVE  (IF k > at /\ k <= at + Len(data) THEN data[k - at] ELSE p[k])
                \in Bytes \cup {Junk}
  BY DEF Contents
<1>3. memcpy(p, at, data) \in [1 .. Len(p) -> Bytes \cup {Junk}]
  BY <1>2 DEF memcpy
<1> QED
  BY <1>1, <1>3, FunctionIsSequence DEF Contents, memcpy

-----------------------------------------------------------------------------
(* Every operation is a copy into a block that is long enough.             *)

\* The contents are the first size bytes of the block.
LEMMA StringLength ==
  ASSUME InsideBlock
  PROVE  /\ String \in Contents
         /\ Len(String) = size
         /\ \A k \in 1 .. size : String[k] = ptr[k]
<1>1. \A k \in 1 .. size : ptr[k] \in Bytes \cup {Junk}
  BY DEF InsideBlock, TypeOK, Contents
<1>2. size \in Nat
  BY DEF InsideBlock, TypeOK
<1> QED
  BY <1>1, <1>2, SubSeqProperties DEF String, Contents

\* p is ptr, grown or not, and the copy ends inside it.
LEMMA CopyInserts ==
  ASSUME IInv,
         NEW p \in Contents, NEW at \in Nat, NEW data \in Seq(Bytes),
         size <= Len(p), at + Len(data) <= Len(p),
         \A k \in 1 .. Len(p) : p[k] = IF k <= size THEN ptr[k] ELSE Junk,
         ptr' = memcpy(p, at, data),
         size' = Larger(size, at + Len(data)),
         capacity' = Len(p)
  PROVE  IInv' /\ String' = Inserted(String, at, data)
<1> DEFINE S == Bytes \cup {Junk}
<1>1. /\ size \in Nat /\ Len(p) \in Nat /\ Len(data) \in Nat
      /\ size' \in Nat /\ size' <= Len(p)
  BY DEF IInv, InsideBlock, TypeOK, Contents, Larger
<1>2. /\ ptr' \in Contents /\ Len(ptr') = Len(p)
      /\ \A k \in 1 .. Len(p) :
           ptr'[k] = IF k > at /\ k <= at + Len(data)
                     THEN data[k - at] ELSE p[k]
  BY MemcpyBlock
<1>3. InsideBlock'
  BY <1>1, <1>2 DEF InsideBlock, TypeOK
<1>4. TailUnwritten'
  BY <1>1, <1>2 DEF TailUnwritten, Larger
<1>5. /\ String \in Contents /\ Len(String) = size
      /\ \A k \in 1 .. size : String[k] = ptr[k]
  BY StringLength DEF IInv
<1>6. /\ String' \in Contents /\ Len(String') = size'
      /\ \A k \in 1 .. size' : String'[k] = ptr'[k]
  <2>1. \A k \in 1 .. size' : ptr'[k] \in S
    BY <1>1, <1>2 DEF Contents
  <2> QED
    BY <1>1, <2>1, SubSeqProperties DEF String, Contents
<1>7. /\ Inserted(String, at, data) \in Contents
      /\ Len(Inserted(String, at, data)) = size'
      /\ \A k \in 1 .. size' :
           Inserted(String, at, data)[k] =
             IF k > at /\ k <= at + Len(data) THEN data[k - at]
             ELSE IF k <= size THEN String[k] ELSE Junk
  <2> DEFINE old == String
             new == Inserted(old, at, data)
             n   == Larger(Len(old), at + Len(data))
  <2>1. size' = n
    BY <1>5
  <2>2. old \in Contents
    BY <1>5
  <2> HIDE DEF old
  <2>3. /\ new \in Contents /\ Len(new) = n
        /\ \A k \in 1 .. n :
             new[k] = IF k > at /\ k <= at + Len(data) THEN data[k - at]
                      ELSE IF k <= Len(old) THEN old[k] ELSE Junk
    BY <2>2, InsertedString
  <2> HIDE DEF new, n
  <2>4. /\ new \in Contents /\ Len(new) = size'
        /\ \A k \in 1 .. size' :
             new[k] = IF k > at /\ k <= at + Len(data) THEN data[k - at]
                      ELSE IF k <= Len(old) THEN old[k] ELSE Junk
    BY <2>1, <2>3
  <2> QED
    BY <1>5, <2>4 DEF new, old
<1>8. ASSUME NEW k \in 1 .. size'
      PROVE  String'[k] = Inserted(String, at, data)[k]
  <2>1. k \in 1 .. Len(p) /\ k \in Nat /\ size \in Nat
    BY <1>1
  <2>2. String'[k] = IF k > at /\ k <= at + Len(data) THEN data[k - at] ELSE p[k]
    BY <1>2, <1>6, <2>1
  <2>3. p[k] = IF k <= size THEN String[k] ELSE Junk
    BY <1>5, <2>1
  <2> QED
    BY <1>7, <2>2, <2>3
<1>9. String' = Inserted(String, at, data)
  BY <1>6, <1>7, <1>8, SeqEqual DEF Contents
<1> QED
  BY <1>3, <1>4, <1>9 DEF IInv

\* The block before the copy, when it is grown to n bytes only if it must be.
LEMMA GrownBlock ==
  ASSUME IInv, NEW full \in BOOLEAN, NEW n \in Nat, full => size <= n
  PROVE  LET p == Grown(full, n) IN
         /\ p \in Contents
         /\ Len(p) = IF full THEN n ELSE capacity
         /\ size <= Len(p)
         /\ \A k \in 1 .. Len(p) : p[k] = IF k <= size THEN ptr[k] ELSE Junk
<1>1. ptr \in Contents /\ Len(ptr) = capacity /\ size <= capacity
      /\ size \in Nat /\ capacity \in Nat
  BY DEF IInv, InsideBlock, TypeOK
<1>2. \A k \in 1 .. Len(ptr) : k > size => ptr[k] = Junk
  BY DEF IInv, TailUnwritten
<1>3. CASE full
  <2>1. Grown(full, n) = realloc(ptr, n) /\ size <= n
    BY <1>3 DEF Grown
  <2>2. /\ realloc(ptr, n) \in Contents
        /\ Len(realloc(ptr, n)) = n
        /\ \A k \in 1 .. n :
             realloc(ptr, n)[k] = IF k <= size THEN ptr[k] ELSE Junk
    <3>1. /\ realloc(ptr, n) \in Contents
          /\ Len(realloc(ptr, n)) = n
          /\ \A k \in 1 .. n :
               realloc(ptr, n)[k] = IF k <= Len(ptr) THEN ptr[k] ELSE Junk
      BY <1>1, ReallocBlock
    <3>2. ASSUME NEW k \in 1 .. n
          PROVE  realloc(ptr, n)[k] = IF k <= size THEN ptr[k] ELSE Junk
      BY <1>1, <1>2, <3>1
    <3> QED
      BY <3>1, <3>2
  <2> QED
    BY <1>3, <2>1, <2>2
<1>4. CASE ~full
  <2>1. Grown(full, n) = ptr
    BY <1>4 DEF Grown
  <2>2. \A k \in 1 .. Len(ptr) : ptr[k] = IF k <= size THEN ptr[k] ELSE Junk
    BY <1>1, <1>2
  <2> QED
    BY <1>1, <1>4, <2>1, <2>2
<1> QED
  BY <1>3, <1>4

\* Inserting into a block that is grown when the copy would reach its end.
LEMMA GrowAndCopy ==
  ASSUME IInv, NEW at \in Nat, NEW data \in Seq(Bytes),
         NEW full \in BOOLEAN, NEW n \in Nat,
         full => size <= n /\ at + Len(data) <= n,
         ~full => at + Len(data) <= capacity,
         ptr' = memcpy(Grown(full, n), at, data),
         capacity' = IF full THEN n ELSE capacity,
         size' = Larger(size, at + Len(data))
  PROVE  IInv' /\ String' = Inserted(String, at, data)
<1> DEFINE p == Grown(full, n)
<1>1. /\ p \in Contents
      /\ Len(p) = IF full THEN n ELSE capacity
      /\ size <= Len(p)
      /\ \A k \in 1 .. Len(p) : p[k] = IF k <= size THEN ptr[k] ELSE Junk
  BY GrownBlock
<1> HIDE DEF p
<1>2. at + Len(data) <= Len(p) /\ capacity' = Len(p)
  <2>1. CASE full
    BY <1>1, <2>1
  <2>2. CASE ~full
    BY <1>1, <2>2
  <2> QED
    BY <2>1, <2>2
<1>3. ptr' = memcpy(p, at, data)
  BY DEF p
<1> QED
  BY <1>1, <1>2, <1>3, CopyInserts

-----------------------------------------------------------------------------
(* One lemma per operation.                                                *)

\* A fresh or a freed buffer is empty and sound.
LEMMA EmptyBuffer ==
  ASSUME NEW n \in Nat, ptr' = malloc(n), size' = 0, capacity' = n
  PROVE  IInv' /\ String' = << >>
<1>1. /\ ptr' \in Contents /\ Len(ptr') = n
      /\ \A k \in 1 .. n : ptr'[k] = Junk
  BY MallocBlock
<1>2. IInv'
  BY <1>1 DEF IInv, InsideBlock, TypeOK, TailUnwritten
<1>3. String' = << >>
  BY SubSeqEmpty DEF String
<1> QED
  BY <1>2, <1>3

\* buffer_push appends one byte.
LEMMA PushStep ==
  ASSUME IInv, NEW c \in Bytes, buffer_push(c)
  PROVE  IInv' /\ String' = String \o <<c>>
<1>1. /\ size \in Nat /\ capacity \in Nat /\ size <= capacity
      /\ <<c>> \in Seq(Bytes) /\ Len(<<c>>) = 1
  BY DEF IInv, InsideBlock, TypeOK
<1> DEFINE full == size >= capacity
<1>2. /\ ptr' = memcpy(Grown(full, capacity * 2 + 1), size, <<c>>)
      /\ capacity' = IF full THEN capacity * 2 + 1 ELSE capacity
      /\ size' = Larger(size, size + Len(<<c>>))
      /\ capacity * 2 + 1 \in Nat
      /\ full \in BOOLEAN
      /\ full => size <= capacity * 2 + 1 /\ size + Len(<<c>>) <= capacity * 2 + 1
      /\ ~full => size + Len(<<c>>) <= capacity
  BY <1>1 DEF buffer_push, Larger
<1> HIDE DEF full
<1>3. IInv' /\ String' = Inserted(String, size, <<c>>)
  BY <1>1, <1>2, GrowAndCopy
<1> QED
  BY <1>1, <1>3, StringLength, InsertAtEnd DEF IInv

\* buffer_append appends the data.
LEMMA AppendStep ==
  ASSUME IInv, NEW data \in Seq(Bytes), buffer_append(data)
  PROVE  IInv' /\ String' = String \o data
<1>1. /\ size \in Nat /\ capacity \in Nat /\ size <= capacity
      /\ Len(data) \in Nat
  BY DEF IInv, InsideBlock, TypeOK
<1> DEFINE full == size + Len(data) >= capacity
           n    == capacity + Len(data)
<1>2. /\ ptr' = memcpy(Grown(full, n), size, data)
      /\ capacity' = IF full THEN n ELSE capacity
      /\ size' = Larger(size, size + Len(data))
      /\ n \in Nat
      /\ full \in BOOLEAN
      /\ full => size <= n /\ size + Len(data) <= n
      /\ ~full => size + Len(data) <= capacity
  BY <1>1 DEF buffer_append, Larger
<1> HIDE DEF full, n
<1>3. IInv' /\ String' = Inserted(String, size, data)
  BY <1>1, <1>2, GrowAndCopy
<1> QED
  BY <1>1, <1>3, StringLength, InsertAtEnd DEF IInv

\* buffer_insert puts the data at pos, and leaves a gap unwritten.
LEMMA InsertStep ==
  ASSUME IInv, NEW pos \in Nat, NEW data \in Seq(Bytes),
         buffer_insert(pos, data)
  PROVE  IInv' /\ String' = Inserted(String, pos, data)
<1>1. /\ size \in Nat /\ capacity \in Nat /\ size <= capacity
      /\ Len(data) \in Nat
  BY DEF IInv, InsideBlock, TypeOK
<1> DEFINE n    == pos + Len(data)
           full == n >= capacity
<1>2. /\ ptr' = memcpy(Grown(full, n), pos, data)
      /\ capacity' = IF full THEN n ELSE capacity
      /\ size' = Larger(size, pos + Len(data))
      /\ n \in Nat
      /\ full \in BOOLEAN
      /\ full => size <= n /\ pos + Len(data) <= n
      /\ ~full => pos + Len(data) <= capacity
  BY <1>1 DEF buffer_insert, Larger
<1> HIDE DEF full, n
<1> QED
  BY <1>1, <1>2, GrowAndCopy

\* Every step keeps the invariant and is a step of the plain string.
LEMMA BufferStep ==
  ASSUME IInv, [Next]_vars
  PROVE  IInv' /\ [Simple!Next]_String
<1>1. CASE buffer_new
  <2>1. IInv' /\ String' = << >>
    BY <1>1, CapacityAssumption, EmptyBuffer DEF buffer_new
  <2> QED
    BY <2>1 DEF Simple!Next, Simple!Clear
<1>2. CASE buffer_free
  <2>1. malloc(0) = << >>
    BY DEF malloc
  <2>2. IInv' /\ String' = << >>
    BY <1>2, <2>1, EmptyBuffer DEF buffer_free
  <2> QED
    BY <2>2 DEF Simple!Next, Simple!Clear
<1>3. ASSUME NEW c \in Bytes, buffer_push(c)
      PROVE  IInv' /\ [Simple!Next]_String
  BY <1>3, PushStep DEF Simple!Next, Simple!Extend
<1>4. ASSUME NEW data \in Strings, buffer_append(data)
      PROVE  IInv' /\ [Simple!Next]_String
  BY <1>4, AppendStep, CallersAssumption DEF Simple!Next, Simple!Extend
<1>5. ASSUME NEW data \in Strings, NEW pos \in Positions,
             buffer_insert(pos, data)
      PROVE  IInv' /\ [Simple!Next]_String
  <2>1. IInv' /\ String' = Inserted(String, pos, data)
    BY <1>5, InsertStep, CallersAssumption
  <2>2. String' = Simple!Inserted(String, pos, data)
    BY <2>1 DEF Inserted, Simple!Inserted, Larger, Simple!Larger
  <2> QED
    BY <2>1, <2>2 DEF Simple!Next, Simple!Insert
<1>6. CASE UNCHANGED vars
  BY <1>6 DEF vars, IInv, InsideBlock, TypeOK, TailUnwritten, String
<1> QED
  BY <1>1, <1>2, <1>3, <1>4, <1>5, <1>6 DEF Next

\* A new buffer satisfies the invariant and is empty.
LEMMA BufferInit == Init => IInv /\ String = << >>
<1> SUFFICES ASSUME Init PROVE IInv /\ String = << >>
  OBVIOUS
<1>1. /\ ptr \in Contents /\ Len(ptr) = InitialCapacity
      /\ \A k \in 1 .. InitialCapacity : ptr[k] = Junk
  BY MallocBlock, CapacityAssumption DEF Init
<1>2. IInv
  BY <1>1, CapacityAssumption DEF Init, IInv, InsideBlock, TypeOK, TailUnwritten
<1>3. String = << >>
  BY SubSeqEmpty DEF Init, String
<1> QED
  BY <1>2, <1>3

-----------------------------------------------------------------------------
\* The inductive invariant holds in every state.
LEMMA BufferInvariant == Spec => []IInv
<1>1. Init => IInv
  BY BufferInit
<1>2. IInv /\ [Next]_vars => IInv'
  BY BufferStep
<1> QED
  BY <1>1, <1>2, PTL DEF Spec

\* The contents stay inside the heap block, whatever sequence of pushes,
\* appends, inserts and frees the callers make.
THEOREM StaysInsideBlock == Spec => []InsideBlock
<1>1. IInv => InsideBlock
  BY DEF IInv
<1> QED
  BY <1>1, BufferInvariant, PTL

\* No byte behind the contents has ever been written.
THEOREM TailStaysUnwritten == Spec => []TailUnwritten
<1>1. IInv => TailUnwritten
  BY DEF IInv
<1> QED
  BY <1>1, BufferInvariant, PTL

\* The buffer with its allocation implements the plain string.
THEOREM BufferImplementsString == Spec => ImplementsString
<1>1. Init => Simple!Init
  BY BufferInit DEF Simple!Init
<1>2. IInv /\ [Next]_vars => [Simple!Next]_String
  BY BufferStep
<1> QED
  BY <1>1, <1>2, BufferInvariant, PTL DEF Spec, ImplementsString, Simple!Spec
=============================================================================
