------------------------------ MODULE FileTable -----------------------------
(***************************************************************************)
(* The table of files with its heap block (src/tg_storage.c): where        *)
(* TgStorage has a sequence, the code has a malloc'ed array of which the   *)
(* first size records are in use.  tg_storage_pop, which shrinks the       *)
(* array, is part of the interface although no handler calls it.           *)
(*                                                                         *)
(* An allocation always succeeds; size and cap stay far below 2^31.        *)
(***************************************************************************)
EXTENDS TgStorage

CONSTANTS
  Entries,     \* the records that callers push
  Nobody,      \* (tg_file){0}, or no record handed out yet
  Unset,       \* what nobody has written
  MaxEntries   \* bound on the size of the table

ASSUME EntriesAssumption ==
  /\ Entries \subseteq TgFiles
  /\ MaxEntries \in Nat
  /\ Unset \notin TgFiles

VARIABLES
  files,   \* the heap block
  size,    \* how many of its records are in use
  cap,     \* how many records the code believes the block to hold
  ret      \* the record that the last call returned

vars == <<files, size, cap, ret>>

malloc(n) == [k \in 1 .. n |-> Unset]

\* Of the old block, what fits is kept.
realloc(p, n) == [k \in 1 .. n |-> IF k <= Len(p) THEN p[k] ELSE Unset]

\* p[k] = f; a store behind the block would corrupt the heap.
Store(p, k, f) == [n \in 1 .. Len(p) |-> IF n = k THEN f ELSE p[n]]

\* A load from the block; behind it lies what nobody of this module wrote.
LoadAt(p, k) == IF k \in 1 .. Len(p) THEN p[k] ELSE Unset

new ==
  /\ files' = malloc(2)
  /\ size' = 0
  /\ cap' = 2
  /\ ret' = Nobody

free ==
  /\ files' = << >>
  /\ size' = 0
  /\ cap' = 0
  /\ ret' = Nobody

\* Mutant: the test for a full block is off by one.
PushLate(f) ==
  LET full  == size > cap
      block == IF full THEN realloc(files, cap * 2 + 1) ELSE files
  IN
  /\ size < MaxEntries
  /\ cap' = IF full THEN cap * 2 + 1 ELSE cap
  /\ files' = Store(block, size + 1, f)
  /\ size' = size + 1
  /\ ret' = Nobody

push(f) ==
  LET full  == size >= cap
      block == IF full THEN realloc(files, cap * 2 + 1) ELSE files
  IN
  /\ size < MaxEntries
  /\ cap' = IF full THEN cap * 2 + 1 ELSE cap
  /\ files' = Store(block, size + 1, f)
  /\ size' = size + 1
  /\ ret' = Nobody

\* Mutant: the block is halved as soon as it has a record to spare.
PopShrinksEarly ==
  LET roomy == size < cap
      block == IF roomy THEN realloc(files, cap \div 2) ELSE files
  IN
  /\ size > 0
  /\ cap' = IF roomy THEN cap \div 2 ELSE cap
  /\ files' = block
  /\ size' = size - 1
  /\ ret' = LoadAt(block, size)

\* The assertion makes an empty table the caller's fault.
pop ==
  LET roomy == size < cap \div 2
      block == IF roomy THEN realloc(files, cap \div 2) ELSE files
  IN
  /\ size > 0
  /\ cap' = IF roomy THEN cap \div 2 ELSE cap
  /\ files' = block
  /\ size' = size - 1
  /\ ret' = LoadAt(block, size)

\* The first record in use that has the path; the records behind size, which
\* removals leave in the block, are not looked at.
Index(path) == FirstOf({i \in 1 .. size : LoadAt(files, i).path = path})

remove_by_path(path) ==
  LET i == Index(path) IN
  /\ IF i = 0
     THEN UNCHANGED <<files, size>>
     ELSE /\ files' = Store(files, i, LoadAt(files, size))
          /\ size' = size - 1
  /\ ret' = IF i = 0 THEN Nobody ELSE LoadAt(files, i)
  /\ UNCHANGED cap

Init ==
  /\ files = malloc(2)
  /\ size = 0
  /\ cap = 2
  /\ ret = Nobody

Next ==
  \/ new
  \/ free
  \/ \E f \in Entries : push(f)
  \/ pop
  \/ \E path \in Paths : remove_by_path(path)

Spec == Init /\ [][Next]_vars

-----------------------------------------------------------------------------
\* The block is as long as cap says, the records in use lie inside it and
\* were all pushed: no call stores behind the block, and none that shrinks it
\* cuts off a record in use or hands out one that nobody wrote.
RecordsInBlock ==
  /\ size \in Nat
  /\ cap \in Nat
  /\ files \in Seq(TgFiles \cup {Unset})
  /\ cap = Len(files)
  /\ size <= cap
  /\ \A k \in 1 .. size : files[k] \in Entries
  /\ ret \in Entries \cup {Nobody}

\* The table without its allocation.
Table == [files |-> SubSeq(files, 1, size), cap |-> cap]

List == INSTANCE FileList WITH st <- Table

\* Every call does to the array what the operators of TgStorage, which
\* TelegramFS and its proofs use, do to the sequence, and returns the same
\* record, whatever growth, shrinking and earlier removals left in the block.
ImplementsList == List!Spec
=============================================================================
