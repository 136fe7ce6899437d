-------------------------- MODULE FileTableProofs ---------------------------
(***************************************************************************)
(* The table of files stays inside its heap block and computes the         *)
(* operators of TgStorage: for every set of records and every sequence of  *)
(* calls.                                                                  *)
(***************************************************************************)
EXTENDS FileTable, DataTheorems

Cells == TgFiles \cup {Unset}

-----------------------------------------------------------------------------
(* The heap functions.                                                     *)

\* malloc returns a block of the length asked for.
LEMMA MallocTable ==
  ASSUME NEW n \in Nat
  PROVE  malloc(n) \in Seq(Cells) /\ Len(malloc(n)) = n
<1>1. malloc(n) \in [1 .. n -> Cells]
  BY DEF malloc, Cells
<1> QED
  BY <1>1, FunctionIsSequence

\* realloc keeps what fits.
LEMMA ReallocTable ==
  ASSUME NEW p \in Seq(Cells), NEW n \in Nat
  PROVE  /\ realloc(p, n) \in Seq(Cells)
         /\ Len(realloc(p, n)) = n
         /\ \A k \in 1 .. n : k <= Len(p) => realloc(p, n)[k] = p[k]
<1>1. realloc(p, n) \in [1 .. n -> Cells]
  BY DEF realloc, Cells
<1> QED
  BY <1>1, FunctionIsSequence DEF realloc

\* A store changes one record, and never the length of the block.
LEMMA StoreTable ==
  ASSUME NEW p \in Seq(Cells), NEW i \in Nat, NEW f \in Cells
  PROVE  /\ Store(p, i, f) \in Seq(Cells)
         /\ Len(Store(p, i, f)) = Len(p)
         /\ \A k \in 1 .. Len(p) :
              Store(p, i, f)[k] = IF k = i THEN f ELSE p[k]
<1>1. Store(p, i, f) \in [1 .. Len(p) -> Cells] /\ Len(p) \in Nat
  BY DEF Store
<1> QED
  BY <1>1, FunctionIsSequence DEF Store

-----------------------------------------------------------------------------
(* The block and the sequence.                                             *)

\* The sequence is the first size records of the block.
LEMMA TableShape ==
  ASSUME RecordsInBlock
  PROVE  /\ size \in Nat /\ cap \in Nat /\ size <= cap
         /\ files \in Seq(Cells) /\ Len(files) = cap
         /\ Table.files \in Seq(Entries)
         /\ Len(Table.files) = size
         /\ \A k \in 1 .. size :
              /\ k \in 1 .. Len(files)
              /\ Table.files[k] = files[k]
              /\ files[k] \in Entries
         /\ Table.cap = cap
         /\ Table \in Storages
<1>1. /\ size \in Nat /\ cap \in Nat /\ size <= cap
      /\ files \in Seq(Cells) /\ Len(files) = cap
      /\ \A k \in 1 .. size : files[k] \in Entries
  BY DEF RecordsInBlock, Cells
<1>2. /\ SubSeq(files, 1, size) \in Seq(Entries)
      /\ Len(SubSeq(files, 1, size)) = size
      /\ \A k \in 1 .. size : SubSeq(files, 1, size)[k] = files[k]
  BY <1>1, SubSeqProperties
<1>3. Table.files = SubSeq(files, 1, size) /\ Table.cap = cap
  BY DEF Table
<1>4. Table.files \in Seq(TgFiles)
  BY <1>2, <1>3, EntriesAssumption
<1> QED
  BY <1>1, <1>2, <1>3, <1>4 DEF Storages, Table

\* A block whose records in use are those of a sequence stands for it.
LEMMA TableIs ==
  ASSUME NEW g \in Seq(Entries), NEW c \in Nat,
         files' \in Seq(Cells), Len(files') = c, cap' = c,
         size' = Len(g), size' <= c,
         \A k \in 1 .. Len(g) : files'[k] = g[k],
         ret' \in Entries \cup {Nobody}
  PROVE  RecordsInBlock' /\ Table' = [files |-> g, cap |-> c]
<1>1. Len(g) \in Nat /\ \A k \in 1 .. Len(g) : g[k] \in Entries
  OBVIOUS
<1>2. RecordsInBlock'
  BY <1>1 DEF RecordsInBlock, Cells
<1>3. /\ SubSeq(files', 1, Len(g)) \in Seq(Entries)
      /\ Len(SubSeq(files', 1, Len(g))) = Len(g)
      /\ \A k \in 1 .. Len(g) : SubSeq(files', 1, Len(g))[k] = files'[k]
  BY <1>1, SubSeqProperties
<1>4. SubSeq(files', 1, Len(g)) = g
  BY <1>1, <1>3, SeqEqual
<1> QED
  BY <1>2, <1>4 DEF Table

-----------------------------------------------------------------------------
(* One lemma per operation.                                                *)

\* tg_storage_new and tg_storage_free leave an empty table.
LEMMA EmptyTable ==
  ASSUME NEW n \in Nat, files' = malloc(n), size' = 0, cap' = n, ret' = Nobody
  PROVE  RecordsInBlock' /\ Table' = [files |-> << >>, cap |-> n]
<1>1. files' \in Seq(Cells) /\ Len(files') = n
  BY MallocTable
<1> DEFINE g == << >>
<1>2. /\ g \in Seq(Entries) /\ size' = Len(g) /\ size' <= n
      /\ \A k \in 1 .. Len(g) : files'[k] = g[k]
  OBVIOUS
<1> HIDE DEF g
<1>3. RecordsInBlock' /\ Table' = [files |-> g, cap |-> n]
  BY <1>1, <1>2, TableIs
<1> QED
  BY <1>3 DEF g

\* tg_storage_push grows a full block and stores inside it.
LEMMA PushBlock ==
  ASSUME RecordsInBlock, NEW f \in Entries, push(f)
  PROVE  RecordsInBlock' /\ Table' = tg_storage_push(Table, f)
<1> DEFINE full  == size >= cap
           n     == IF full THEN cap * 2 + 1 ELSE cap
           block == IF full THEN realloc(files, cap * 2 + 1) ELSE files
           g     == Append(Table.files, f)
<1>1. /\ size \in Nat /\ cap \in Nat /\ size <= cap
      /\ files \in Seq(Cells) /\ Len(files) = cap
      /\ Table.files \in Seq(Entries) /\ Len(Table.files) = size
      /\ \A k \in 1 .. size : Table.files[k] = files[k]
      /\ Table.cap = cap
  BY TableShape
<1>2. /\ n \in Nat /\ size + 1 <= n
      /\ block \in Seq(Cells) /\ Len(block) = n
      /\ \A k \in 1 .. size : block[k] = files[k]
  <2>1. CASE full
    <3>1. cap * 2 + 1 \in Nat /\ size + 1 <= cap * 2 + 1
      BY <1>1
    <3>2. /\ realloc(files, cap * 2 + 1) \in Seq(Cells)
          /\ Len(realloc(files, cap * 2 + 1)) = cap * 2 + 1
          /\ \A k \in 1 .. cap * 2 + 1 :
               k <= cap => realloc(files, cap * 2 + 1)[k] = files[k]
      BY <1>1, <3>1, ReallocTable
    <3>3. \A k \in 1 .. size : k \in 1 .. cap * 2 + 1 /\ k <= cap
      BY <1>1
    <3> QED
      BY <2>1, <3>1, <3>2, <3>3
  <2>2. CASE ~full
    BY <1>1, <2>2
  <2> QED
    BY <2>1, <2>2
<1>3. /\ files' = Store(block, size + 1, f)
      /\ cap' = n /\ size' = size + 1 /\ ret' = Nobody
  BY DEF push
<1>4. tg_storage_push(Table, f) = [files |-> g, cap |-> n]
  BY <1>1 DEF tg_storage_push
<1>5. /\ g \in Seq(Entries) /\ Len(g) = size + 1
      /\ g[size + 1] = f
      /\ \A k \in 1 .. size : g[k] = files[k]
  BY <1>1
<1> HIDE DEF full, n, block, g
<1>6. f \in Cells /\ size + 1 \in Nat
  BY <1>1, EntriesAssumption DEF Cells
<1>7. /\ files' \in Seq(Cells) /\ Len(files') = n
      /\ \A k \in 1 .. n : files'[k] = IF k = size + 1 THEN f ELSE block[k]
  <2>1. /\ Store(block, size + 1, f) \in Seq(Cells)
        /\ Len(Store(block, size + 1, f)) = Len(block)
        /\ \A k \in 1 .. Len(block) :
             Store(block, size + 1, f)[k] = IF k = size + 1 THEN f ELSE block[k]
    BY <1>2, <1>6, StoreTable, Zenon
  <2> QED
    BY <1>2, <1>3, <2>1
<1>8. \A k \in 1 .. Len(g) : files'[k] = g[k]
  BY <1>1, <1>2, <1>5, <1>7
<1>9. RecordsInBlock' /\ Table' = [files |-> g, cap |-> n]
  <2>1. size' = Len(g) /\ size' <= n /\ ret' \in Entries \cup {Nobody}
    BY <1>2, <1>3, <1>5
  <2> QED
    BY <1>2, <1>3, <1>5, <1>7, <1>8, <2>1, TableIs
<1> QED
  BY <1>4, <1>9

\* tg_storage_pop halves only a block of which less than half is in use, and
\* so hands out the last record.
LEMMA PopBlock ==
  ASSUME RecordsInBlock, pop
  PROVE  /\ RecordsInBlock'
         /\ Table.files # << >>
         /\ ret' = Table.files[Len(Table.files)]
         /\ Table' = tg_storage_pop(Table)
<1> DEFINE roomy == size < cap \div 2
           n     == IF roomy THEN cap \div 2 ELSE cap
           block == IF roomy THEN realloc(files, cap \div 2) ELSE files
           g     == SubSeq(Table.files, 1, size - 1)
<1>1. /\ size \in Nat /\ cap \in Nat /\ size <= cap /\ size > 0
      /\ files \in Seq(Cells) /\ Len(files) = cap
      /\ Table.files \in Seq(Entries) /\ Len(Table.files) = size
      /\ \A k \in 1 .. size : Table.files[k] = files[k] /\ files[k] \in Entries
      /\ Table.cap = cap
  BY TableShape DEF pop
<1>h. cap \div 2 \in Nat /\ cap \div 2 <= cap
  BY <1>1
<1>2. /\ n \in Nat /\ size <= n
      /\ block \in Seq(Cells) /\ Len(block) = n
      /\ \A k \in 1 .. size : block[k] = files[k]
  <2>1. CASE roomy
    <3>1. /\ realloc(files, cap \div 2) \in Seq(Cells)
          /\ Len(realloc(files, cap \div 2)) = cap \div 2
          /\ \A k \in 1 .. cap \div 2 :
               k <= cap => realloc(files, cap \div 2)[k] = files[k]
      BY <1>1, <1>h, ReallocTable
    <3>2. /\ size <= cap \div 2
          /\ \A k \in 1 .. size : k \in 1 .. cap \div 2 /\ k <= cap
      BY <1>1, <1>h, <2>1
    <3> QED
      BY <1>h, <2>1, <3>1, <3>2
  <2>2. CASE ~roomy
    BY <1>1, <2>2
  <2> QED
    BY <2>1, <2>2
<1>3. /\ files' = block /\ cap' = n /\ size' = size - 1
      /\ ret' = LoadAt(block, size)
  BY DEF pop
<1>4. tg_storage_pop(Table) = [files |-> g, cap |-> n]
  BY <1>1 DEF tg_storage_pop
<1>5. /\ g \in Seq(Entries) /\ Len(g) = size - 1
      /\ \A k \in 1 .. size - 1 : g[k] = files[k]
  <2>1. \A k \in 1 .. size - 1 : Table.files[k] \in Entries
    BY <1>1
  <2>2. /\ g \in Seq(Entries)
        /\ Len(g) = IF 1 <= size - 1 THEN size - 1 - 1 + 1 ELSE 0
        /\ \A k \in 1 .. size - 1 - 1 + 1 : g[k] = Table.files[1 + k - 1]
    BY <1>1, <2>1, SubSeqProperties
  <2> QED
    BY <1>1, <2>2
<1> HIDE DEF roomy, n, block, g
<1>6. ret' = files[size] /\ files[size] \in Entries
  BY <1>1, <1>2, <1>3 DEF LoadAt
<1>7. \A k \in 1 .. Len(g) : files'[k] = g[k]
  BY <1>1, <1>2, <1>3, <1>5
<1>8. RecordsInBlock' /\ Table' = [files |-> g, cap |-> n]
  BY <1>1, <1>2, <1>3, <1>5, <1>6, <1>7, TableIs
<1>9. Table.files # << >>
  BY <1>1
<1> QED
  BY <1>1, <1>4, <1>6, <1>8, <1>9

\* The search of the block is the search of the sequence.
LEMMA IndexFinds ==
  ASSUME RecordsInBlock, NEW path
  PROVE  Index(path) = tg_storage_find_by_path(Table, path)
<1>1. \A k \in 1 .. size : LoadAt(files, k) = Table.files[k]
  BY TableShape DEF LoadAt
<1>2. {k \in 1 .. size : LoadAt(files, k).path = path}
        = {k \in 1 .. Len(Table.files) : Table.files[k].path = path}
  BY <1>1, TableShape
<1> QED
  BY <1>2 DEF Index, tg_storage_find_by_path

\* tg_storage_remove_by_path moves the last record into the freed slot.
LEMMA RemoveBlock ==
  ASSUME RecordsInBlock, NEW path, remove_by_path(path)
  PROVE  LET i == tg_storage_find_by_path(Table, path) IN
         /\ RecordsInBlock'
         /\ ret' = IF i = 0 THEN Nobody ELSE Table.files[i]
         /\ Table' = tg_storage_remove_by_path(Table, path)
<1> DEFINE i == tg_storage_find_by_path(Table, path)
           g == SwapOut(Table.files, i)
<1>1. /\ size \in Nat /\ cap \in Nat /\ size <= cap
      /\ files \in Seq(Cells) /\ Len(files) = cap
      /\ Table.files \in Seq(Entries) /\ Len(Table.files) = size
      /\ \A k \in 1 .. size : Table.files[k] = files[k] /\ files[k] \in Entries
      /\ Table.cap = cap
      /\ Table \in Storages
  BY TableShape
<1>2. i \in 0 .. size /\ Index(path) = i
  BY <1>1, FindByPath, IndexFinds
<1>3. CASE i = 0
  <2>1. UNCHANGED <<files, size, cap>> /\ ret' = Nobody
    BY <1>2, <1>3 DEF remove_by_path
  <2>2. Table' = Table /\ RecordsInBlock'
    BY <2>1 DEF Table, RecordsInBlock
  <2> QED
    BY <1>3, <2>1, <2>2 DEF tg_storage_remove_by_path
<1>4. CASE i # 0
  <2>0. i \in 1 .. size /\ size > 0
    BY <1>1, <1>2, <1>4
  <2>1. /\ files' = Store(files, i, LoadAt(files, size))
        /\ size' = size - 1 /\ cap' = cap
        /\ ret' = LoadAt(files, i)
    BY <1>2, <1>4 DEF remove_by_path
  <2>2. tg_storage_remove_by_path(Table, path) = [files |-> g, cap |-> cap]
    BY <1>4 DEF tg_storage_remove_by_path, Table
  <2>3. /\ g \in Seq(Entries) /\ Len(g) = size - 1
        /\ \A k \in 1 .. size - 1 : g[k] = IF k = i THEN files[size] ELSE files[k]
    <3>1. g = [k \in 1 .. size - 1 |->
                 IF k = i THEN Table.files[size] ELSE Table.files[k]]
      BY <1>1 DEF SwapOut
    <3>2. \A k \in 1 .. size - 1 :
            (IF k = i THEN Table.files[size] ELSE Table.files[k]) \in Entries
      BY <1>1, <2>0
    <3> HIDE DEF g, i
    <3>3. g \in [1 .. size - 1 -> Entries] /\ size - 1 \in Nat
      BY <1>1, <2>0, <3>1, <3>2
    <3>4. g \in Seq(Entries) /\ Len(g) = size - 1
      BY <3>3, FunctionIsSequence
    <3>5. \A k \in 1 .. size - 1 : g[k] = IF k = i THEN files[size] ELSE files[k]
      BY <1>1, <2>0, <3>1
    <3> QED
      BY <3>4, <3>5
  <2> HIDE DEF i, g
  <2>4. /\ LoadAt(files, size) = files[size] /\ files[size] \in Entries
        /\ LoadAt(files, i) = files[i] /\ files[i] \in Entries
        /\ files[i] = Table.files[i]
        /\ files[size] \in Cells
    BY <1>1, <2>0, EntriesAssumption DEF LoadAt, Cells
  <2>5. /\ files' \in Seq(Cells) /\ Len(files') = cap
        /\ \A k \in 1 .. cap : files'[k] = IF k = i THEN files[size] ELSE files[k]
    <3>1. i \in Nat /\ files \in Seq(Cells) /\ files[size] \in Cells
      BY <1>1, <2>0, <2>4
    <3>2. /\ Store(files, i, files[size]) \in Seq(Cells)
          /\ Len(Store(files, i, files[size])) = Len(files)
          /\ \A k \in 1 .. Len(files) :
               Store(files, i, files[size])[k] =
                 IF k = i THEN files[size] ELSE files[k]
      BY <3>1, StoreTable, Zenon
    <3> QED
      BY <1>1, <2>1, <2>4, <3>2
  <2>6. \A k \in 1 .. Len(g) : files'[k] = g[k]
    BY <1>1, <2>0, <2>3, <2>5
  <2>7. RecordsInBlock' /\ Table' = [files |-> g, cap |-> cap]
    <3>1. size' = Len(g) /\ size' <= cap /\ ret' \in Entries \cup {Nobody}
      BY <1>1, <2>1, <2>3, <2>4
    <3> QED
      BY <1>1, <2>1, <2>3, <2>5, <2>6, <3>1, TableIs
  <2> QED
    BY <1>4, <2>1, <2>2, <2>4, <2>7 DEF i
<1> QED
  BY <1>3, <1>4

-----------------------------------------------------------------------------
(* Invariance and refinement.                                              *)

\* Every step keeps the invariant and is a step of the list.
LEMMA TableStep ==
  ASSUME RecordsInBlock, [Next]_vars
  PROVE  RecordsInBlock' /\ [List!Next]_<<Table, ret>>
<1>1. CASE new
  <2>1. RecordsInBlock' /\ Table' = [files |-> << >>, cap |-> 2] /\ ret' = Nobody
    BY <1>1, EmptyTable DEF new
  <2> QED
    BY <2>1 DEF List!Next, List!Create, List!tg_storage_new
<1>2. CASE free
  <2>1. malloc(0) = << >>
    BY DEF malloc
  <2>2. RecordsInBlock' /\ Table' = [files |-> << >>, cap |-> 0] /\ ret' = Nobody
    BY <1>2, <2>1, EmptyTable DEF free
  <2> QED
    BY <2>2 DEF List!Next, List!Destroy, List!tg_storage_free
<1>3. ASSUME NEW f \in Entries, push(f)
      PROVE  RecordsInBlock' /\ [List!Next]_<<Table, ret>>
  <2>1. RecordsInBlock' /\ Table' = tg_storage_push(Table, f) /\ ret' = Nobody
    BY <1>3, PushBlock DEF push
  <2>2. tg_storage_push(Table, f) = List!tg_storage_push(Table, f)
    BY DEF tg_storage_push, List!tg_storage_push
  <2>3. List!Push(f)
    BY <2>1, <2>2 DEF List!Push
  <2> QED
    BY <2>1, <2>3 DEF List!Next
<1>4. CASE pop
  <2>1. /\ RecordsInBlock' /\ Table.files # << >>
        /\ ret' = Table.files[Len(Table.files)]
        /\ Table' = tg_storage_pop(Table)
    BY <1>4, PopBlock
  <2>2. tg_storage_pop(Table) = List!tg_storage_pop(Table)
    BY DEF tg_storage_pop, List!tg_storage_pop
  <2>3. List!Pop
    BY <2>1, <2>2 DEF List!Pop
  <2> QED
    BY <2>1, <2>3 DEF List!Next
<1>5. ASSUME NEW path \in Paths, remove_by_path(path)
      PROVE  RecordsInBlock' /\ [List!Next]_<<Table, ret>>
  <2> DEFINE i == tg_storage_find_by_path(Table, path)
  <2>1. /\ RecordsInBlock'
        /\ ret' = IF i = 0 THEN Nobody ELSE Table.files[i]
        /\ Table' = tg_storage_remove_by_path(Table, path)
    BY <1>5, RemoveBlock
  <2>2. i = List!tg_storage_find_by_path(Table, path)
    BY DEF tg_storage_find_by_path, List!tg_storage_find_by_path,
           FirstOf, List!FirstOf, Min, List!Min
  <2> HIDE DEF i
  <2>3. tg_storage_remove_by_path(Table, path)
          = List!tg_storage_remove_by_path(Table, path)
    BY <2>2 DEF i, tg_storage_remove_by_path, List!tg_storage_remove_by_path,
                SwapOut, List!SwapOut
  <2>4. List!Remove(path)
    BY <2>1, <2>2, <2>3 DEF List!Remove
  <2> QED
    BY <2>1, <2>4 DEF List!Next
<1>6. CASE UNCHANGED vars
  BY <1>6 DEF vars, RecordsInBlock, Table
<1> QED
  BY <1>1, <1>2, <1>3, <1>4, <1>5, <1>6 DEF Next

\* A new table satisfies the invariant and is an empty list.
LEMMA TableInit == Init => RecordsInBlock /\ List!Init
<1> SUFFICES ASSUME Init PROVE RecordsInBlock /\ List!Init
  OBVIOUS
<1>1. files \in Seq(Cells) /\ Len(files) = 2 /\ size = 0 /\ cap = 2 /\ ret = Nobody
  BY MallocTable DEF Init
<1>2. RecordsInBlock
  BY <1>1 DEF RecordsInBlock, Cells
<1>3. SubSeq(files, 1, size) = << >>
  BY <1>1, SubSeqEmpty
<1> QED
  BY <1>1, <1>2, <1>3 DEF Table, List!Init, List!tg_storage_new

\* The records in use stay inside the block and none of them is lost when it
\* is reallocated, whatever sequence of pushes, pops and removals is made.
THEOREM RecordsStayInBlock == Spec => []RecordsInBlock
<1>1. Init => RecordsInBlock
  BY TableInit
<1>2. RecordsInBlock /\ [Next]_vars => RecordsInBlock'
  BY TableStep
<1> QED
  BY <1>1, <1>2, PTL DEF Spec

\* The array with its allocation implements the list that TelegramFS uses.
THEOREM TableImplementsList == Spec => ImplementsList
<1>1. Init => List!Init
  BY TableInit
<1>2. RecordsInBlock /\ [Next]_vars => [List!Next]_<<Table, ret>>
  BY TableStep
<1> QED
  BY <1>1, <1>2, RecordsStayInBlock, PTL DEF Spec, ImplementsList, List!Spec
=============================================================================
