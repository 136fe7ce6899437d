----------------------------- MODULE TgStorage ------------------------------
(***************************************************************************)
(* The in-memory table of files (include/tg_storage.h, src/tg_storage.c):  *)
(* a growable array searched from the front, whose removal moves the last  *)
(* entry into the freed slot.  An index counts from 1; 0 is "not found"    *)
(* (NULL or -1 in the code).                                               *)
(***************************************************************************)
EXTENDS TgFile, FiniteSetsExt

Storages == [files : Seq(TgFiles), cap : Nat]

tg_storage_new == [files |-> << >>, cap |-> 2]

\* tg_storage_free: memset to zero.
tg_storage_free == [files |-> << >>, cap |-> 0]

\* Mutant: the array is not reallocated.
PushWithoutGrowth(st, f) ==
  [files |-> Append(st.files, f), cap |-> st.cap]

tg_storage_push(st, f) ==
  [files |-> Append(st.files, f),
   cap   |-> IF Len(st.files) >= st.cap THEN st.cap * 2 + 1 ELSE st.cap]

\* Behind the assertion that the table is not empty.
tg_storage_pop(st) ==
  [files |-> SubSeq(st.files, 1, Len(st.files) - 1),
   cap   |-> IF Len(st.files) < st.cap \div 2 THEN st.cap \div 2 ELSE st.cap]

\* The lowest of a set of positions, 0 if there is none.
FirstOf(positions) == IF positions = {} THEN 0 ELSE Min(positions)

tg_storage_find_by_path(st, path) ==
  FirstOf({i \in 1 .. Len(st.files) : st.files[i].path = path})

\* Mutants: the last entry is dropped instead of moved; it is moved but stays.
SwapOutTail(files, i) == SubSeq(files, 1, Len(files) - 1)
SwapOutKept(files, i) == [files EXCEPT ![i] = files[Len(files)]]

\* st->files[i] = st->files[--st->size]
SwapOut(files, i) ==
  [k \in 1 .. Len(files) - 1 |->
     IF k = i THEN files[Len(files)] ELSE files[k]]

tg_storage_remove_by_path(st, path) ==
  LET i == tg_storage_find_by_path(st, path)
  IN  IF i = 0 THEN st ELSE [st EXCEPT !.files = SwapOut(@, i)]

\* The positions of the entries tagged with directory dir, dir's own excluded.
InDirectory(st, dir) ==
  {i \in 1 .. Len(st.files) :
     /\ st.files[i].path # dir
     /\ tg_file_extract_directory(st.files[i].path) = dir}

tg_storage_find_files_by_dir(st, dir, to_search_from) ==
  FirstOf({i \in InDirectory(st, dir) : i >= to_search_from})
=============================================================================
