------------------------------ MODULE FileList ------------------------------
(***************************************************************************)
(* The table of files as its callers see it: a sequence, changed by the    *)
(* operators of TgStorage, with the record that the last call handed out.  *)
(* TelegramFS takes the table in this form.                                *)
(***************************************************************************)
EXTENDS TgStorage

CONSTANTS
  Entries,   \* the records that callers push
  Nobody     \* (tg_file){0}, or no record handed out yet

VARIABLES st, ret

Create  == st' = tg_storage_new /\ ret' = Nobody
Destroy == st' = tg_storage_free /\ ret' = Nobody
Push(f) == st' = tg_storage_push(st, f) /\ ret' = Nobody

Pop ==
  /\ st.files # << >>
  /\ ret' = st.files[Len(st.files)]
  /\ st' = tg_storage_pop(st)

Remove(path) ==
  LET i == tg_storage_find_by_path(st, path) IN
  /\ ret' = IF i = 0 THEN Nobody ELSE st.files[i]
  /\ st' = tg_storage_remove_by_path(st, path)

Init == st = tg_storage_new /\ ret = Nobody

Next ==
  \/ Create
  \/ Destroy
  \/ \E f \in Entries : Push(f)
  \/ Pop
  \/ \E path \in Paths : Remove(path)

Spec == Init /\ [][Next]_<<st, ret>>
=============================================================================
