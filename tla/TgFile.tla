------------------------------- MODULE TgFile -------------------------------
(***************************************************************************)
(* The tg_file record and its pure helpers (include/tg_file.h,             *)
(* src/tg_file.c).                                                         *)
(*                                                                         *)
(* A path "/d/a" is the sequence of its components <<d, a>>; "/" is the    *)
(* empty sequence.  The 100-byte name fields are assumed long enough.      *)
(***************************************************************************)
EXTENDS ByteStrings

CONSTANTS
  Names,   \* path components
  Paths    \* the paths, other than "/", that requests may name

ASSUME PathsAssumption == Paths \subseteq Seq(Names) \ {<< >>}

Root == << >>

TG_FILE == "TG_FILE"
TG_DIR  == "TG_DIR"

NoId == 0  \* the empty string in the file_id and message_id fields

TgFiles == [path       : Paths \cup {Root},
            file_id    : Nat,
            message_id : Nat,
            file_size  : Nat,
            type       : {TG_FILE, TG_DIR}]

\* Mutant: only the last component is stored.
NewFileByName(path, size) ==
  [path |-> <<path[Len(path)]>>, file_id |-> NoId, message_id |-> NoId,
   file_size |-> size, type |-> TG_FILE]

tg_file_new_file(path, size) ==
  [path |-> path, file_id |-> NoId, message_id |-> NoId,
   file_size |-> size, type |-> TG_FILE]

tg_file_new_dir(path) ==
  [path |-> path, file_id |-> NoId, message_id |-> NoId,
   file_size |-> 0, type |-> TG_DIR]

\* strrchr: what follows the last '/'.
tg_file_extract_filename(path) == path[Len(path)]

\* strchr twice: the first component, at any depth below it.
tg_file_extract_directory(path) ==
  IF Len(path) <= 1 THEN Root ELSE <<path[1]>>

=============================================================================
