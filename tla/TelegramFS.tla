----------------------------- MODULE TelegramFS -----------------------------
(***************************************************************************)
(* The FUSE handlers of main.c, run by one thread (run.txt mounts with     *)
(* -s), over the file table of TgStorage and the client of TgClient.       *)
(*                                                                         *)
(* Requests reach a handler through the kernel and libfuse, which decide   *)
(* what can be asked: a path is walked with getattr first, create and      *)
(* mkdir are sent only for a name the walk did not find, read and write    *)
(* only for an open file, and unlink of an open file ends in libfuse.  The *)
(* errors that those guards exclude are left out of the actions: EISDIR of *)
(* hello_create, ENOENT of hello_open and hello_unlink, ENOTDIR of         *)
(* hello_rmdir.  What only an invariant excludes is kept.                  *)
(*                                                                         *)
(* A handler is one action, except hello_rmdir, whose loop makes one       *)
(* deleteMessage call per turn and is one action per turn.                 *)
(***************************************************************************)
EXTENDS TgStorage, TgClient

CONSTANTS
  Chunks,      \* what users write: records [off, data]
  Ranges,      \* what users read: records [off, size]
  MkdirDepth,  \* users make directories at most this deep
  MaxUploads   \* bound on the documents sent to the channel

ASSUME ChunksAssumption ==
  Chunks \subseteq [off : Nat, data : Seq(Bytes) \ {<< >>}]

ASSUME RangesAssumption == Ranges \subseteq [off : Nat, size : Nat \ {0}]

ASSUME BoundsAssumption == MkdirDepth \in Nat /\ MaxUploads \in Nat

VARIABLES
  up,       \* the process runs and the file system is mounted
  st,       \* storage of main.c
  handles,  \* paths of the libfuse nodes with open_count > 0
  stray,    \* some open file lies in a directory that was removed
  sweep,    \* hello_rmdir's loop: the directory and where to search from
  out,      \* the answer to the last request: <<operation, path, error, value>>
  epoch     \* the highest id in the channel when the process started (history)

fsVars == <<up, st, handles, stray, sweep, out, epoch>>
vars   == <<fsVars, clientVars>>

AllPaths == Paths \cup {Root}

Sweeping == sweep.from > 0
NoSweep  == [dir |-> Root, from |-> 0]

\* One thread serves one request at a time.
Ready == up /\ ~Sweeping

-----------------------------------------------------------------------------
(* What the kernel and libfuse find out before they call a handler.        *)

Find(path)   == tg_storage_find_by_path(st, path)
Exists(path) == Find(path) # 0
Entry(path)  == st.files[Find(path)]
IsDir(path)  == path = Root \/ (Exists(path) /\ Entry(path).type = TG_DIR)
IsFile(path) == Exists(path) /\ Entry(path).type = TG_FILE

\* Every directory on the way to path answers getattr as a directory.
Walk(path) == \A n \in 1 .. Len(path) - 1 : IsDir(SubSeq(path, 1, n))

\* path is dir itself or lies below it.
Under(dir, path) == Len(dir) <= Len(path) /\ SubSeq(path, 1, Len(dir)) = dir

is_open(path) == path \in handles

Reply(op, path, error, value) == out' = <<op, path, error, value>>

\* A bare 0, to a request whose answer tells nothing.
Acknowledge == Reply("ack", Root, "OK", 0)

-----------------------------------------------------------------------------
(* Start and end of the process.                                           *)

\* Mutant: the response buffer outlives the mount.
MountKeepsJson ==
  /\ ~up
  /\ up' = TRUE
  /\ st' = tg_storage_push(tg_storage_new, tg_file_new_dir(Root))
  /\ handles' = {}
  /\ stray' = FALSE
  /\ sweep' = NoSweep
  /\ epoch' = Len(blobs)
  /\ Reply("mount", Root, "OK", 0)
  /\ UNCHANGED clientVars

\* main and hello_init.
Mount ==
  /\ ~up
  /\ up' = TRUE
  /\ st' = tg_storage_push(tg_storage_new, tg_file_new_dir(Root))
  /\ handles' = {}
  /\ stray' = FALSE
  /\ sweep' = NoSweep
  /\ json' = EmptyJson
  /\ epoch' = Len(blobs)
  /\ Reply("mount", Root, "OK", 0)
  /\ UNCHANGED <<msgs, blobs>>

\* The process and everything it held in memory are gone.
Gone ==
  /\ up' = FALSE
  /\ st' = tg_storage_free
  /\ handles' = {}
  /\ stray' = FALSE
  /\ sweep' = NoSweep
  /\ UNCHANGED epoch

\* hello_destroy, after an unmount or after a signal that ends fuse_main's
\* loop between two requests, whatever is open then.
hello_destroy ==
  /\ Ready
  /\ Gone
  /\ Reply("destroy", Root, "OK", 0)
  /\ UNCHANGED clientVars

-----------------------------------------------------------------------------
(* Handlers that change nothing.                                           *)

hello_getattr(path) ==
  /\ Ready /\ Walk(path)
  /\ \/ IsDir(path)  /\ Reply("getattr", path, "OK", <<TG_DIR, 0>>)
     \/ IsFile(path) /\ Reply("getattr", path, "OK",
                              <<TG_FILE, Entry(path).file_size>>)
     \/ path # Root /\ ~Exists(path) /\ Reply("getattr", path, "ENOENT", 0)
  /\ UNCHANGED <<up, st, handles, stray, sweep, epoch, clientVars>>

hello_readdir(path) ==
  /\ Ready /\ Walk(path) /\ IsDir(path)
  /\ IF Exists(path)
     THEN Reply("readdir", path, "OK",
                {tg_file_extract_filename(st.files[i].path) :
                   i \in InDirectory(st, path)})
     ELSE Reply("readdir", path, "ENOENT", 0)
  /\ UNCHANGED <<up, st, handles, stray, sweep, epoch, clientVars>>

\* hello_setxattr and hello_utimens accept anything.
hello_ignored(path) ==
  /\ Ready /\ Walk(path) /\ Exists(path)
  /\ Acknowledge
  /\ UNCHANGED <<up, st, handles, stray, sweep, epoch, clientVars>>

-----------------------------------------------------------------------------
(* Names and open files.                                                   *)

hello_create(path) ==
  /\ Ready /\ Walk(path) /\ ~Exists(path)
  /\ st' = tg_storage_push(st, tg_file_new_file(path, 0))
  /\ handles' = handles \cup {path}
  /\ Reply("create", path, "OK", 0)
  /\ UNCHANGED <<up, stray, sweep, epoch, clientVars>>

hello_mkdir(path) ==
  /\ Ready /\ Walk(path) /\ ~Exists(path) /\ Len(path) <= MkdirDepth
  /\ st' = tg_storage_push(st, tg_file_new_dir(path))
  /\ Reply("mkdir", path, "OK", 0)
  /\ UNCHANGED <<up, handles, stray, sweep, epoch, clientVars>>

\* trunc: O_TRUNC is among the flags.  libfuse passes it on by default, and
\* the handler does not look at it.
hello_open(path, trunc) ==
  /\ Ready /\ Walk(path) /\ IsFile(path)
  /\ handles' = handles \cup {path}
  /\ IF trunc THEN Reply("truncate", path, "OK", 0) ELSE Acknowledge
  /\ UNCHANGED <<up, st, stray, sweep, epoch, clientVars>>

\* libfuse's release; main.c has no handler for it.
release(path) ==
  /\ Ready /\ is_open(path)
  /\ handles' = handles \ {path}
  /\ Acknowledge
  /\ UNCHANGED <<up, st, stray, sweep, epoch, clientVars>>

\* libfuse hides an open file by renaming it; there is no rename handler.
unlink_open(path) ==
  /\ Ready /\ Walk(path) /\ IsFile(path) /\ is_open(path)
  /\ Reply("unlink", path, "ENOSYS", 0)
  /\ UNCHANGED <<up, st, handles, stray, sweep, epoch, clientVars>>

\* Mutant: the freed slot, not the copy taken before, names the message.
RemovedSlot(path) == st.files[Len(st.files)]

\* The entry that tg_storage_remove_by_path returns.
RemovedEntry(path) == Entry(path)

hello_unlink(path) ==
  /\ Ready /\ Walk(path) /\ IsFile(path) /\ ~is_open(path)
  /\ \E o \in Outcomes :
       /\ tg_remove_message_with_file(RemovedEntry(path), o)
       /\ IF RemoveAborts(json', o) THEN
            Gone /\ Reply("unlink", path, "died", 0)
          ELSE
            /\ st' = tg_storage_remove_by_path(st, path)
            /\ Reply("unlink", path, "OK", 0)
            /\ UNCHANGED <<up, handles, stray, sweep, epoch>>

-----------------------------------------------------------------------------
(* hello_rmdir: the check, one turn of the loop, the return.               *)

hello_rmdir(path) ==
  /\ Ready /\ path # Root /\ Walk(path) /\ IsDir(path)
  /\ sweep' = [dir |-> path, from |-> 1]
  /\ UNCHANGED <<up, st, handles, stray, out, epoch, clientVars>>

NextInDir == tg_storage_find_files_by_dir(st, sweep.dir, sweep.from)

rmdir_turn ==
  /\ up /\ Sweeping /\ NextInDir # 0
  /\ LET file == st.files[NextInDir]
         Removed ==
           /\ st' = tg_storage_remove_by_path(st, file.path)
           /\ sweep' = [sweep EXCEPT !.from = NextInDir + 1]
           /\ UNCHANGED <<up, handles, stray, out, epoch>>
     IN  IF file.file_size > 0
         THEN \E o \in Outcomes :
                /\ tg_remove_message_with_file(file, o)
                /\ IF RemoveAborts(json', o)
                   THEN Gone /\ Reply("rmdir", sweep.dir, "died", 0)
                   ELSE Removed
         ELSE Removed /\ UNCHANGED clientVars

\* libfuse then forgets the node, and with it the way to open files below it.
rmdir_return ==
  /\ up /\ Sweeping /\ NextInDir = 0
  /\ st' = tg_storage_remove_by_path(st, sweep.dir)
  /\ handles' = {h \in handles : ~Under(sweep.dir, h)}
  /\ stray' = (stray \/ \E h \in handles : Under(sweep.dir, h))
  /\ sweep' = NoSweep
  /\ Reply("rmdir", sweep.dir, "OK", 0)
  /\ UNCHANGED <<up, epoch, clientVars>>

\* A file in a removed directory can still be closed; there may be others.
stray_release ==
  /\ Ready /\ stray
  /\ stray' \in BOOLEAN
  /\ Acknowledge
  /\ UNCHANGED <<up, st, handles, sweep, epoch, clientVars>>

\* Reading or writing it is fatal: libfuse has no path for it, passes NULL,
\* and the search of the table compares with it.
stray_io ==
  /\ Ready /\ stray
  /\ Gone
  /\ Reply("stray", Root, "died", 0)
  /\ UNCHANGED clientVars

-----------------------------------------------------------------------------
(* Contents.                                                               *)

hello_read(path, range) ==
  /\ Ready /\ is_open(path)
  /\ UNCHANGED <<msgs, blobs>>
  /\ IF ~Exists(path) THEN
       /\ Reply("read", path, "ENOENT", << >>)
       /\ UNCHANGED <<up, st, handles, stray, sweep, epoch, json>>
     ELSE IF Entry(path).file_id = NoId THEN
       /\ Reply("read", path, "OK", << >>)
       /\ UNCHANGED <<up, st, handles, stray, sweep, epoch, json>>
     ELSE \E src \in tg_file_load_contents(Entry(path)) :
       /\ json' = src.json
       /\ IF src.dies THEN Gone /\ Reply("read", path, "died", 0)
          ELSE /\ IF src.data = << >>
                  THEN Reply("read", path, "ENOENT", << >>)
                  ELSE Reply("read", path, "OK",
                             Slice(src.data, range.off, range.size))
               /\ UNCHANGED <<up, st, handles, stray, sweep, epoch>>

\* Mutant: the old contents are not loaded.
OriginalSkipped(file, isNew) == {Load(<< >>, json, FALSE)}

\* The contents that hello_write starts from, and the response buffer then.
Original(file, isNew) ==
  IF ~isNew /\ file.file_size > 0
  THEN tg_file_load_contents(file)
  ELSE {Load(<< >>, json, FALSE)}

\* Without an entry for path the upload goes by a local record, of which the
\* table only holds a copy made before it.
hello_write(path, chunk) ==
  LET isNew == ~Exists(path)
      file  == IF isNew
               THEN tg_file_new_file(path, chunk.off + Len(chunk.data))
               ELSE Entry(path)
  IN
  /\ Ready /\ is_open(path) /\ Len(blobs) < MaxUploads
  /\ IF file.type = TG_DIR THEN
       /\ Reply("write", path, "ENOENT", 0)
       /\ UNCHANGED <<up, st, handles, stray, sweep, epoch, clientVars>>
     ELSE \E src \in Original(file, isNew) : IF src.dies THEN
       /\ Gone /\ Reply("write", path, "died", 0)
       /\ json' = src.json /\ UNCHANGED <<msgs, blobs>>
     ELSE \E o \in Outcomes :
       LET data == Inserted(src.data, chunk.off, chunk.data) IN
       /\ tg_put_file(src.json, file, data, o)
       /\ IF PutAborts(json', file, o) THEN
            Gone /\ Reply("write", path, "died", 0)
          ELSE
            /\ st' = IF isNew THEN tg_storage_push(st, file)
                     ELSE [st EXCEPT !.files[Find(path)] =
                             [PutRecord(json', file)
                                EXCEPT !.file_size = Len(data)]]
            /\ Reply("write", path, "OK", Len(chunk.data))
            /\ UNCHANGED <<up, handles, stray, sweep, epoch>>

-----------------------------------------------------------------------------
Init ==
  /\ up = FALSE
  /\ st = tg_storage_free
  /\ handles = {}
  /\ stray = FALSE
  /\ sweep = NoSweep
  /\ out = <<"none", Root, "OK", 0>>
  /\ epoch = 0
  /\ msgs = {}
  /\ blobs = << >>
  /\ json = EmptyJson

Request(path) ==
  \/ hello_create(path)
  \/ hello_mkdir(path)
  \/ \E trunc \in BOOLEAN : hello_open(path, trunc)
  \/ release(path)
  \/ unlink_open(path)
  \/ hello_unlink(path)
  \/ hello_rmdir(path)
  \/ hello_ignored(path)
  \/ \E range \in Ranges : hello_read(path, range)
  \/ \E chunk \in Chunks : hello_write(path, chunk)

Next ==
  \/ Mount
  \/ hello_destroy
  \/ \E path \in Paths : Request(path)
  \/ \E path \in AllPaths : hello_getattr(path) \/ hello_readdir(path)
  \/ rmdir_turn
  \/ rmdir_return
  \/ stray_release
  \/ stray_io

\* The thread that serves a request keeps running, and each curl call it
\* makes returns.  Users owe nothing.
Fairness == WF_vars(rmdir_turn \/ rmdir_return)

Spec == Init /\ [][Next]_vars /\ Fairness

-----------------------------------------------------------------------------
(* Properties.                                                             *)

\* The table, the channel and the process have the shape the code assumes.
TypeOK ==
  /\ up \in BOOLEAN
  /\ st \in Storages
  /\ handles \subseteq Paths
  /\ stray \in BOOLEAN
  /\ sweep \in [dir : AllPaths, from : Nat]
  /\ epoch \in Nat
  /\ msgs \subseteq Messages
  /\ blobs \in Seq(Contents)
  /\ json \in JsonBuffers

UniquePaths ==
  \A i, j \in 1 .. Len(st.files) :
    st.files[i].path = st.files[j].path => i = j

RootFirst ==
  up => Len(st.files) > 0 /\ st.files[1] = tg_file_new_dir(Root)

FitsCapacity == Len(st.files) <= st.cap

\* tg_storage never holds two entries of one path, so the first match is the
\* only one; the removal that swaps in the last entry never moves "/"; and
\* no push writes behind the allocation.  Whatever the network does.
StorageSound == UniquePaths /\ RootFirst /\ FitsCapacity

\* An open file still has its entry when hello_read or hello_write looks for
\* it, so the branches for a missing entry or a directory are never taken;
\* only inside hello_rmdir may the entry go first.
HandlesBacked ==
  \A h \in handles : IsFile(h) \/ (Sweeping /\ Under(sweep.dir, h))

\* No two files point to the same message: removing or rewriting one file
\* through its message_id cannot touch another.
NoSharedMessage ==
  \A i, j \in 1 .. Len(st.files) :
    /\ st.files[i].message_id # NoId
    /\ st.files[i].message_id = st.files[j].message_id
    => i = j

\* The message that holds the contents of table entry f.
Holds(m, f) ==
  /\ m.mid = f.message_id
  /\ m.fid = f.file_id
  /\ m.tag = tg_file_extract_directory(f.path)
  /\ Len(blobs[m.fid]) = f.file_size

\* As long as every call is answered, table and channel agree: a file with
\* bytes has a message with its document, directory tag and size, an empty
\* one has no ids, and each message of this mount belongs to some file.
ChannelMatchesTable ==
  up => /\ \A i \in 1 .. Len(st.files) :
             LET f == st.files[i] IN
             IF f.file_size > 0 THEN \E m \in msgs : Holds(m, f)
             ELSE f.file_id = NoId /\ f.message_id = NoId
        /\ \A m \in msgs : m.mid > epoch =>
             \E i \in 1 .. Len(st.files) : Holds(m, st.files[i])

\* A file with a document has a message: file_id makes tg_put_file edit the
\* message that message_id names, and then there is one, whatever answers
\* were refused, stale or broken off when the two ids were parsed.
DocumentsHaveMessages ==
  \A i \in 1 .. Len(st.files) :
    st.files[i].file_id # NoId => st.files[i].message_id # NoId

KeepsOtherFiles ==
  \A p \in Paths : Exists(p) /\ up' =>
    IF Exists(p)'
    THEN \/ Entry(p)' = Entry(p)
         \/ ~Sweeping /\ out'[1] = "write" /\ out'[2] = p
    ELSE \/ ~Sweeping /\ out'[1] = "unlink" /\ out'[2] = p
         \/ Sweeping /\ Under(sweep.dir, p)

\* A request changes the entry of no other path: an entry is rewritten only
\* by a write to its path, and removed only by its own unlink, by the rmdir
\* of a directory above it, or with the process.
FilesIndependent == [][KeepsOtherFiles]_vars

KeepsMessageKnown ==
  \A p \in Paths :
    Exists(p) /\ Entry(p).message_id # NoId /\ Exists(p)' =>
      Entry(p)'.message_id # NoId

\* A file whose message is known never becomes one whose message is not, as
\* long as its entry lives: another message may take its place, but no write,
\* and no answer, leaves the message to be deleted without a name.
MessageStaysKnown == [][KeepsMessageKnown]_vars

KeepsOtherMessages ==
  \A p \in Paths, m \in msgs :
    Exists(p) /\ Entry(p).message_id = m.mid /\ m \notin msgs' =>
      \/ out'[1] \in {"write", "unlink"} /\ out'[2] = p
      \/ Sweeping /\ Under(sweep.dir, p)

\* A request edits or deletes the message of no other path: in the channel,
\* as in the table, files are independent while every call is answered.
MessagesIndependent == [][KeepsOtherMessages]_vars

KeepsEarlierMounts ==
  \A m \in msgs : up /\ m.mid <= epoch => m \in msgs'

\* After a crash or an unmount the channel still holds what earlier mounts
\* uploaded, and nothing but the messages themselves is left of them.  No
\* request of a later mount edits or deletes one, not even through an id that
\* comes from a stale, failed or split answer.
EarlierMountsKept == [][KeepsEarlierMounts]_vars

\* The entry of p leads to a document that holds the chunk.
Stored(p, chunk) ==
  /\ Entry(p).file_id # NoId
  /\ Slice(blobs[Entry(p).file_id], chunk.off, Len(chunk.data)) = chunk.data

\* A refused upload is not noticed by hello_write, which reports success and
\* sets the new size.  What the file is found by stays consistent all the
\* same: either its entry leads to a document with the bytes written, or
\* entry and channel lead to the old contents.
WriteAllOrNothing ==
  [][\A p \in Paths, chunk \in Chunks :
       hello_write(p, chunk) /\ out'[3] = "OK" =>
         \/ Stored(p, chunk)'
         \/ /\ Entry(p)' = [Entry(p) EXCEPT !.file_size = Entry(p)'.file_size]
            /\ UNCHANGED <<msgs, blobs>>]_vars

\* Each turn of hello_rmdir's loop takes an entry out of the table it scans,
\* whatever became of the call that deletes the message: the loop takes no
\* more turns than the table has entries, although its bound and the order of
\* the entries change under it.
RmdirShrinks ==
  [][rmdir_turn /\ up' => Len(st'.files) < Len(st.files)]_vars

\* No request ends in an assertion or in a read through NULL, so the file
\* system outlives it.
NeverDies == out[3] # "died"

\* While every call is answered in one piece, granted or refused, only the use
\* of a file in a removed directory ends the process: no answer, and nothing
\* that an older answer left in the buffer, makes the parser read NULL.
OnlyStraysKill == ~NeverDies => out[1] = "stray"

-----------------------------------------------------------------------------
(* What a document asks for and the code does not do.                      *)

\* README.md:51, on removing a directory: when hello_rmdir returns, no message
\* of this mount carries the directory's tag.
RmdirClearsTag ==
  [][rmdir_return =>
       \A m \in msgs' : m.mid > epoch => m.tag # sweep.dir]_vars

-----------------------------------------------------------------------------
(* The abstract specification.                                             *)

\* What users see: the paths of the table, with the contents found by id.
Tree ==
  [p \in {st.files[i].path : i \in 1 .. Len(st.files)} |->
     [type |-> Entry(p).type,
      data |-> IF Entry(p).file_id = NoId THEN << >>
               ELSE blobs[Entry(p).file_id]]]

Store == INSTANCE DocumentStore
           WITH on <- up, tree <- Tree, removing <- sweep.dir

\* While every call is answered, the handlers implement the document store:
\* a write is visible whole and at once, reads, sizes and listings are those
\* of the tree, and no step changes the tree besides.
ImplementsStore == Store!Spec
=============================================================================
