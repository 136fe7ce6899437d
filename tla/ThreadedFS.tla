----------------------------- MODULE ThreadedFS -----------------------------
(***************************************************************************)
(* The handlers of main.c call by call, on the worker threads that         *)
(* fuse_main starts unless it is given -s.  A handler that talks to        *)
(* Telegram is split where it calls curl: another thread may run there,    *)
(* while pointers into storage.files and the contents of json_response_buf *)
(* are still to be used.  The other handlers are the actions of TelegramFS.*)
(*                                                                         *)
(* What two requests exclude is what the path locks of libfuse (TreeLock)  *)
(* and the inode locks of the kernel exclude; storage has no lock.  Between*)
(* two curl calls a handler is one step, so the races of single memory     *)
(* accesses are left out; with one thread there are none.                  *)
(***************************************************************************)
EXTENDS TelegramFS

CONSTANT Threads   \* the worker threads of fuse_loop_mt.c

VARIABLES
  run,    \* what each thread is doing
  spare   \* storage.files behind size: the entries that removals left there

threadVars   == <<run, spare>>
threadedVars == <<vars, threadVars>>

\* A request and the local variables of its handler.  slot: the entry that
\* file points to, 0 if it points to copy, a record of the thread's own.
NoRequest ==
  [op |-> "none", path |-> Root, off |-> 0, size |-> 0, bytes |-> << >>,
   at |-> "none", i |-> 0, slot |-> 0, copy |-> tg_file_new_dir(Root),
   was |-> NoId, data |-> << >>, o |-> "answered"]

Asked(op, path) == [NoRequest EXCEPT !.op = op, !.path = path]

Busy(t) == run[t].op # "none"

\* The thread is about to take step at of its handler.
At(t, at) == up /\ Busy(t) /\ run[t].at = at

Memory     == st.files \o spare
Pointee(t) == IF run[t].slot = 0 THEN run[t].copy ELSE Memory[run[t].slot]

-----------------------------------------------------------------------------
(* Locks.                                                                  *)

Prefixes(path, n) == {SubSeq(path, 1, k) : k \in 1 .. n}

\* A request on a name locks the name for writing and what is above it for
\* reading; any other request locks its whole path for reading.
NameOps     == {"unlink", "rmdir"}
Reads(op, path) ==
  Prefixes(path, IF op \in NameOps \cup {"create", "mkdir"}
                 THEN Len(path) - 1 ELSE Len(path))
Writes(op, path) == IF op \in NameOps THEN {path} ELSE {}

TreeLocks == INSTANCE TreeLock WITH
  Nodes <- Paths,
  rd <- [t \in Threads |-> IF Busy(t) THEN Reads(run[t].op, run[t].path) ELSE {}],
  wr <- [t \in Threads |-> IF Busy(t) THEN Writes(run[t].op, run[t].path) ELSE {}]

\* The inodes that the kernel keeps locked during the request: a directory
\* whose names change or are listed, a file that is written.
Inodes(op, path) ==
  CASE op \in {"create", "mkdir", "unlink"} -> {SubSeq(path, 1, Len(path) - 1)}
    [] op = "rmdir"              -> {SubSeq(path, 1, Len(path) - 1), path}
    [] op \in {"write", "readdir"} -> {path}
    [] OTHER                     -> {}

\* Thread t is free and nothing keeps the request from its handler.
May(t, op, path) ==
  /\ up /\ ~Busy(t)
  /\ TreeLocks!Compatible(t, Reads(op, path), Writes(op, path))
  /\ \A s \in Threads \ {t} : Busy(s) =>
       Inodes(op, path) \cap Inodes(run[s].op, run[s].path) = {}

-----------------------------------------------------------------------------
(* What a step does to the threads and to the memory behind the table.     *)

\* A removal leaves the last entry in memory, a push overwrites one.
SpareFollows ==
  LET n == Len(st.files)
      m == Len(st'.files)
  IN  spare' = IF ~up' THEN << >>
               ELSE IF m < n THEN <<st.files[n]>> \o spare
               ELSE IF m > n /\ spare # << >> THEN Tail(spare)
               ELSE spare

\* Pointers into a block that realloc gave back: the mildest outcome is that
\* the freed block keeps its bytes.
Detached(s) ==
  IF run[s].slot = 0 THEN run[s]
  ELSE [run[s] EXCEPT !.slot = 0, !.copy = Pointee(s)]

\* Thread t goes on with r.  A push that grows the table may move it.
Continue(t, r) ==
  IF ~up' THEN run' = [s \in Threads |-> NoRequest]
  ELSE \E moved \in IF st'.cap > st.cap THEN BOOLEAN ELSE {FALSE} :
         run' = [s \in Threads |-> IF s = t THEN r
                                   ELSE IF moved THEN Detached(s) ELSE run[s]]

Step(t, r) == Continue(t, r) /\ SpareFollows

\* The handler returns.
Done(t) == Step(t, NoRequest)

-----------------------------------------------------------------------------
(* Handlers without a call to curl.                                        *)

Simple(t) ==
  /\ \/ \E path \in AllPaths :
          \/ May(t, "getattr", path) /\ hello_getattr(path)
          \/ May(t, "readdir", path) /\ hello_readdir(path)
     \/ \E path \in Paths :
          \/ May(t, "create", path) /\ hello_create(path)
          \/ May(t, "mkdir", path) /\ hello_mkdir(path)
          \/ May(t, "open", path) /\ \E trunc \in BOOLEAN : hello_open(path, trunc)
          \/ May(t, "release", path) /\ release(path)
          \/ May(t, "utimens", path) /\ hello_ignored(path)
          \/ May(t, "unlink", path) /\ unlink_open(path)
     \/ May(t, "stray", Root) /\ (stray_release \/ stray_io)
  /\ Done(t)

-----------------------------------------------------------------------------
(* hello_read and hello_write, with tg_file_load_contents and tg_put_file. *)

\* Up to the memset at the start of tg_file_load_contents.
read_begin(t, path, range) ==
  /\ May(t, "read", path) /\ is_open(path)
  /\ IF Exists(path) /\ Entry(path).file_id # NoId
     THEN /\ json' = EmptyJson
          /\ UNCHANGED <<fsVars, msgs, blobs>>
          /\ Step(t, [Asked("read", path) EXCEPT
                        !.off = range.off, !.size = range.size,
                        !.slot = Find(path), !.at = "getFile"])
     ELSE hello_read(path, range) /\ Done(t)

\* Likewise, or up to the upload.
write_begin(t, path, chunk) ==
  LET isNew == ~Exists(path)
      loads == ~isNew /\ Entry(path).file_size > 0
      new   == tg_file_new_file(path, chunk.off + Len(chunk.data))
  IN
  /\ May(t, "write", path) /\ is_open(path) /\ Len(blobs) < MaxUploads
  /\ IF IsDir(path) THEN hello_write(path, chunk) /\ Done(t)
     ELSE /\ st' = IF isNew THEN tg_storage_push(st, new) ELSE st
          /\ json' = IF loads THEN EmptyJson ELSE json
          /\ UNCHANGED <<up, handles, stray, sweep, out, epoch, msgs, blobs>>
          /\ Step(t, [Asked("write", path) EXCEPT
                        !.off = chunk.off, !.bytes = chunk.data,
                        !.slot = Find(path),
                        !.copy = IF isNew THEN new ELSE @,
                        !.at = IF loads THEN "getFile" ELSE "put"])

getFile(t) ==
  /\ At(t, "getFile")
  /\ UNCHANGED <<fsVars, msgs, blobs>>
  /\ \E o \in Outcomes :
       /\ json' \in GotFile(json, Pointee(t), o)
       /\ Step(t, [run[t] EXCEPT !.o = o, !.at = "load"])

\* The answer is parsed and the document fetched; a read returns its part.
load(t) ==
  /\ At(t, "load")
  /\ UNCHANGED clientVars
  /\ \E src \in Loads(json, run[t].o) :
       IF src.dies
       THEN Gone /\ Reply(run[t].op, run[t].path, "died", 0) /\ Done(t)
       ELSE IF run[t].op = "write"
       THEN /\ UNCHANGED fsVars
            /\ Step(t, [run[t] EXCEPT !.data = src.data, !.at = "put"])
       ELSE /\ IF src.data = << >>
               THEN Reply("read", run[t].path, "ENOENT", << >>)
               ELSE Reply("read", run[t].path, "OK",
                          Slice(src.data, run[t].off, run[t].size))
            /\ UNCHANGED <<up, st, handles, stray, sweep, epoch>>
            /\ Done(t)

\* sendDocument or editMessageMedia, as the entry says now.
put(t) ==
  LET file == Pointee(t)
      data == Inserted(run[t].data, run[t].off, run[t].bytes)
  IN
  /\ At(t, "put")
  /\ UNCHANGED fsVars
  /\ \E o \in Outcomes :
       /\ tg_put_file(json, file, data, o)
       /\ Step(t, [run[t] EXCEPT !.data = data, !.was = file.file_id,
                                 !.o = o, !.at = "record"])

\* Assign to the entry that the thread's pointer denotes.
Assign(t, f) ==
  LET n == Len(st.files)
      k == run[t].slot
  IN  /\ st' = IF k \in 1 .. n THEN [st EXCEPT !.files[k] = f] ELSE st
      /\ spare' = IF k > n THEN [spare EXCEPT ![k - n] = f] ELSE spare

\* The answer is parsed into the entry, and hello_write returns.
record(t) ==
  LET sent == [Pointee(t) EXCEPT !.file_id = run[t].was]
      file == IF check_ok_status_in_json(json) THEN PutRecord(json, sent)
              ELSE Pointee(t)
  IN
  /\ At(t, "record")
  /\ UNCHANGED clientVars
  /\ IF PutAborts(json, sent, run[t].o)
     THEN Gone /\ Reply("write", run[t].path, "died", 0) /\ Done(t)
     ELSE /\ Assign(t, [file EXCEPT !.file_size = Len(run[t].data)])
          /\ Reply("write", run[t].path, "OK", Len(run[t].bytes))
          /\ UNCHANGED <<up, handles, stray, sweep, epoch>>
          /\ Continue(t, NoRequest)

-----------------------------------------------------------------------------
(* hello_unlink and hello_rmdir, with tg_remove_message_with_file.         *)

unlink_begin(t, path) ==
  /\ May(t, "unlink", path) /\ Walk(path) /\ IsFile(path) /\ ~is_open(path)
  /\ st' = tg_storage_remove_by_path(st, path)
  /\ UNCHANGED <<up, handles, stray, sweep, out, epoch, clientVars>>
  /\ Step(t, [Asked("unlink", path) EXCEPT !.copy = RemovedEntry(path),
                                           !.at = "deleteMessage"])

rmdir_begin(t, path) ==
  /\ May(t, "rmdir", path) /\ Walk(path) /\ IsDir(path)
  /\ UNCHANGED vars
  /\ Step(t, [Asked("rmdir", path) EXCEPT !.i = 1, !.at = "scan"])

scan(t) ==
  LET dir   == run[t].path
      found == tg_storage_find_files_by_dir(st, dir, run[t].i)
  IN
  /\ At(t, "scan")
  /\ UNCHANGED clientVars
  /\ IF found # 0
     THEN /\ UNCHANGED fsVars
          /\ Step(t, [run[t] EXCEPT
                        !.i = found, !.slot = found,
                        !.at = IF st.files[found].file_size > 0
                               THEN "deleteMessage" ELSE "drop"])
     ELSE /\ st' = tg_storage_remove_by_path(st, dir)
          /\ handles' = {h \in handles : ~Under(dir, h)}
          /\ stray' = (stray \/ \E h \in handles : Under(dir, h))
          /\ Reply("rmdir", dir, "OK", 0)
          /\ UNCHANGED <<up, sweep, epoch>>
          /\ Done(t)

deleteMessage(t) ==
  /\ At(t, "deleteMessage")
  /\ UNCHANGED fsVars
  /\ \E o \in Outcomes :
       /\ tg_remove_message_with_file(Pointee(t), o)
       /\ Step(t, [run[t] EXCEPT !.o = o, !.at = "check"])

check(t) ==
  /\ At(t, "check")
  /\ UNCHANGED clientVars
  /\ IF RemoveAborts(json, run[t].o)
     THEN Gone /\ Reply(run[t].op, run[t].path, "died", 0) /\ Done(t)
     ELSE IF run[t].op = "unlink"
     THEN /\ Reply("unlink", run[t].path, "OK", 0)
          /\ UNCHANGED <<up, st, handles, stray, sweep, epoch>>
          /\ Done(t)
     ELSE UNCHANGED fsVars /\ Step(t, [run[t] EXCEPT !.at = "drop"])

\* Mutant: the search goes on where it found the entry.
Onward(i) == i

\* Where the search goes on.
After(i) == i + 1

\* The entry is looked up again by the path that the pointer now leads to.
drop(t) ==
  /\ At(t, "drop")
  /\ st' = tg_storage_remove_by_path(st, Pointee(t).path)
  /\ UNCHANGED <<up, handles, stray, sweep, out, epoch, clientVars>>
  /\ Step(t, [run[t] EXCEPT !.i = After(@), !.slot = 0, !.at = "scan"])

-----------------------------------------------------------------------------
ThreadedInit ==
  /\ Init
  /\ run = [t \in Threads |-> NoRequest]
  /\ spare = << >>

Idle == \A t \in Threads : ~Busy(t)

\* The steps of a handler that has begun.
Serve(t) ==
  \/ getFile(t)
  \/ load(t)
  \/ put(t)
  \/ record(t)
  \/ scan(t)
  \/ deleteMessage(t)
  \/ check(t)
  \/ drop(t)

Begin(t) ==
  \/ Simple(t)
  \/ \E path \in Paths :
       \/ \E range \in Ranges : read_begin(t, path, range)
       \/ \E chunk \in Chunks : write_begin(t, path, chunk)
       \/ unlink_begin(t, path)
       \/ rmdir_begin(t, path)

ThreadedNext ==
  \/ Idle /\ (Mount \/ hello_destroy) /\ spare' = << >> /\ UNCHANGED run
  \/ \E t \in Threads : Begin(t) \/ Serve(t)

\* A thread that serves a request keeps running, and its curl calls return.
ThreadedFairness == \A t \in Threads : WF_threadedVars(Serve(t))

ThreadedSpec ==
  ThreadedInit /\ [][ThreadedNext]_threadedVars /\ ThreadedFairness

-----------------------------------------------------------------------------
(* Properties.                                                             *)

\* fuse.h:1145, on several threads: that handlers are thread-safe.  A write
\* that succeeds leaves the file's entry with the document that holds its
\* bytes, whatever other threads did to the table during the upload.
WriteRecorded ==
  [][\A t \in Threads, p \in Paths :
       record(t) /\ run[t].path = p /\ out'[3] = "OK" =>
         LET fid == Entry(p)'.file_id IN
         /\ Exists(p)' /\ fid # NoId
         /\ Slice(blobs'[fid], run[t].off, Len(run[t].bytes)) = run[t].bytes
    ]_threadedVars
=============================================================================
