# TelegramFS: specification and proofs

The repository is a FUSE file system that keeps each file as a document in a
Telegram channel.  This directory holds TLA+ modules for it, the TLC
configurations that check them on small instances, and TLAPS proofs of the
results that hold for every instance.

The program's own code is `main.c`, `src/tg_storage.c`, `src/tg_file.c`,
`src/buffer.c`, `src/tg_config.c` and the headers in `include/`.
`curl-8.13.0` and `fuse-3.17.2` are vendored.  There are no tests; the
requirements are in the repository's `README.md`.

## Inventory

| Component | State | Operations | Correct if |
|---|---|---|---|
| FUSE handlers, `main.c` | the global `storage`; the open files libfuse keeps | `hello_init`, `_destroy`, `_getattr`, `_readdir`, `_create`, `_mkdir`, `_open`, `_read`, `_write`, `_unlink`, `_rmdir`, `_setxattr`, `_utimens` | each request affects the file it names and no other, and its answer is true of the tree |
| File table, `tg_storage.c` | a growable array of `tg_file`, `size`, `cap` | new, free, push, pop, find by path, find by directory, remove by path | one entry per path, `/` first, no access behind the allocation |
| Bot API client, `tg_file.c` | the static `json_response_buf`; `file_id`, `message_id`, `file_size` of a record | `tg_put_file` (`sendDocument`, `editMessageMedia`), `tg_file_load_contents` (`getFile` and a download), `tg_remove_message_with_file` (`deleteMessage`) | ids taken from an answer are those of the request just made |
| JSON helpers, `buffer.c` | none | `check_ok_status_in_json`, `parse_response_field_from_json` | a field is found, or its absence noticed |
| Growable buffer, `buffer.c` | `ptr`, `size`, `capacity` | new, free, push, append, insert | no copy leaves the block, no byte changes that should not |
| Path locks of libfuse, `lib/fuse.c` | a lock word per node, a queue of waiting threads | `get_path_common`, `free_path_wrlock`, `wake_up_queued` | handlers of conflicting requests do not overlap, nobody waits for ever |
| Nodes of libfuse, `lib/fuse.c` | nodes with parent, name, lookup, reference and open counts | lookup, create, open, release, remove, forget | an id that the kernel may use is in the table, and no other for ever |
| Worker threads of libfuse, `lib/fuse_loop_mt.c` | the list of workers, two counters, a semaphore | `fuse_do_work`, `fuse_session_loop_mt` | somebody reads the next request; the loop ends when it should |
| Channel | messages with document and caption | the four API calls | external; modelled from its use |
| Configuration, `tg_config.c` | token and chat id | set once at start | no behaviour; not modelled |

Interaction.  The kernel and libfuse turn system calls into handler calls,
which a worker thread makes between taking the locks of a path and giving them
back; with `-s` there is one such thread and no pool.  A
handler looks up the table, downloads the old contents into a buffer, patches
it with `buffer_insert`, uploads the whole document and copies the ids in the
answer into the entry.  The answer reaches the handler through
`json_response_buf`, which every call shares and only `getFile` clears.
The table is the only record of which message is which file; it is never
saved.

What is hard here:

* the table is reordered by each removal, while `hello_rmdir` is scanning it;
* the response buffer keeps earlier answers, whole or in part, and an upload
  whose transfer failed is parsed as if it had succeeded, with whatever part of
  the answer had come;
* an answer may arrive in pieces, each of which is copied over the one before;
* an upload, a deletion or a download may be refused, may fail before or after
  Telegram has acted, or may break off half-way; a handler checks few of these;
* the process may die inside a request, and the channel outlives it;
* a file may be open while it, or a directory above it, is removed;
* without `-s`, handlers overlap, and each keeps a pointer into the table
  during its curl calls;
* below them, libfuse hands out path locks without a queue discipline, counts
  lookups that the kernel may or may not take, and stops its threads through a
  flag, a semaphore and cancellation at once.

PROJECT.json lists these as hazards, each at its line.

## Modules

| Module | Models |
|---|---|
| `ByteStrings` | contents: sequences of bytes or `Junk`; insertion and slices |
| `TgFile` | the `tg_file` record, its two constructors, file name and directory of a path |
| `TgStorage` | the file table and its operations, as operators on a record |
| `TgClient` | response buffer, JSON helpers, the client's calls, the channel |
| `TelegramFS` | composition of the two: handlers as actions, properties |
| `DocumentStore` | abstract specification: a tree of directories and documents |
| `ThreadedFS` | the handlers of `TelegramFS` split at their curl calls, on several threads |
| `OneThread` | `ThreadedFS` with the history that maps it to `TelegramFS` |
| `FileTable` | the file table with its heap block |
| `FileList` | abstract specification: the sequence operations of `TgStorage` |
| `Buffer` | the growable buffer with its heap block |
| `ByteString` | abstract specification: a string |
| `PathLocks` | libfuse's path locks: lock words, queue, wake-ups |
| `TreeLock` | abstract specification: shared and exclusive locks on nodes |
| `NodeTable` | libfuse's nodes: lookups, references, forgets |
| `WorkerPool` | libfuse's worker threads and the end of its loop |
| `MCTelegramFS`, `MCThreadedFS`, `MCOneThread`, `MCFileTable`, `MCBuffer`, `MCPathLocks` | values of the constants for TLC |
| `DataTheorems` | lemmas on contents and on the table's operations |
| `TelegramFSProofs` | the client's calls; invariance of what the process keeps; what each step does to table and channel |
| `ChannelProofs` | on top of it: table and channel together, refinement of `DocumentStore` |
| `FileTableProofs`, `BufferProofs`, `PathLocksProofs`, `NodeTableProofs`, `WorkerPoolProofs` | invariance and refinement proofs of these modules |

An operator defined before the definition it imitates, under a comment that
starts with "Mutant", is a deliberate error.  No specification uses it; it
exists to show that the property it breaks depends on the code.

The refinements fit together:

    WorkerPool                          which threads there are
    PathLocks  implements TreeLock      what two requests exclude
                             |  used by NodeTable and ThreadedFS
    ThreadedFS, one thread,
      (OneThread)  implements TelegramFS  implements DocumentStore
                                 |  uses TgStorage and ByteStrings
    FileTable  implements FileList (TgStorage);  Buffer implements ByteString

### State of TelegramFS

`up` process running; `st` the table (`files`, `cap`); `handles` open paths,
kept by libfuse; `stray` whether some open file lies in a directory that was
removed; `sweep` the `hello_rmdir` under way, its directory and the
position its search continues at; `out` operation, path, error and value of the
last answer; `epoch` the number of documents sent before this mount (a history
variable, so that properties can speak of the messages of this mount); `msgs`,
`blobs` the channel; `json` the response buffer.

### Actions and code

A handler is one action, from its first lookup to its return: one thread
serves all requests (`run.txt` mounts with `-s`) and nobody else reads the
table.  `OneThread` checks that nothing is lost by this.
`hello_rmdir` is three: the check, one action per turn of its loop,
and the return, because the loop's progress is in question.  `hello_write`
contains the download of the old contents, the insertion, the upload and the
update of the entry.  A curl call inside an action has one of five outcomes:
answered, `refused` (`"ok":false`), `lost` (curl fails, Telegram has not
acted), `late` (curl fails after Telegram has acted) and `split` (the answer
comes in two pieces, of which the writer keeps the second at the start of the
buffer).  When curl fails, nothing of the answer may have come, or a part that
breaks off anywhere, or all of it.  `Faults` says which may happen.

What libfuse and the kernel guarantee is in the guards.  A path is walked with
`getattr`; `create` and `mkdir` come only for a name not found; `read` and
`write` only for an open file; `unlink` of an open file becomes a rename, for
which there is no handler (`unlink_open`); a removed directory's nodes are
forgotten.  A file that was open below it has no path any more:
it can be closed (`stray_release`), but libfuse calls `hello_read` and
`hello_write` with a null path for it, which the table's search compares
(`stray_io`).  `hello_destroy` may come while files are open, since a signal
ends the loop as an unmount does.  Error branches that these guards exclude are omitted and listed
at the head of the module.  The branches of `hello_write` for a missing entry
and for a directory are excluded only by an invariant, and are therefore
modelled; the proof of `HandlesBacked` shows that they are dead.

### Threads

`ThreadedFS` keeps the simple handlers as they are and splits the others at
their curl calls.  A thread's `run` record holds the local variables of its
handler: where it is, the slot its entry pointer denotes, the record it owns
instead (`hello_unlink` has a copy, `hello_write` may have a new record), the
data and the outcome of the last call.  A pointer is a slot number, so
a removal that swaps another entry into the slot, or shortens the table past
it (`spare`, the records that stay in memory behind `size`), is seen through
it.  A push that grows the table may move it; pointers into the old block then
lead to a copy that nobody else sees, the mildest thing the freed memory can
do.  Races of single accesses between two curl calls are left out; they add
to what can go wrong and to nothing that is shown to hold.

Two requests exclude each other as `TreeLock` and the inode locks of the kernel
say: two removals in one directory never overlap, two writes to one file
neither, but a write and the removal of another file do.

### libfuse

`PathLocks` has one action for each section under `f->lock`:
`get_path_common` (try, or queue), the walk over the queue after a release,
one element at a time, because the thread that wakes up takes the lock only
afterwards, the removal of a node and the release.  A lock word is the integer
of the code, with `TREELOCK_WRITE` and `TREELOCK_WAIT_OFFSET` as there.

`NodeTable` takes path locks as `TreeLock` describes them and adds what is in
the node: `lookup`, `create`, `open`, `release`, the removal of a name, and
`forget`, each split where `f->lock` is given up.  A create whose
handler made something other than a regular file forgets the node again
(`not_regular`).  That the victim of a removal is not open is checked in the
step that removes it; the kernel's lock on the directory keeps the two
together.  The kernel is external: its
lookup counts (`known`), its open files (`opened`) and the bag of forgets on
their way.
It names a node only while it holds the directories above it, and may forget an
inode as soon as nothing it knows of uses it, which may be before the thread
that answered has released its locks.  After `not_regular`, too, it may drop
the directory before the thread is done, which is more than it does.

`WorkerPool` has the steps of `fuse_do_work` and of the main thread, with the
test of `se->exited` and `sem_wait` apart, so that a signal may come between.

### Abstractions

* Paths are sequences of names.  `tg_file_extract_directory` yields the first
  component at any depth, as the code does; the name fields (100 bytes) are
  assumed long enough.
* The response buffer is three cells, each holding the one field whose text
  lies there.  `sendDocument` and `editMessageMedia` answers put `ok`,
  `message_id`, `file_id` there in this order.  The short answers end inside
  the second cell: `{"ok":true,"result":true}` is 25 bytes long and
  `"message_id"` of a longer answer starts at byte 22, so the old key is
  spoiled and the old `file_id` behind it survives.  A refusal is longer
  still and is treated alike.  `tg_file_load_contents` clears the buffer first.
  A split answer is cut behind its first cell.
* An answer that breaks off does so in one of its cells.  That cell then holds
  the old text, the new, or something between: over a cleared buffer the new
  key with a value that has no end (`Unended`), which the parser does not copy
  (`buffer.c:63`, `buffer.c:75`); over another field a key that nobody finds.
  A cut between two digits of an id, over an older id, would mix the two; the
  model takes one or the other.  `DocumentsHaveMessages` and
  `MessageStaysKnown` only tell an empty id from another, so for them this is
  the same; `EarlierMountsKept` is about ids that are not mixed.
* `Junk` stands for a byte nobody wrote, and for the body of an error page.
* Message and document ids come from one counter and are never reused; 0 is
  the empty field.  Telegram shows the same message under one id for ever.
* `editMessageMedia` replaces document and caption.
* Allocation succeeds.  Sizes are mathematical integers in `Buffer` and
  `FileTable`: every sum is of an allocated length and an `off_t`, below 2^64.

## Runs

| Run | Shows |
|---|---|
| `faulty_network` | under all faults: `TypeOK`, `StorageSound`, `HandlesBacked`, `FilesIndependent`; `DocumentsHaveMessages` and `MessageStaysKnown`: however the answers broke off, an edit finds a message to name; and `EarlierMountsKept`: whatever the process forgot in a crash, it does not damage what it uploaded before |
| `answered` | without faults: `ChannelMatchesTable`; the handlers implement `DocumentStore` |
| `refusals` | with refused calls and three files in a directory: `NoSharedMessage`, `MessagesIndependent`; `WriteAllOrNothing`: a refused write, though reported as done, leaves the old contents reachable; `OnlyStraysKill`: no refusal kills the process; `RmdirShrinks`: each turn of the loop of `hello_rmdir` takes an entry out, so the loop ends |
| `one_thread` | `HandlersAtomic`: on one thread, under all faults, the handlers call by call implement `TelegramFS`, fairness included |
| `file_table` | `RecordsInBlock`; the array implements `FileList` |
| `buffer` | `InsideBlock`, `TailUnwritten`; the buffer implements `ByteString` |
| `path_locks` | `TypeOK`: the walk over the queue never stands at an element that has left it; `LockWords`, `ChainsIntact`, `NoMissedWakeup`, `Served`; the locks implement `TreeLock` |
| `node_table` | `NodesThere`, `RefCounts`, `LookupsBalance`, `NamesUnique`, `ForgetsEnd` |
| `worker_pool` | `PoolCounts`, `JoinsOwn`, `SomeoneReads`, `UnmountEnds`; `SignalEnds`: a signal that some worker is still to see ends the loop |

The following runs end in a counterexample: the code does not do what a
document says of it.

| Run | Property | Shows |
|---|---|---|
| `rmdir_leaves_files` | `RmdirClearsTag` | removal moves the last entry to the slot just scanned; of two files one survives, with its message |
| `split_answer_kills` | `NeverDies` | the second piece of an answer overwrites the first, the parser finds no `ok` and reads through NULL |
| `threads_lose_write` | `WriteRecorded` | without `-s`, a write records its ids in a slot that meanwhile belongs to another file, or to nobody |

`DocumentStore` describes what is left of the promise: `rmdir` discards some
of what is below, and the tree lasts as long as the mount.  Whether an open with
`O_TRUNC` empties the file is left open: the code does not, a document says that
it should, and the store is implemented by either.

Other places where the models do what the code does and a document says
otherwise, without a run of their own:

* A write to a file that has a message edits it in place (`tg_file.c:142`);
  the repository's `README.md:47` asks for a new message and then a deletion.
  `MessageStaysKnown` allows both.
* A `sendDocument` that fails in curl is parsed like an answer
  (`tg_file.c:123`): with an old answer in the buffer the file takes the ids
  of another file's message, with a part of its own answer perhaps a
  `message_id` and no `file_id`, and with none the process dies.  The next
  write of a file that has no `file_id` sends a second message.  A failed
  `editMessageMedia` is an assertion (`tg_file.c:150`).  `NoSharedMessage`,
  `MessagesIndependent` and `OnlyStraysKill` are therefore checked with
  refusals as the only fault.
* Two threads that upload at once both parse the answer that arrived last
  (`tg_file.c:131`).
* A refused upload is reported as a complete write (`main.c:245`).
* `O_TRUNC` is accepted and has no effect (`main.c:152`), although by
  `fuse-3.17.2/include/fuse_common.h:196-200` the kernel leaves truncation to
  the file system.
* After a remount no earlier message belongs to a file (`main.c:318`).
* Reading or writing a file in a removed directory kills the process
  (`main.c:171`).
* A signal between the main thread's test and its `sem_wait` is noticed only
  with the next request (`fuse_loop_mt.c:403`); `SignalEnds` states what is
  left.

### Bounds

`TelegramFS`.  A directory with two files (`PathsOneDir`) is the least in which
a removal reorders entries of one directory; with `/` and the directory itself
the table has four entries, which passes its initial capacity of 2.
`MaxUploads` bounds the documents sent: two suffice for an overwrite and for
two files with contents, so that an answer can be taken for another file's.
Chunks of one byte at offsets 0 and 2 give overwrite, extension
and a gap; the two ranges read inside and across the end.  A mount may end and
start again any number of times.  `MkdirDepth` is 1 in the runs;
of the proofs only that of the refinement has this bound.  Symmetry exchanges the names `a` and `b`, whose
paths appear only as equals in `PathsOneDir`; it is used for safety only.
`refusals` has three files in the directory (`PathsThreeDir`, symmetric in all
three), because of two the loop of `hello_rmdir` skips one: only with three does
it take a second turn, over a table that the first has shortened and
reordered.
`faulty_network` and `refusals` have a view without `out`: no action reads it,
and what the runs check reads only the answer that the step at hand gives.
`OnlyStraysKill` reads more, and is itself part of the view of `refusals`.

`OneThread` has a directory with one file, two uploads and all faults, enough
for every branch of every handler; its view omits the reply and the records
behind the table, which with one thread no action reads.  `ThreadsLoseWrite` has a file in a directory and one beside it.

`FileTable`: six entries double the block twice and halve it again.  `Buffer`:
an initial capacity of 2 and contents up to 6 make every operation meet a
roomy, an exactly full and a freed block; the code's 100 differs in nothing the
operations test.

`PathLocks`: a directory, a name in it and three threads, so that a holder, a
waiting writer and an overtaking reader meet, on one node or one above the
other.  `NodeTable`: two threads, ids
up to 3 (a directory and a node below it, and ids that are used again), one
name, one lookup the kernel counts besides those on their way, one open file
per node, two forgets.  `WorkerPool`: three workers, of which at most one idle,
so that the limits of both kinds are met.

Deadlock is checked everywhere but in `WorkerPool`, which stops when the loop
has returned.

### Fairness

* `TelegramFS`, `ThreadedFS`: weak fairness of the steps of a request that has
  begun: the thread keeps running and each of its curl calls returns.  The
  code sets no timeout, so the second half is an assumption on the peer.  It is
  used in `HandlersAtomic` only; that the loop of `hello_rmdir` ends is the
  safety property `RmdirShrinks`.
* `PathLocks`: weak fairness of the walk over the queue; strong fairness for a
  thread that has been woken and wants `f->lock`, or wants it for its release:
  a mutex that others take again and again, and always give back, is obtained
  in the end.  Handlers return.
* `NodeTable`: weak fairness of a thread that has a request.
* `WorkerPool`: weak fairness of the main thread and of workers, except where
  they read from the kernel: a read returns when the connection is gone or the
  thread is cancelled, and otherwise owes nothing.

Users, signals, the unmount and the kernel owe nothing: no request, no signal
and no forget need ever come.

## Proofs

Assumptions, all named and evaluated by TLC: `PathsAssumption` (paths are
non-empty sequences of names), `FaultsAssumption`, `ChunksAssumption` (a write
has at least one byte), `RangesAssumption`, `BoundsAssumption`,
`EntriesAssumption`, `CapacityAssumption`, `CallersAssumption`, that `Junk`
is not a byte, `NodesAssumption` (the nodes of a tree come with those above
them), `ThreadsAssumption` (fewer than `INT_MAX` threads, so that no reader
count reaches the marks of a lock word), `NodeAssumption` (finitely many
threads, and an id besides the root's) and `PoolAssumption` (finitely many
worker ids, limits as the options allow them).

The theorems of `TelegramFSProofs` and `EarlierMountsStayKept` hold for all
faults; four of `ChannelProofs` need that a call is answered in one piece
(`Whole`: `Faults` within `{"refused"}`), two that it is granted
(`Faults = {}`).  The hypotheses are needed: `split_answer_kills` and the list
of divergences above show what happens without them.

### TelegramFSProofs

It proves `[]IInv` with

    IInv == TableInv /\ ProcessInv /\ ClientOK /\ HandlesBacked

None of the properties is inductive alone.

* `FitsCapacity` needs the type of the table; `UniquePaths` needs the guard of
  `hello_create` and that the first match of a search is the match.
* `RootFirst` needs `UniquePaths` (a removal of another path cannot be at
  position 1) and that `hello_rmdir` never sweeps `/`.
* `HandlesBacked` needs that a turn of the sweep removes only entries below
  its directory, and that the table and the handles are empty when the process
  is down.
* `DocumentsHaveMessages` is about ids that are parsed from a buffer of mixed
  age, in which the last answer may have broken off.  The strengthening,
  `Legible` in `ClientOK`, says that nothing lies behind a value without an
  end, and that `message_id` comes before `file_id`.  So a first upload
  that finds a `file_id` finds a `message_id` with a value before it, and sets
  both, `message_id` alone, or neither; an edit only ever touches `file_id`.  An answer
  that is split shifts the cells, one that breaks off leaves a part of them, and
  each keeps this.

`FilesIndependent`, `MessageStaysKnown` and `RmdirShrinks` follow, one step per
action; the last is theorem `RmdirTurnsEnd`.  The key
lemmas are in `DataTheorems`: after a push, and after the removal that
swaps in the last entry, every other path finds the entry it found before.

The last part classifies the steps for `Whole`.  Whatever the handler, a step
restarts the mount, ends it, only looks, adds an entry, drops one (with or
without its message), or writes a file (`Restarted`, `Ended`, `Looked`,
`Added`, `Dropped`, `Wrote`; lemma `NextEffect`).  The proofs about the channel
go over these six, not over the handlers.

### ChannelProofs

`EarlierMountsKept` follows from `IInv` and

    LaterInv == epoch <= Len(blobs), and while the process is up, every message
                id in the table is above epoch, and every one in the response
                buffer is above epoch or without an end

which a mount establishes because it starts without answers, and which each
call keeps however its answer came: what it writes over the buffer, whole, in
two pieces or in part, names either a new message or the one the request
named.  An edit or
a deletion goes by an id of the table, so it misses older messages.

`NoSharedMessage` follows from `IdInv`: no two entries have one message, and
every message id in the table was drawn from the counter.  A refused upload
leaves the record as it was, since the parser stops at `"ok":false`; a granted
one brings an id that is the counter's newest.  `MessagesIndependent` rests on
it.  `OnlyStraysKill` and `WriteAllOrNothing` need what the client's lemmas say
of an answer in one piece: all three cells are then of this answer, or it is a
refusal.

`ChannelMatchesTable` follows from

    MatchInv == Channel(msgs, blobs)           ids of messages are theirs alone
                /\ (up => Agree(Entries(st), msgs, blobs, epoch))
                /\ SweepsDir

where `Agree` says that an entry with bytes has a message with its document,
size and tag, that any other entry has no ids, and that a message of this mount
has an entry.  It is not inductive without `IdInv`: two entries with one message
would lose it together.  `SweepsDir` is needed at the end of `hello_rmdir`,
which deletes an entry without looking at its type or its message.

`HandlersRefine` maps the entries of the table, with their documents, to the tree
of `DocumentStore`.  A push, an assignment and the removal by swapping become a
node more, a node with other contents and a node less (`TreeStep`), and
`MatchInv` makes the bytes that `hello_read` and `hello_write` download those of
the node.  A turn of `hello_rmdir` needs care: that which it removes lies below
its directory, and what it leaves is covered by "some of what is below".
`MkdirDepth <= 1` is a hypothesis because the statement is false without it.
The tag of an entry is the first name of its path, so with directories in
directories `hello_readdir` of `/d` also lists what is in `/d/a`; TLC shows
this with `MkdirDepth = 2`.  `ShapeInv` keeps the table that shallow.

### FileTableProofs and BufferProofs

`FileTableProofs` proves that size, capacity and block stay in step
(`RecordsInBlock`), and from this that growing, shrinking, popping and the
removal by swapping are the operations on sequences that `TgStorage` has and
`TelegramFSProofs` reasons about.

`BufferProofs` proves `InsideBlock` and `TailUnwritten` inductive together and
then, from the first, that each operation maps to one of `ByteString`'s:
after growing and copying, the first `size` bytes are what `Inserted` or
concatenation gives.  `TelegramFS` uses `Inserted` on the strength of this.

### PathLocksProofs

    IInv == TypeOK /\ QueueOK /\ NamesLocked /\ WordsOK /\ ChainsIntact /\ Walked

* `WordsOK` is `LockWords` with the sets of readers and writers as
  arguments.  To keep it, a release must find the words it raised, hence
  `ChainsIntact`; a name is removed only by the thread that has it locked for
  writing, which `NamesLocked` says, so no chain with readers passes through it.
* `Walked` is what `NoMissedWakeup` needs: what the walk over the queue has
  passed must still wait, as long as no removal is on its way to its release.
  A grant in the course of the walk only raises words, so what had to wait still
  has to; `QueueOK` (each waiting thread is queued once) keeps the walk's
  position meaningful when an element before it is dequeued.

The refinement of `TreeLock` follows: a granted request, by its own thread or by
a walk, finds every word of its chain free of writers and its name free of
everybody.

### NodeTableProofs

    IInv == TypesOK /\ TableOK /\ Balanced /\ LockedLive /\ PinnedKnown
            /\ ParentsOK /\ NamesUnique

The four invariants need each other.

* `TableOK` is `RefCounts`, and that parents are in the table.  The
  cascade of `unref_node` is the hard part: it follows a function from steps to
  nodes, and that no node comes twice, so that each loses one reference, is a
  consequence of the counts themselves: a node on the way has one reference,
  which is its one child's (`DiesShape`, `DiesOnce`).  `Unref` then says for any
  table with one reference too many at `x` that the result is counted right,
  and `Forgets` and `Unhash` that forgetting and removing a name are such cases.
* `Balanced` is `LookupsBalance` for all ids: an id that is free has no lookups
  anywhere, so one that is used again starts from none, and the root keeps one
  more than anybody can forget.  The sum over threads and forgets is the size
  of a set with one element per lookup, which needs no recursion; forgets are a
  bag because the kernel may send two equal ones.
* `LockedLive` and `PinnedKnown` are why `NodesThere` holds although a thread has
  only a number: a locked node has lookups, and `forget_node` waits where it
  would take the last of them; a request that is not answered yet, and an open
  file, keep the kernel from dropping what they lie below.  Between its answer
  and `free_path`, a create or an open has nothing but its locks.
* `ParentsOK` says that a create's node is still below its directory, or has
  lost its name, when the kernel takes the answer and opens the file; and that
  a victim still has its name when `remove_node` takes it, because the write lock
  keeps other removals away.  `unhash_name` of a node without a parent would
  otherwise go wrong.

Each action is shown to be a step that keeps the accounts, the locks, what is
pinned and the names; `StepKeeps` concludes.  What the kernel does is part of
the model, so the theorems rest on it: it names no node below a directory it has
dropped, and forgets no more than it has counted.

### WorkerPoolProofs

    IInv == PoolTypes /\ ListOK /\ EndOK /\ CountsOK /\ SpareOK

`ListOK` says that the list holds each running thread once, so that taking one
out leaves the others; `CountsOK` that the counters agree with it while the main
thread has not begun to join, when workers stop counting.  `EndOK` orders the
end: nobody is cancelled or joined before `exit` is set, after which no worker
removes itself, which is `JoinsOwn`.  `SpareOK` counts: below the limit, one
worker more than are busy.  It needs `MaxIdle # 0`: with
`-o max_idle_threads=0` a worker that has served may drop itself while all
others are busy, and nobody reads until one of them is done.

### Model-checked only

Liveness is beyond the prover: `Served`, `ForgetsEnd`,
`UnmountEnds`, `SignalEnds`, and the fairness of `HandlersAtomic`.  Not yet
proved: the safety of `HandlersAtomic`.

## Not modelled

* libcurl, 170,000 lines of protocols, TLS backends and a command-line tool.
  The program makes four kinds of HTTPS requests through its easy interface,
  and what it can see of them is the outcome of a call and the pieces handed to
  the writer.  Modelling more of it would say nothing about this program.
* Most of libfuse: decoding of requests, mounting, options, modules, the
  helpers for building paths, the chains and resizing of its hash tables,
  `remember` and `noforget`, operations that `hello_oper` does not have.  What
  decides when a handler runs, and with what, is modelled.
* Races between single memory accesses of two handlers.
* An answer longer than the 1024 bytes of `json_response_buf`, and names
  longer than the fields of `tg_file`.
* Modes, times and owners in `hello_getattr`: constants in the code.
* Configuration, command line, logging, building of URLs and forms.

Because the two libraries are vendored, they are nearly all of the source lines
in the repository, and the modules cover a small share of those; of the
program's own files they cover every function that has behaviour.

## Plan

What is left is to prove the safety of what is only model-checked: that
`OneThread` implements `TelegramFS`, one handler after the other, each from the
sequence of its curl calls.
