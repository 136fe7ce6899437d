--------------------------- MODULE DocumentStore ----------------------------
(***************************************************************************)
(* What the mounted file system promises its users while Telegram answers: *)
(* a tree of directories and files with contents, in which each request    *)
(* takes effect at once and its answer tells the truth about the tree.     *)
(* Nothing is said of messages, ids or the file table.                     *)
(*                                                                         *)
(* The promise is weak where the code or its documents leave a choice:     *)
(* rmdir discards some of the files below the directory, not certainly all *)
(* of them; the tree lasts only as long as the mount; an open with O_TRUNC *)
(* may empty the file or not; and using a file that was open when its      *)
(* directory was removed may end the mount.                                *)
(***************************************************************************)
EXTENDS TgFile

CONSTANTS Chunks, Ranges

VARIABLES
  on,        \* mounted
  tree,      \* path |-> [type, data]
  removing,  \* the directory whose rmdir is under way, Root if none
  stray,     \* some open file lies in a removed directory
  out        \* the answer to the last request

vars == <<on, tree, removing, stray, out>>

Directory  == [type |-> TG_DIR, data |-> << >>]
Document(s) == [type |-> TG_FILE, data |-> s]

Present(path)     == path \in DOMAIN tree
IsDocument(path)  == Present(path) /\ tree[path].type = TG_FILE
IsDirectory(path) == Present(path) /\ tree[path].type = TG_DIR
Parent(path)      == SubSeq(path, 1, Len(path) - 1)
Below(dir, path)  == Len(dir) < Len(path) /\ SubSeq(path, 1, Len(dir)) = dir

With(path, node) ==
  [p \in DOMAIN tree \cup {path} |-> IF p = path THEN node ELSE tree[p]]
Without(path) == [p \in DOMAIN tree \ {path} |-> tree[p]]

Idle == on /\ removing = Root

Answer(op, path, error, value) == out' = <<op, path, error, value>>

Start ==
  /\ ~on /\ on'
  /\ tree' = [p \in {Root} |-> Directory]
  /\ Answer("mount", Root, "OK", 0)
  /\ UNCHANGED <<removing, stray>>

Stop ==
  /\ Idle /\ ~on' /\ ~stray'
  /\ tree' = [p \in {} |-> Directory]
  /\ Answer("destroy", Root, "OK", 0)
  /\ UNCHANGED removing

\* The mount ends under a user of a file whose directory is gone.
Crash ==
  /\ Idle /\ stray /\ ~on' /\ ~stray'
  /\ tree' = [p \in {} |-> Directory]
  /\ Answer("stray", Root, "died", 0)
  /\ UNCHANGED removing

\* create and mkdir add a name that was free, in a directory that is there.
Make(op, path, node) ==
  /\ Idle /\ ~Present(path) /\ IsDirectory(Parent(path))
  /\ tree' = With(path, node)
  /\ Answer(op, path, "OK", 0)
  /\ UNCHANGED <<on, removing, stray>>

Unlink(path) ==
  /\ Idle /\ IsDocument(path)
  /\ tree' = Without(path)
  /\ Answer("unlink", path, "OK", 0)
  /\ UNCHANGED <<on, removing, stray>>

\* new is old with the chunk in place; a gap before the chunk may hold
\* anything.
Patched(old, chunk, new) ==
  LET last == chunk.off + Len(chunk.data) IN
  /\ Len(new) = Larger(Len(old), last)
  /\ \A k \in 1 .. Len(chunk.data) : new[chunk.off + k] = chunk.data[k]
  /\ \A k \in 1 .. Len(old) : k \notin chunk.off + 1 .. last => new[k] = old[k]

Write(path, chunk) ==
  /\ Idle /\ IsDocument(path)
  /\ path \in DOMAIN tree'
  /\ Patched(tree[path].data, chunk, tree'[path].data)
  /\ tree' = With(path, Document(tree'[path].data))
  /\ Answer("write", path, "OK", Len(chunk.data))
  /\ UNCHANGED <<on, removing, stray>>

\* A read returns the written bytes of the range, as many as there are.
Read(path, range) ==
  /\ Idle /\ IsDocument(path)
  /\ LET data == tree[path].data
         n    == {k \in 1 .. range.size : range.off + k <= Len(data)}
     IN  Answer("read", path, "OK", [k \in n |-> data[range.off + k]])
  /\ UNCHANGED <<on, tree, removing, stray>>

Stat(path) ==
  /\ Idle
  /\ IF Present(path)
     THEN Answer("getattr", path, "OK",
                 <<tree[path].type, Len(tree[path].data)>>)
     ELSE Answer("getattr", path, "ENOENT", 0)
  /\ UNCHANGED <<on, tree, removing, stray>>

List(path) ==
  /\ Idle /\ IsDirectory(path)
  /\ Answer("readdir", path, "OK",
            {p[Len(p)] : p \in {q \in DOMAIN tree \ {Root} :
                                  Parent(q) = path}})
  /\ UNCHANGED <<on, tree, removing, stray>>

\* open, release, setxattr and utimens say nothing about the tree; a release
\* may be that of the last file in a removed directory.
Acknowledge ==
  /\ Idle
  /\ stray' \in {stray, FALSE}
  /\ Answer("ack", Root, "OK", 0)
  /\ UNCHANGED <<on, tree, removing>>

\* Opening a file to truncate it succeeds and touches no other file.
TruncatingOpen(path) ==
  /\ Idle /\ IsDocument(path)
  /\ tree' \in {tree, With(path, Document(<< >>))}
  /\ Answer("truncate", path, "OK", 0)
  /\ UNCHANGED <<on, removing, stray>>

\* An open file cannot be unlinked.
Refuse(path) ==
  /\ Idle /\ IsDocument(path)
  /\ Answer("unlink", path, "ENOSYS", 0)
  /\ UNCHANGED <<on, tree, removing, stray>>

BeginRmdir(path) ==
  /\ Idle /\ path # Root /\ IsDirectory(path)
  /\ removing' = path
  /\ UNCHANGED <<on, tree, stray, out>>

Discard(path) ==
  /\ removing # Root /\ Below(removing, path) /\ Present(path)
  /\ tree' = Without(path)
  /\ UNCHANGED <<on, removing, stray, out>>

EndRmdir ==
  /\ removing # Root
  /\ tree' = Without(removing)
  /\ removing' = Root
  /\ stray' \in {stray, TRUE}
  /\ Answer("rmdir", removing, "OK", 0)
  /\ UNCHANGED on

Init ==
  /\ on = FALSE
  /\ tree = [p \in {} |-> Directory]
  /\ removing = Root
  /\ stray = FALSE
  /\ out = <<"none", Root, "OK", 0>>

Next ==
  \/ Start
  \/ Stop
  \/ Crash
  \/ Acknowledge
  \/ EndRmdir
  \/ \E path \in Paths \cup {Root} : Stat(path) \/ List(path)
  \/ \E path \in Paths :
       \/ Make("create", path, Document(<< >>))
       \/ Make("mkdir", path, Directory)
       \/ Unlink(path)
       \/ BeginRmdir(path)
       \/ Discard(path)
       \/ Refuse(path)
       \/ TruncatingOpen(path)
       \/ \E chunk \in Chunks : Write(path, chunk)
       \/ \E range \in Ranges : Read(path, range)

Spec == Init /\ [][Next]_vars
=============================================================================
