----------------------------- MODULE OneThread ------------------------------
(***************************************************************************)
(* ThreadedFS with the history that shows it, for one thread, to implement *)
(* TelegramFS: the steps of a handler between its curl calls add up to the *)
(* one action that TelegramFS makes of the handler, or of a turn of        *)
(* hello_rmdir's loop.                                                     *)
(***************************************************************************)
EXTENDS ThreadedFS

VARIABLE whole   \* the state of TelegramFS: that of the last finished action

oneVars == <<threadedVars, whole>>

\* Some handler, or a turn of its loop, is neither at its start nor finished.
Midway == \E t \in Threads : Busy(t) /\ run[t].at # "scan"

\* hello_rmdir's position in the table, as sweep of TelegramFS.
Swept ==
  IF \E t \in Threads : run[t].op = "rmdir"
  THEN LET t == CHOOSE t \in Threads : run[t].op = "rmdir"
       IN  [dir |-> run[t].path, from |-> run[t].i]
  ELSE NoSweep

Now == [st |-> st, sweep |-> Swept, msgs |-> msgs, blobs |-> blobs, json |-> json]

OneInit == ThreadedInit /\ whole = Now

OneNext == ThreadedNext /\ whole' = IF Midway' THEN whole ELSE Now'

OneSpec == OneInit /\ [][OneNext]_oneVars /\ ThreadedFairness

Whole == INSTANCE TelegramFS WITH
  st <- whole.st, sweep <- whole.sweep,
  msgs <- whole.msgs, blobs <- whole.blobs, json <- whole.json

\* On one thread a handler that stops at each curl call does what the single
\* action of TelegramFS does, and its loop ends because its steps do, so what
\* is shown of TelegramFS holds of it.
HandlersAtomic == Whole!Spec
=============================================================================
