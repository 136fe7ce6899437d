----------------------------- MODULE PathLocks ------------------------------
(***************************************************************************)
(* How libfuse (fuse-3.17.2/lib/fuse.c) locks paths when it runs handlers  *)
(* on several threads, its default.  The nodes are those the kernel has    *)
(* looked up, named by their paths; a name that is created again is a new  *)
(* node.  Everything here happens under f->lock; free_path_wrlock keeps it *)
(* through a walk of the queue, one action per element.                    *)
(*                                                                         *)
(* Left out: failing allocations, requests on two paths (rename, link and  *)
(* exchange have no handler in main.c); forgets are in NodeTable.          *)
(***************************************************************************)
EXTENDS Integers, Sequences, FiniteSets

CONSTANTS
  Names,    \* names in a directory
  Nodes,    \* paths of the nodes other than the root, with all their prefixes
  Threads   \* the worker threads of fuse_loop_mt.c

Root == << >>

ASSUME NodesAssumption ==
  /\ Nodes \subseteq Seq(Names) \ {Root}
  /\ \A n \in Nodes : \A k \in 1 .. Len(n) : SubSeq(n, 1, k) \in Nodes

VARIABLES
  treelock,  \* of each node
  gone,      \* the nodes without a name: remove_node took them out
  phase,     \* of each thread's request
  req,       \* the request: [nodeid, name]; name = Root if none is to be locked
  wnode,     \* the node the request has for writing, Root if none
  lockq,     \* f->lockq, by the threads that wait
  waking     \* the element wake_up_queued is at; 0: f->lock is free

vars == <<treelock, gone, phase, req, wnode, lockq, waking>>

TREELOCK_WRITE == -1

INT_MAX == 2147483647

\* INT_MIN
TREELOCK_WAIT_OFFSET == -INT_MAX - 1

ASSUME ThreadsAssumption ==
  IsFiniteSet(Threads) /\ Cardinality(Threads) < INT_MAX

\* queued: in the queue and not done; granted and stale: done, with that
\* outcome, and not yet dequeued by its thread.
Phases == {"idle", "queued", "granted", "stale", "holding"}

\* get_path and get_path_name lock a node and what is above it; with
\* get_path_wrlock the name below it is locked as well, for writing.
Requests ==
  [nodeid : Nodes \cup {Root}, name : {Root}]
    \cup {[nodeid |-> SubSeq(n, 1, Len(n) - 1), name |-> n] : n \in Nodes}

\* From a node up to the root, the root excluded.
Chain(nodeid) == {SubSeq(nodeid, 1, k) : k \in 1 .. Len(nodeid)}

-----------------------------------------------------------------------------
(* The two passes over a path, as functions of the lock words.             *)

\* The node for a name, Root if there is none.
lookup_node(name) == IF name \in gone THEN Root ELSE name

\* Mutant: a walk does not look at the locks.
StopsAtStale(locks, m) == m \in gone

\* Where the walk up stops: at a node without a name or one that is locked.
StopsAt(locks, m) == m \in gone \/ locks[m] < 0

\* The result of try_get_path: the error, the lock words and the node locked
\* for writing.  A walk that stops undoes what it locked.
Tried(err, locks, w) == [err |-> err, locks |-> locks, wnode |-> w]

try_get_path(locks, r) ==
  LET w     == lookup_node(r.name)
      path  == Chain(r.nodeid)
      stops == {m \in path : StopsAt(locks, m)}
      first == CHOOSE m \in stops : \A n \in stops : Len(n) <= Len(m)
  IN  IF w # Root /\ locks[w] # 0
      THEN Tried("EAGAIN",
                 IF locks[w] > 0
                 THEN [locks EXCEPT ![w] = @ + TREELOCK_WAIT_OFFSET]
                 ELSE locks,
                 Root)
      ELSE IF stops # {}
      THEN Tried(IF first \in gone THEN "ESTALE" ELSE "EAGAIN", locks, Root)
      ELSE Tried("OK",
                 [m \in Nodes |-> IF m = w THEN TREELOCK_WRITE
                                  ELSE IF m \in path THEN locks[m] + 1
                                  ELSE locks[m]],
                 w)

\* Mutant: the mark stays.
ReaderLessMarked(word) == word - 1

\* One reader less; the last one takes the mark of a waiting writer along.
ReaderLess(word) ==
  IF word - 1 = TREELOCK_WAIT_OFFSET THEN 0 ELSE word - 1

\* The walk follows node->parent, which a node without a name has lost.
unlock_path(locks, nodeid, w) ==
  LET reached(m) == \A n \in Chain(nodeid) \cap gone : Len(n) <= Len(m)
  IN  [m \in Nodes |-> IF m = w THEN 0
                       ELSE IF m \in Chain(nodeid) /\ reached(m)
                       THEN ReaderLess(locks[m])
                       ELSE locks[m]]

-----------------------------------------------------------------------------
(* The actions of a thread.                                                *)

\* get_path_common up to its return or to the wait.
get_path_common(t, r) ==
  LET try == try_get_path(treelock, r) IN
  /\ waking = 0 /\ phase[t] = "idle"
  /\ treelock' = try.locks
  /\ req' = [req EXCEPT ![t] = r]
  /\ wnode' = [wnode EXCEPT ![t] = try.wnode]
  /\ phase' = [phase EXCEPT ![t] = CASE try.err = "OK"     -> "holding"
                                     [] try.err = "EAGAIN" -> "queued"
                                     [] try.err = "ESTALE" -> "idle"]
  /\ lockq' = IF try.err = "EAGAIN" THEN Append(lockq, t) ELSE lockq
  /\ UNCHANGED <<gone, waking>>

\* f->lockq without the element of thread t.
Dequeued(t) ==
  LET at == CHOOSE i \in 1 .. Len(lockq) : lockq[i] = t
  IN  [i \in 1 .. Len(lockq) - 1 |-> lockq[IF i < at THEN i ELSE i + 1]]

\* Mutant: the element goes without f->lock, under a walk of the queue.
DequeueUnlocked(t) ==
  /\ phase[t] \in {"granted", "stale"}
  /\ phase' = [phase EXCEPT ![t] = IF @ = "granted" THEN "holding" ELSE "idle"]
  /\ lockq' = Dequeued(t)
  /\ UNCHANGED <<treelock, gone, req, wnode, waking>>

\* The waiting thread finds its element done, and takes it out of the queue.
dequeue_path(t) ==
  /\ waking = 0 /\ phase[t] \in {"granted", "stale"}
  /\ phase' = [phase EXCEPT ![t] = IF @ = "granted" THEN "holding" ELSE "idle"]
  /\ lockq' = Dequeued(t)
  /\ UNCHANGED <<treelock, gone, req, wnode, waking>>

\* unlink and rmdir, when their handler succeeded: the node loses its name.
remove_node(t) ==
  /\ waking = 0 /\ phase[t] = "holding"
  /\ req[t].name # Root /\ req[t].name \notin gone
  /\ gone' = gone \cup {req[t].name}
  /\ UNCHANGED <<treelock, phase, req, wnode, lockq, waking>>

\* The handler has returned: the locks go, and the queue is walked.
free_path_wrlock(t) ==
  /\ waking = 0 /\ phase[t] = "holding"
  /\ treelock' = unlock_path(treelock, req[t].nodeid, wnode[t])
  /\ phase' = [phase EXCEPT ![t] = "idle"]
  /\ wnode' = [wnode EXCEPT ![t] = Root]
  /\ waking' = IF lockq = << >> THEN 0 ELSE 1
  /\ UNCHANGED <<gone, req, lockq>>

\* Mutant: the walk ends with the first element.
WalkOnce(n) == 0

\* The element after the n-th, 0 at the end of the queue.
NextElement(n) == IF n = Len(lockq) THEN 0 ELSE n + 1

\* One element of wake_up_queued's walk.  An element that is done is left.
queue_element_wakeup ==
  /\ waking > 0
  /\ waking' = NextElement(waking)
  /\ LET t   == lockq[waking]
         try == try_get_path(treelock, req[t])
     IN  IF phase[t] = "queued"
         THEN /\ treelock' = try.locks
              /\ wnode' = [wnode EXCEPT ![t] = try.wnode]
              /\ phase' = [phase EXCEPT ![t] =
                             CASE try.err = "OK"     -> "granted"
                               [] try.err = "EAGAIN" -> "queued"
                               [] try.err = "ESTALE" -> "stale"]
         ELSE UNCHANGED <<treelock, wnode, phase>>
  /\ UNCHANGED <<gone, req, lockq>>

-----------------------------------------------------------------------------
Init ==
  /\ treelock = [m \in Nodes |-> 0]
  /\ gone = {}
  /\ phase = [t \in Threads |-> "idle"]
  /\ req = [t \in Threads |-> [nodeid |-> Root, name |-> Root]]
  /\ wnode = [t \in Threads |-> Root]
  /\ lockq = << >>
  /\ waking = 0

Next ==
  \/ queue_element_wakeup
  \/ \E t \in Threads :
       \/ \E r \in Requests : get_path_common(t, r)
       \/ dequeue_path(t)
       \/ remove_node(t)
       \/ free_path_wrlock(t)

\* The walk of the queue goes on, handlers return, signalled threads wake up;
\* and a thread that wants f->lock, which others take again and again and
\* always give back, gets it in the end.
Fairness ==
  /\ WF_vars(queue_element_wakeup)
  /\ \A t \in Threads : SF_vars(dequeue_path(t)) /\ SF_vars(free_path_wrlock(t))

Spec == Init /\ [][Next]_vars /\ Fairness

-----------------------------------------------------------------------------
(* Properties.                                                             *)

\* Lock words, phases and the queue have the shape the code assumes, and the
\* walk of the queue is at an element that is still in it.
TypeOK ==
  /\ treelock \in [Nodes -> Int]
  /\ gone \subseteq Nodes
  /\ phase \in [Threads -> Phases]
  /\ req \in [Threads -> Requests]
  /\ wnode \in [Threads -> Nodes \cup {Root}]
  /\ lockq \in Seq(Threads)
  /\ waking \in 0 .. Len(lockq)

Locking(t) == phase[t] \in {"granted", "holding"}
Readers(m) == {t \in Threads : Locking(t) /\ m \in Chain(req[t].nodeid)}
Writers(m) == {t \in Threads : Locking(t) /\ wnode[t] = m}

\* A lock word tells who has the node: its readers are counted, with the
\* offset on top only while there are some, or one writer has it alone.  So
\* the assertions of unlock_path hold, and no release leaves a word behind.
LockWords ==
  \A m \in Nodes :
    \/ /\ Writers(m) = {}
       /\ treelock[m] = Cardinality(Readers(m))
    \/ /\ Writers(m) = {} /\ Readers(m) # {}
       /\ treelock[m] = Cardinality(Readers(m)) + TREELOCK_WAIT_OFFSET
    \/ /\ Cardinality(Writers(m)) = 1 /\ Readers(m) = {}
       /\ treelock[m] = TREELOCK_WRITE

\* The way up from a locked node stays whole: nobody removes a name on it, so
\* unlock_path reaches what try_get_path locked.
ChainsIntact ==
  \A t \in Threads : Locking(t) => Chain(req[t].nodeid) \cap gone = {}

\* With f->lock free, and no removal on its way to the release, no request in
\* the queue could have what it waits for.
NoMissedWakeup ==
  waking = 0 /\ (\A t \in Threads : Locking(t) => wnode[t] \notin gone) =>
    \A t \in Threads :
      phase[t] = "queued" => try_get_path(treelock, req[t]).err = "EAGAIN"

\* A request that waits for its path gets it, or learns that it is stale,
\* although new requests do not queue up behind it.
Served == \A t \in Threads : phase[t] = "queued" ~> phase[t] # "queued"

-----------------------------------------------------------------------------
(* The abstract specification.                                             *)

Locks == INSTANCE TreeLock WITH
  rd <- [t \in Threads |-> IF Locking(t) THEN Chain(req[t].nodeid) ELSE {}],
  wr <- [t \in Threads |-> IF Locking(t) THEN {wnode[t]} \ {Root} ELSE {}]

\* Counters, marks and queue together implement locks on trees: a path is
\* granted only if no other thread has a conflicting one.
ImplementsTreeLock == Locks!Spec
=============================================================================
