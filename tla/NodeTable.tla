----------------------------- MODULE NodeTable ------------------------------
(***************************************************************************)
(* The nodes of libfuse (fuse-3.17.2/lib/fuse.c): how the ids that the     *)
(* kernel uses instead of paths come and go while several threads serve    *)
(* lookups, opens, removals and the kernel's forgets.  A node lives as     *)
(* long as the kernel may name it or a node below it; get_node aborts the  *)
(* process on an id that is not in the table, and delete_node on a node    *)
(* whose path is locked.                                                   *)
(*                                                                         *)
(* Sections under f->lock are one action each.  The path locks are taken   *)
(* as TreeLock gives them (PathLocks shows that they implement it), the    *)
(* handlers of main.c succeed or fail.  What the kernel does is external:  *)
(* it names a node only while it holds the directories above it, and sends *)
(* a forget, with its whole count, for an inode that nothing uses.         *)
(*                                                                         *)
(* Left out: allocation failures, the options remember, noforget and       *)
(* hard_remove, the lookup of "." and "..", hidden files (there is no      *)
(* rename handler) and generation numbers.                                 *)
(***************************************************************************)
EXTENDS Integers, FiniteSets, FiniteSetsExt, Bags

CONSTANTS
  MaxId,      \* the highest node id, 2^32 - 2 in the code
  Names,      \* names below a directory
  NoName,     \* not one of them: the node has none
  Threads,    \* the worker threads of fuse_loop_mt.c
  MaxLookups, \* bound on the lookups of one node that the kernel counts
  MaxOpen,    \* bound on the open files of one node
  MaxForgets  \* bound on the forget messages on their way

ASSUME NodeAssumption ==
  /\ MaxId \in Nat /\ MaxId > 1
  /\ NoName \notin Names
  /\ {MaxLookups, MaxOpen, MaxForgets} \subseteq Nat
  /\ IsFiniteSet(Threads) /\ IsFiniteSet(Names)

VARIABLES
  table,    \* the nodes, by id
  ctr,      \* f->ctr
  run,      \* what each thread is doing
  known,    \* the kernel's lookup count of each id
  opened,   \* the kernel's open files of each id
  forgets   \* the bag of forget messages on their way: <<id, count>>

vars == <<table, ctr, run, known, opened, forgets>>

Ids    == 1 .. MaxId
Root   == 1
NoNode == 0

-----------------------------------------------------------------------------
(* Reference counts and names, as functions of the table.                  *)

Node(parent, name) ==
  [parent |-> parent, name |-> name, nlookup |-> 0, refctr |-> 0,
   open_count |-> 0]

\* The way up from a node: itself, its parent, and so on.
Line(tab, id) ==
  LET up[k \in 0 .. MaxId] ==
        IF k = 0 THEN id
        ELSE IF up[k - 1] \in {NoNode, Root} THEN NoNode
        ELSE tab[up[k - 1]].parent
  IN  up

Chain(tab, id) == {Line(tab, id)[k] : k \in 0 .. MaxId} \ {NoNode, Root}

\* No name is missing on the way to the root.
Intact(tab, id) == \E k \in 0 .. MaxId : Line(tab, id)[k] = Root

lookup_node(tab, parent, name) ==
  {id \in DOMAIN tab : tab[id].parent = parent /\ tab[id].name = name}

\* Mutant: a second lookup takes a reference of its own.
IncEach(node) == [node EXCEPT !.nlookup = @ + 1, !.refctr = @ + 1]

inc_nlookup(node) ==
  [node EXCEPT !.nlookup = @ + 1,
               !.refctr = IF node.nlookup = 0 THEN @ + 1 ELSE @]

\* One reference less.  A node without any is deleted, and takes along the
\* reference that its name is to its parent.
unref_node(tab, id) ==
  LET up   == Line(tab, id)
      dies == {k \in 0 .. MaxId :
                 \A j \in 0 .. k : up[j] # NoNode /\ tab[up[j]].refctr = 1}
      dead == {up[k] : k \in dies}
      last == up[Cardinality(dies)]
  IN  [i \in DOMAIN tab \ dead |->
         IF i = last THEN [tab[i] EXCEPT !.refctr = @ - 1] ELSE tab[i]]

\* The node loses its name, its parent a reference.
unhash_name(tab, id) ==
  unref_node([tab EXCEPT ![id].name = NoName, ![id].parent = NoNode],
             tab[id].parent)

\* A node with its name below a directory, which it has a reference to.
hash_name(tab, id, parent, name) ==
  [i \in DOMAIN tab \cup {id} |->
     IF i = id THEN Node(parent, name)
     ELSE IF i = parent THEN [tab[i] EXCEPT !.refctr = @ + 1] ELSE tab[i]]

\* The next id that is free, from f->ctr on and around.
next_id ==
  LET free  == Ids \ DOMAIN table
      above == {i \in free : i > ctr}
  IN  IF above # {} THEN Min(above) ELSE Min(free)

\* forget_node, once it need not wait.
Forgotten(tab, id, n) ==
  LET less == [tab EXCEPT ![id].nlookup = @ - n]
  IN  IF less[id].nlookup = 0 THEN unref_node(less, id) ELSE less

-----------------------------------------------------------------------------
(* Requests.                                                               *)

\* ino: the node the request is for; name: below it; node: the one found;
\* n: how much is to be forgotten; rd, wr: the path locks.
NoRequest ==
  [op |-> "none", at |-> "none", ino |-> NoNode, name |-> NoName,
   node |-> NoNode, n |-> 0, rd |-> {}, wr |-> {}]

Busy(t) == run[t].op # "none"
At(t, ops, at) == run[t].op \in ops /\ run[t].at = at

Goes(t, r) == run' = [run EXCEPT ![t] = r]
Done(t)    == Goes(t, NoRequest)
To(t, at)  == Goes(t, [run[t] EXCEPT !.at = at])

Locks == INSTANCE TreeLock WITH
  Nodes <- Ids,
  rd <- [t \in Threads |-> run[t].rd],
  wr <- [t \in Threads |-> run[t].wr]

\* treelock # 0.
Locked(id) == \E t \in Threads : id \in run[t].rd \cup run[t].wr

\* The kernel holds the inode and the directories above it.
Holds(id) == \A i \in Chain(table, id) : known[i] > 0

\* The request has been answered, or is none.
Answered(t) ==
  \/ run[t].op \in {"none", "forget"}
  \/ run[t].op \in {"create", "open"} /\ run[t].at \in {"unlock", "unopen"}
  \/ run[t].at \in {"forget", "asleep"}

\* What requests and open files keep the kernel from forgetting.
Pinned ==
  LET used == {run[t].ino : t \in {s \in Threads : ~Answered(s)}}
                \cup {id \in DOMAIN table : opened[id] > 0}
  IN  (UNION {Chain(table, id) : id \in used \ {NoNode}})
        \cup {run[t].node : t \in {s \in Threads : run[s].op = "remove"}}

\* get_path and get_path_name.
begin(t, op, id, name) ==
  /\ ~Busy(t) /\ id \in DOMAIN table /\ Holds(id) /\ Intact(table, id)
  /\ op = "open" => id # Root
  /\ LET rd == Chain(table, id) IN
     /\ Locks!Compatible(t, rd, {})
     /\ Goes(t, [NoRequest EXCEPT !.op = op, !.at = "handler", !.ino = id,
                                  !.name = name, !.rd = rd,
                                  !.node = IF op = "open" THEN id ELSE NoNode])
  /\ UNCHANGED <<table, ctr, known, opened, forgets>>

\* get_path_wrlock, for the removal of a name that the kernel has looked up.
begin_remove(t, id, name) ==
  /\ ~Busy(t) /\ id \in DOMAIN table /\ Holds(id) /\ Intact(table, id)
  /\ \E victim \in lookup_node(table, id, name) :
       /\ known[victim] > 0
       /\ Locks!Compatible(t, Chain(table, id), {victim})
       /\ Goes(t, [NoRequest EXCEPT !.op = "remove", !.at = "handler",
                                    !.ino = id, !.name = name, !.node = victim,
                                    !.rd = Chain(table, id), !.wr = {victim}])
  /\ UNCHANGED <<table, ctr, known, opened, forgets>>

\* get_path_nullok: a file is closed, by its path if it still has one.
begin_release(t, id) ==
  /\ ~Busy(t) /\ opened[id] > 0
  /\ LET rd == IF Intact(table, id) THEN Chain(table, id) ELSE {} IN
     /\ Locks!Compatible(t, rd, {})
     /\ Goes(t, [NoRequest EXCEPT !.op = "release", !.at = "unopen",
                                  !.ino = id, !.node = id, !.rd = rd])
  /\ opened' = [opened EXCEPT ![id] = @ - 1]
  /\ UNCHANGED <<table, ctr, known, forgets>>

-----------------------------------------------------------------------------
(* The handler's result.                                                   *)

failed(t) ==
  /\ At(t, {"lookup", "create", "open", "remove"}, "handler")
  /\ Goes(t, [run[t] EXCEPT !.at = "unlock",
                !.node = IF run[t].op = "remove" THEN @ ELSE NoNode])
  /\ UNCHANGED <<table, ctr, known, opened, forgets>>

\* Mutant: a node that is there is not found.
FindNew(t, parent, name) ==
  /\ Ids \ DOMAIN table # {}
  /\ table' = [hash_name(table, next_id, parent, name)
                 EXCEPT ![next_id] = inc_nlookup(@)]
  /\ ctr' = next_id
  /\ Goes(t, [run[t] EXCEPT !.node = next_id,
                !.at = IF run[t].op = "create" THEN "opening" ELSE "unlock"])

\* The node for a name: the one there is, or a new one.
find_node(t, parent, name) ==
  LET found == lookup_node(table, parent, name)
      id    == IF found = {} THEN next_id ELSE Min(found)
      tab   == IF found = {} THEN hash_name(table, id, parent, name) ELSE table
  IN
  /\ found = {} => Ids \ DOMAIN table # {}
  /\ table' = [tab EXCEPT ![id] = inc_nlookup(@)]
  /\ ctr' = IF found = {} THEN id ELSE ctr
  /\ Goes(t, [run[t] EXCEPT !.node = id,
                !.at = IF run[t].op = "create" THEN "opening" ELSE "unlock"])

lookup_path(t) ==
  /\ At(t, {"lookup", "create"}, "handler")
  /\ find_node(t, run[t].ino, run[t].name)
  /\ UNCHANGED <<known, opened, forgets>>

\* create finds that what it made is no regular file, and takes the lookup
\* back before it answers.
not_regular(t) ==
  /\ At(t, {"create"}, "opening")
  /\ Goes(t, [run[t] EXCEPT !.at = "forget", !.n = 1])
  /\ UNCHANGED <<table, ctr, known, opened, forgets>>

\* An open file is not removed: hiding it fails.  is_open looks earlier than
\* the removal, under f->lock as well; until then the kernel, which has the
\* directory locked, opens nothing of that name.
remove_node(t) ==
  /\ At(t, {"remove"}, "handler") /\ table[run[t].node].open_count = 0
  /\ table' = unhash_name(table, run[t].node)
  /\ To(t, "unlock")
  /\ UNCHANGED <<ctr, known, opened, forgets>>

-----------------------------------------------------------------------------
(* Opening, answering, closing.                                            *)

opening(t) ==
  /\ At(t, {"open"}, "handler") \/ At(t, {"create"}, "opening")
  /\ table' = [table EXCEPT ![run[t].node].open_count = @ + 1]
  /\ To(t, "answer")
  /\ UNCHANGED <<ctr, known, opened, forgets>>

\* The kernel takes the answer.  open and create still have their locks.
answer(t) ==
  LET id == run[t].node IN
  /\ run[t].at = "answer"
  /\ known' = IF run[t].op = "open" THEN known
              ELSE [known EXCEPT ![id] = @ + 1]
  /\ opened' = IF run[t].op = "lookup" THEN opened
               ELSE [opened EXCEPT ![id] = @ + 1]
  /\ known'[id] <= MaxLookups /\ opened'[id] <= MaxOpen
  /\ IF run[t].op = "lookup" THEN Done(t)
     ELSE Goes(t, [run[t] EXCEPT !.at = "unlock", !.node = NoNode])
  /\ UNCHANGED <<table, ctr, forgets>>

\* Mutant: a lookup that nobody takes is not undone.
AnswerLost(t) ==
  /\ run[t].at = "answer"
  /\ IF run[t].op = "lookup" THEN Done(t) ELSE To(t, "unopen")
  /\ UNCHANGED <<table, ctr, known, opened, forgets>>

\* The system call was interrupted; what was done for it is undone.
answer_interrupted(t) ==
  /\ run[t].at = "answer"
  /\ Goes(t, IF run[t].op = "lookup"
             THEN [run[t] EXCEPT !.at = "forget", !.n = 1, !.ino = NoNode]
             ELSE [run[t] EXCEPT !.at = "unopen"])
  /\ UNCHANGED <<table, ctr, known, opened, forgets>>

fuse_do_release(t) ==
  /\ run[t].at = "unopen"
  /\ table' = [table EXCEPT ![run[t].node].open_count = @ - 1]
  /\ Goes(t, IF run[t].op = "create"
             THEN [run[t] EXCEPT !.at = "forget", !.n = 1]
             ELSE [run[t] EXCEPT !.at = "unlock"])
  /\ UNCHANGED <<ctr, known, opened, forgets>>

\* Mutant: forgets that sleep are not woken.
WokenNever(rest) == rest

\* wake_up_queued, for forgets that wait for a node to be unlocked.
Woken(rest) ==
  [s \in Threads |->
     IF rest[s].at = "asleep"
        /\ \A r \in Threads : rest[s].node \notin rest[r].rd \cup rest[r].wr
     THEN [rest[s] EXCEPT !.at = "forget"] ELSE rest[s]]

free_path(t) ==
  LET freed == [run[t] EXCEPT !.rd = {}, !.wr = {}, !.at = "answer"]
      next  == IF run[t].op = "lookup" /\ run[t].node # NoNode THEN freed
               ELSE NoRequest
  IN
  /\ run[t].at = "unlock"
  /\ run' = Woken([run EXCEPT ![t] = next])
  /\ UNCHANGED <<table, ctr, known, opened, forgets>>

-----------------------------------------------------------------------------
(* Forgetting.                                                             *)

\* The kernel drops an inode.
evict(id) ==
  /\ known[id] > 0 /\ id \notin Pinned
  /\ BagCardinality(forgets) < MaxForgets
  /\ forgets' = forgets (+) SetToBag({<<id, known[id]>>})
  /\ known' = [known EXCEPT ![id] = 0]
  /\ UNCHANGED <<table, ctr, run, opened>>

\* Mutant: a forget goes ahead while the path is locked.
MustNotWait(id, n) == FALSE

\* The last reference to a node whose path is still locked.
MustWait(id, n) == table[id].nlookup = n /\ Locked(id)

\* r: the thread's request, which is to forget.
forget_node(t, r) ==
  /\ IF MustWait(r.node, r.n)
     THEN Goes(t, [r EXCEPT !.at = "asleep"]) /\ UNCHANGED table
     ELSE /\ table' = Forgotten(table, r.node, r.n)
          /\ Goes(t, IF r.op = "create"
                     THEN [r EXCEPT !.at = "unlock", !.node = NoNode]
                     ELSE NoRequest)
  /\ UNCHANGED <<ctr, known, opened>>

\* A forget message is read and carried out.
fuse_lib_forget(t) ==
  /\ ~Busy(t)
  /\ \E m \in BagToSet(forgets) :
       /\ forgets' = forgets (-) SetToBag({m})
       /\ forget_node(t, [NoRequest EXCEPT !.op = "forget", !.at = "forget",
                                           !.node = m[1], !.n = m[2]])

\* A lookup is taken back, or a sleeper tries again.
forget_again(t) ==
  /\ run[t].at = "forget"
  /\ forget_node(t, run[t])
  /\ UNCHANGED forgets

-----------------------------------------------------------------------------
\* fuse_new: the root, counted once and never forgotten.
Init ==
  /\ table = [i \in {Root} |-> inc_nlookup(Node(NoNode, NoName))]
  /\ ctr = 0
  /\ run = [t \in Threads |-> NoRequest]
  /\ known = [id \in Ids |-> 0]
  /\ opened = [id \in Ids |-> 0]
  /\ forgets = EmptyBag

\* What a thread does once it has a request.
Serve(t) ==
  \/ failed(t)
  \/ lookup_path(t)
  \/ not_regular(t)
  \/ remove_node(t)
  \/ opening(t)
  \/ answer(t)
  \/ answer_interrupted(t)
  \/ fuse_do_release(t)
  \/ free_path(t)
  \/ forget_again(t)

Next ==
  \/ \E id \in Ids : evict(id)
  \/ \E t \in Threads :
       \/ Serve(t)
       \/ fuse_lib_forget(t)
       \/ \E id \in Ids :
            \/ begin_release(t, id)
            \/ begin(t, "open", id, NoName)
            \/ \E name \in Names :
                 \/ begin_remove(t, id, name)
                 \/ \E op \in {"lookup", "create"} : begin(t, op, id, name)

\* A thread with a request keeps running; the kernel owes nothing.
Spec == Init /\ [][Next]_vars /\ \A t \in Threads : WF_vars(Serve(t))

-----------------------------------------------------------------------------
(* Properties.                                                             *)

\* What the kernel or a thread will name with an id, and what is locked, is in
\* the table: get_node never aborts, delete_node never finds a lock, and no
\* pointer to a node outlives it.
NodesThere ==
  /\ \A t \in Threads :
       ({run[t].ino, run[t].node} \ {NoNode}) \cup run[t].rd \cup run[t].wr
         \subseteq DOMAIN table
  /\ \A id \in Ids : known[id] > 0 \/ opened[id] > 0 => id \in DOMAIN table
  /\ \A m \in BagToSet(forgets) : m[1] \in DOMAIN table

Children(id) == {c \in DOMAIN table : table[c].parent = id}

\* The references of a node are its children's and one for all lookups, and a
\* node without references is gone: nothing leaks and nothing goes too early.
RefCounts ==
  \A id \in DOMAIN table :
    /\ table[id].refctr =
         Cardinality(Children(id)) + (IF table[id].nlookup > 0 THEN 1 ELSE 0)
    /\ table[id].refctr > 0

\* The lookups of id that a thread has made or is to take back.
Owed(t, id) ==
  IF run[t].node # id THEN 0
  ELSE IF run[t].at \in {"forget", "asleep"} THEN run[t].n
  ELSE IF \/ run[t].op = "lookup"
          \/ run[t].op = "create" /\ run[t].at # "unlock"
  THEN 1 ELSE 0

\* The lookups of id, one by one, that forgets on their way and threads have.
InForgets(id) ==
  UNION {{m} \X ((1 .. forgets[m]) \X (1 .. m[2])) :
           m \in {f \in BagToSet(forgets) : f[1] = id}}
InThreads(id) == UNION {{t} \X (1 .. Owed(t, id)) : t \in Threads}

\* No lookup is lost or counted twice: what the table counts, the kernel
\* counts, or it is on its way in an answer or a forget; also when the id has
\* been used before, or is looked up while a forget for it is on its way.
LookupsBalance ==
  \A id \in DOMAIN table \ {Root} :
    table[id].nlookup =
      known[id] + Cardinality(InForgets(id)) + Cardinality(InThreads(id))

\* A name below a directory belongs to one node.
NamesUnique ==
  \A i, j \in DOMAIN table :
    /\ table[i].name # NoName
    /\ table[i].name = table[j].name /\ table[i].parent = table[j].parent
    => i = j

\* A forget that sleeps is woken, although it may have to wait for a path lock
\* that an open has kept beyond its answer.
ForgetsEnd ==
  \A t \in Threads : run[t].at = "asleep" ~> run[t].at # "asleep"
=============================================================================
