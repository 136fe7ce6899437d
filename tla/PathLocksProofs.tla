-------------------------- MODULE PathLocksProofs ---------------------------
(***************************************************************************)
(* For any tree of nodes and any number of threads: the lock words count   *)
(* right, the locks exclude what TreeLock says, and no release forgets a   *)
(* request that waits.                                                     *)
(***************************************************************************)
EXTENDS PathLocks, SequenceTheorems, FiniteSetTheorems, TLAPS

-----------------------------------------------------------------------------
(* Paths.                                                                  *)

\* A prefix of a path.
LEMMA Prefix ==
  ASSUME NEW s \in Seq(Names), NEW k \in 0 .. Len(s)
  PROVE  SubSeq(s, 1, k) \in Seq(Names) /\ Len(SubSeq(s, 1, k)) = k
<1>1. k \in Int /\ 1 \in Int /\ \A i \in 1 .. k : s[i] \in Names
  OBVIOUS
<1>2. /\ SubSeq(s, 1, k) \in Seq(Names)
      /\ Len(SubSeq(s, 1, k)) = IF 1 <= k THEN k - 1 + 1 ELSE 0
  BY <1>1, SubSeqProperties
<1> QED
  BY <1>2

\* The chain of a node: prefixes, told apart by their lengths.
LEMMA ChainShape ==
  ASSUME NEW id \in Nodes \cup {Root}
  PROVE  /\ Chain(id) \subseteq Nodes
         /\ Len(id) \in Nat
         /\ \A m \in Chain(id) : Len(m) \in 1 .. Len(id)
         /\ \A m, n \in Chain(id) : Len(m) = Len(n) => m = n
<1>1. id \in Seq(Names) /\ Len(id) \in Nat
  <2>1. Root \in Seq(Names) /\ Len(Root) = 0
    BY DEF Root
  <2>2. id \in Seq(Names)
    BY <2>1, NodesAssumption
  <2> QED
    BY <2>2
<1>2. \A k \in 1 .. Len(id) : Len(SubSeq(id, 1, k)) = k
  BY <1>1, Prefix
<1>3. \A k \in 1 .. Len(id) : SubSeq(id, 1, k) \in Nodes
  <2>1. CASE id \in Nodes
    BY <2>1, NodesAssumption
  <2>2. CASE id = Root
    <3>1. Len(id) = 0
      BY <2>2 DEF Root
    <3> QED
      BY <3>1
  <2> QED
    BY <2>1, <2>2
<1> QED
  BY <1>1, <1>2, <1>3 DEF Chain

\* What a request asks for.
LEMMA RequestShape ==
  ASSUME NEW r \in Requests
  PROVE  /\ r.nodeid \in Nodes \cup {Root}
         /\ r.name \in Nodes \cup {Root}
         /\ r.name \notin Chain(r.nodeid)
<1>1. CASE r \in [nodeid : Nodes \cup {Root}, name : {Root}]
  <2>1. r.nodeid \in Nodes \cup {Root} /\ r.name = Root
    BY <1>1
  <2>2. Root \notin Nodes
    BY NodesAssumption
  <2> QED
    BY <2>1, <2>2, ChainShape
<1>2. CASE r \notin [nodeid : Nodes \cup {Root}, name : {Root}]
  <2>1. PICK n \in Nodes : r = [nodeid |-> SubSeq(n, 1, Len(n) - 1), name |-> n]
    BY <1>2 DEF Requests
  <2>2. n \in Seq(Names) /\ Len(n) \in Nat /\ n # Root
    BY NodesAssumption
  <2>3. Len(n) > 0 /\ Len(n) - 1 \in 0 .. Len(n)
    BY <2>2 DEF Root
  <2>4. r.nodeid = SubSeq(n, 1, Len(n) - 1) /\ r.name = n
    BY <2>1
  <2>5. Len(r.nodeid) = Len(n) - 1 /\ r.nodeid \in Seq(Names)
    BY <2>2, <2>3, <2>4, Prefix
  <2>6. r.nodeid \in Nodes \cup {Root}
    <3>1. CASE Len(n) = 1
      BY <2>5, <3>1 DEF Root
    <3>2. CASE Len(n) > 1
      BY <2>2, <2>4, <3>2, NodesAssumption
    <3>3. Len(n) = 1 \/ Len(n) > 1
      BY <2>2, <2>3
    <3> QED
      BY <3>1, <3>2, <3>3
  <2>7. n \notin Chain(r.nodeid)
    <3>1. \A m \in Chain(r.nodeid) : Len(m) \in 1 .. Len(r.nodeid)
      BY <2>6, ChainShape
    <3> QED
      BY <2>2, <2>5, <3>1
  <2> QED
    BY <2>4, <2>6, <2>7
<1> QED
  BY <1>1, <1>2

\* Among some nodes of a chain one is deepest.
LEMMA DeepestNode ==
  ASSUME NEW id \in Nodes \cup {Root}, NEW S \in SUBSET Chain(id), S # {}
  PROVE  \E m \in S : \A n \in S : Len(n) <= Len(m)
<1> DEFINE Heights == {Len(id) - Len(m) : m \in S}
<1>1. /\ Len(id) \in Nat /\ \A m \in S : Len(m) \in 1 .. Len(id)
  BY ChainShape
<1>2. Heights \subseteq Nat /\ Heights # {}
  BY <1>1
<1> HIDE DEF Heights
<1>3. PICK x \in Heights : \A y \in Heights : ~(<<y, x>> \in OpToRel(<, Nat))
  BY <1>2, NatLessThanWellFounded, WFMin, Zenon
<1>4. \A y \in Heights : ~(y < x)
  BY <1>2, <1>3 DEF OpToRel
<1>5. PICK m \in S : x = Len(id) - Len(m)
  BY DEF Heights
<1>6. ASSUME NEW n \in S PROVE Len(n) <= Len(m)
  <2>1. Len(id) - Len(n) \in Heights
    BY DEF Heights
  <2> QED
    BY <1>1, <1>4, <1>5, <2>1
<1> QED
  BY <1>6

-----------------------------------------------------------------------------
(* Lock words.                                                             *)

\* The word of a node that the threads R have for reading and W for writing.
WordOK(word, R, W) ==
  \/ W = {} /\ word = Cardinality(R)
  \/ W = {} /\ R # {} /\ word = Cardinality(R) + TREELOCK_WAIT_OFFSET
  \/ Cardinality(W) = 1 /\ R = {} /\ word = TREELOCK_WRITE

\* limits.h.
LEMMA IntMax == INT_MAX \in Nat /\ INT_MAX > 1
BY SMT DEF INT_MAX

\* Sets of threads are too small for a count to meet the offset.
LEMMA CountShape ==
  ASSUME NEW R \in SUBSET Threads
  PROVE  /\ IsFiniteSet(R)
         /\ Cardinality(R) \in 0 .. INT_MAX - 1
         /\ Cardinality(R) = 0 <=> R = {}
<1>1. IsFiniteSet(R) /\ Cardinality(R) <= Cardinality(Threads)
  BY FS_Subset, ThreadsAssumption
<1>2. Cardinality(R) \in Nat /\ Cardinality(Threads) \in Nat
  BY <1>1, FS_CardinalityType, ThreadsAssumption
<1>3. Cardinality(R) = 0 <=> R = {}
  BY <1>1, FS_EmptySet
<1> QED
  BY <1>1, <1>2, <1>3, ThreadsAssumption, IntMax

\* What a word tells.
LEMMA WordTells ==
  ASSUME NEW R \in SUBSET Threads, NEW W \in SUBSET Threads, NEW word,
         WordOK(word, R, W)
  PROVE  /\ word \in Int
         /\ word = 0 => R = {} /\ W = {}
         /\ word >= 0 => W = {} /\ word = Cardinality(R)
         /\ R # {} => W = {}
<1>1. Cardinality(R) \in 0 .. INT_MAX - 1 /\ (Cardinality(R) = 0 <=> R = {})
  BY CountShape
<1> QED
  BY <1>1, IntMax DEF WordOK, TREELOCK_WAIT_OFFSET, TREELOCK_WRITE

\* A reader more, a writer, and the mark of one that waits.
LEMMA WordTaken ==
  ASSUME NEW R \in SUBSET Threads, NEW W \in SUBSET Threads, NEW word,
         WordOK(word, R, W), NEW t \in Threads
  PROVE  /\ word >= 0 /\ t \notin R => WordOK(word + 1, R \cup {t}, W)
         /\ word = 0 => WordOK(TREELOCK_WRITE, R, W \cup {t})
         /\ word > 0 => WordOK(word + TREELOCK_WAIT_OFFSET, R, W)
<1>1. Cardinality(R) \in 0 .. INT_MAX - 1 /\ (Cardinality(R) = 0 <=> R = {})
  BY CountShape
<1>2. IsFiniteSet(R)
  BY CountShape
<1>3. t \notin R => Cardinality(R \cup {t}) = Cardinality(R) + 1
  BY <1>2, FS_AddElement
<1>4. ASSUME word >= 0, t \notin R PROVE WordOK(word + 1, R \cup {t}, W)
  BY <1>1, <1>3, <1>4, WordTells DEF WordOK
<1>5. ASSUME word = 0 PROVE WordOK(TREELOCK_WRITE, R, W \cup {t})
  <2>1. R = {} /\ W \cup {t} = {t}
    BY <1>5, WordTells
  <2>2. Cardinality({t}) = 1
    BY FS_Singleton
  <2> QED
    BY <2>1, <2>2 DEF WordOK
<1>6. ASSUME word > 0 PROVE WordOK(word + TREELOCK_WAIT_OFFSET, R, W)
  <2>1. word \in Int
    BY WordTells
  <2>2. W = {} /\ word = Cardinality(R) /\ R # {}
    BY <1>1, <1>6, <2>1, WordTells
  <2> QED
    BY <2>2 DEF WordOK
<1> QED
  BY <1>4, <1>5, <1>6

\* A reader less, and no writer.
LEMMA WordReleased ==
  ASSUME NEW R \in SUBSET Threads, NEW W \in SUBSET Threads, NEW word,
         WordOK(word, R, W), NEW t \in Threads
  PROVE  /\ t \in R => WordOK(ReaderLess(word), R \ {t}, W)
         /\ t \in W => WordOK(0, R, W \ {t})
<1>1. /\ Cardinality(R) \in 0 .. INT_MAX - 1 /\ (Cardinality(R) = 0 <=> R = {})
      /\ IsFiniteSet(R) /\ IsFiniteSet(W)
  BY CountShape
<1>2. ASSUME t \in R PROVE WordOK(ReaderLess(word), R \ {t}, W)
  <2>1. Cardinality(R \ {t}) = Cardinality(R) - 1
    BY <1>1, <1>2, FS_RemoveElement
  <2>2. R \ {t} \in SUBSET Threads
    OBVIOUS
  <2>3. Cardinality(R \ {t}) = 0 <=> R \ {t} = {}
    BY <2>2, CountShape
  <2>4. W = {}
    BY <1>2, WordTells
  <2>5. CASE word = Cardinality(R)
    BY <1>1, <2>1, <2>4, <2>5, IntMax DEF WordOK, ReaderLess, TREELOCK_WAIT_OFFSET
  <2>6. CASE word = Cardinality(R) + TREELOCK_WAIT_OFFSET
    <3>1. CASE Cardinality(R) = 1
      BY <1>1, <2>1, <2>4, <2>6, <3>1, IntMax DEF WordOK, ReaderLess, TREELOCK_WAIT_OFFSET
    <3>2. CASE Cardinality(R) # 1
      <4>1. ReaderLess(word) = Cardinality(R \ {t}) + TREELOCK_WAIT_OFFSET
        BY <1>1, <2>1, <2>6, <3>2, IntMax DEF ReaderLess, TREELOCK_WAIT_OFFSET
      <4>2. R \ {t} # {}
        BY <1>1, <2>1, <2>3, <3>2
      <4> QED
        BY <2>4, <4>1, <4>2 DEF WordOK
    <3> QED
      BY <3>1, <3>2
  <2> QED
    BY <1>2, <2>4, <2>5, <2>6 DEF WordOK
<1>3. ASSUME t \in W PROVE WordOK(0, R, W \ {t})
  <2>1. Cardinality(W) = 1 /\ R = {}
    BY <1>3 DEF WordOK
  <2>2. W \ {t} = {}
    <3>1. PICK x : W = {x}
      BY <1>1, <2>1, FS_Singleton
    <3> QED
      BY <1>3, <3>1
  <2> QED
    BY <1>1, <2>1, <2>2 DEF WordOK
<1> QED
  BY <1>2, <1>3

-----------------------------------------------------------------------------
(* try_get_path.                                                           *)

\* The three results of a walk.
Stops(locks, r) == {m \in Chain(r.nodeid) : StopsAt(locks, m)}

\* The name is locked.
NameBusy(locks, r) == lookup_node(r.name) # Root /\ locks[lookup_node(r.name)] # 0

\* The attempt ends at once when the node of the name is locked.
LEMMA TryNameBusy ==
  ASSUME NEW locks, NEW r, NameBusy(locks, r)
  PROVE  /\ try_get_path(locks, r).err = "EAGAIN"
         /\ try_get_path(locks, r).wnode = Root
         /\ try_get_path(locks, r).locks =
              IF locks[lookup_node(r.name)] > 0
              THEN [locks EXCEPT ![lookup_node(r.name)] =
                                   @ + TREELOCK_WAIT_OFFSET]
              ELSE locks
BY DEF NameBusy, try_get_path, Tried

\* An attempt that stops on the way up leaves the lock words as they were.
LEMMA TryStopped ==
  ASSUME NEW locks, NEW r, ~NameBusy(locks, r), Stops(locks, r) # {}
  PROVE  /\ try_get_path(locks, r).err =
              IF (CHOOSE m \in Stops(locks, r) :
                    \A n \in Stops(locks, r) : Len(n) <= Len(m)) \in gone
              THEN "ESTALE" ELSE "EAGAIN"
         /\ try_get_path(locks, r).wnode = Root
         /\ try_get_path(locks, r).locks = locks
BY DEF NameBusy, try_get_path, Tried, Stops

\* An attempt that succeeds holds its whole chain.
LEMMA TryTaken ==
  ASSUME NEW locks, NEW r, ~NameBusy(locks, r), Stops(locks, r) = {}
  PROVE  /\ try_get_path(locks, r).err = "OK"
         /\ try_get_path(locks, r).wnode = lookup_node(r.name)
         /\ try_get_path(locks, r).locks =
              [m \in Nodes |-> IF m = lookup_node(r.name) THEN TREELOCK_WRITE
                               ELSE IF m \in Chain(r.nodeid) THEN locks[m] + 1
                               ELSE locks[m]]
BY DEF NameBusy, try_get_path, Tried, Stops

\* The node for a name.
LEMMA LookedUp ==
  ASSUME NEW r \in Requests
  PROVE  /\ lookup_node(r.name) \in Nodes \cup {Root}
         /\ lookup_node(r.name) \notin gone \ {Root}
         /\ lookup_node(r.name) \notin Chain(r.nodeid)
<1>1. Root \notin Nodes
  BY NodesAssumption
<1>2. Root \notin Chain(r.nodeid)
  BY <1>1, RequestShape, ChainShape
<1> QED
  BY <1>2, RequestShape DEF lookup_node

\* A request has to wait: its name is locked, or the deepest node that stops
\* the walk is locked and still has its name.
Waits(locks, r) ==
  \/ NameBusy(locks, r)
  \/ \E m \in Chain(r.nodeid) :
       /\ m \notin gone /\ locks[m] < 0
       /\ \A n \in Chain(r.nodeid) \cap gone : Len(n) <= Len(m)

\* An attempt fails with EAGAIN exactly when something on the way is locked.
LEMMA TryWaits ==
  ASSUME NEW locks, NEW r \in Requests
  PROVE  try_get_path(locks, r).err = "EAGAIN" <=> Waits(locks, r)
<1> DEFINE S == Stops(locks, r)
           first == CHOOSE m \in S : \A n \in S : Len(n) <= Len(m)
<1>1. r.nodeid \in Nodes \cup {Root}
  BY RequestShape
<1>2. /\ \A m \in Chain(r.nodeid) : Len(m) \in Nat
      /\ \A m, n \in Chain(r.nodeid) : Len(m) = Len(n) => m = n
  BY <1>1, ChainShape
<1>3. CASE NameBusy(locks, r)
  BY <1>3, TryNameBusy DEF Waits
<1>4. CASE ~NameBusy(locks, r) /\ S # {}
  <2>1. S \in SUBSET Chain(r.nodeid)
    BY DEF Stops
  <2>2. first \in S /\ \A n \in S : Len(n) <= Len(first)
    BY <1>1, <1>4, <2>1, DeepestNode
  <2>3. try_get_path(locks, r).err = IF first \in gone THEN "ESTALE" ELSE "EAGAIN"
    BY <1>4, TryStopped
  <2> HIDE DEF first
  <2>4. ASSUME first \notin gone PROVE Waits(locks, r)
    BY <2>2, <2>4 DEF Waits, Stops, StopsAt
  <2>5. ASSUME Waits(locks, r) PROVE first \notin gone
    <3>1. PICK m \in Chain(r.nodeid) :
            /\ m \notin gone /\ locks[m] < 0
            /\ \A n \in Chain(r.nodeid) \cap gone : Len(n) <= Len(m)
      BY <1>4, <2>5 DEF Waits
    <3>2. m \in S /\ first \in Chain(r.nodeid)
      BY <2>2, <3>1 DEF Stops, StopsAt
    <3>3. Len(m) <= Len(first) /\ (first \in gone => Len(first) <= Len(m))
      BY <2>2, <3>1, <3>2
    <3> QED
      BY <1>2, <3>1, <3>2, <3>3
  <2> QED
    BY <2>3, <2>4, <2>5
<1>5. CASE ~NameBusy(locks, r) /\ S = {}
  <2>1. ~Waits(locks, r)
    BY <1>5 DEF Waits, Stops, StopsAt
  <2> QED
    BY <1>5, <2>1, TryTaken
<1> QED
  BY <1>3, <1>4, <1>5

\* More is locked than before.
Heavier(locks, more) ==
  \A m \in Nodes : /\ locks[m] # 0 => more[m] # 0
                   /\ locks[m] < 0 => more[m] < 0

\* What waits under some locks waits under heavier ones.
LEMMA WaitsOn ==
  ASSUME NEW locks, NEW more, Heavier(locks, more),
         NEW r \in Requests, Waits(locks, r)
  PROVE  Waits(more, r)
<1>1. Chain(r.nodeid) \subseteq Nodes
  BY RequestShape, ChainShape
<1>2. lookup_node(r.name) # Root => lookup_node(r.name) \in Nodes
  BY LookedUp
<1> QED
  BY <1>1, <1>2 DEF Waits, NameBusy, Heavier

-----------------------------------------------------------------------------
(* The invariant.                                                          *)

\* The queue holds each thread that waits once.
QueueOK ==
  /\ \A i, j \in 1 .. Len(lockq) : lockq[i] = lockq[j] => i = j
  /\ \A t \in Threads : phase[t] \in {"queued", "granted", "stale"} <=>
                          \E i \in 1 .. Len(lockq) : lockq[i] = t

\* The name of a request is locked, unless it was gone before.
NamesLocked ==
  \A t \in Threads : Locking(t) =>
    \/ wnode[t] = req[t].name
    \/ wnode[t] = Root /\ req[t].name \in gone

WordsOK == \A m \in Nodes : WordOK(treelock[m], Readers(m), Writers(m))

\* The walk of the queue is not at thread t yet.
Ahead(t) == waking > 0 /\ \A i \in 1 .. waking - 1 : lockq[i] # t

\* What the walk has passed still has to wait, as long as no removal is on its
\* way to its release and with it to another walk.
Walked ==
  (\A t \in Threads : Locking(t) => wnode[t] \notin gone) =>
    \A t \in Threads : phase[t] = "queued" => Ahead(t) \/ Waits(treelock, req[t])

IInv ==
  TypeOK /\ QueueOK /\ NamesLocked /\ WordsOK /\ ChainsIntact /\ Walked

\* The sets of threads behind the words.
LEMMA ReadersWriters ==
  ASSUME NEW m
  PROVE  Readers(m) \in SUBSET Threads /\ Writers(m) \in SUBSET Threads
BY DEF Readers, Writers

\* The invariant has what it is for.
LEMMA Consequences ==
  ASSUME IInv
  PROVE  LockWords /\ NoMissedWakeup
<1>1. LockWords
  BY DEF IInv, WordsOK, WordOK, LockWords
<1>2. NoMissedWakeup
  BY TryWaits DEF IInv, TypeOK, Walked, Ahead, NoMissedWakeup
<1> QED
  BY <1>1, <1>2

\* The invariant holds at the start.
LEMMA InitInv == Init => IInv
<1> SUFFICES ASSUME Init PROVE IInv
  OBVIOUS
<1>1. TypeOK
  BY DEF Init, TypeOK, Phases, Requests
<1>2. \A t \in Threads : ~Locking(t) /\ phase[t] = "idle"
  BY DEF Init, Locking
<1>3. QueueOK
  BY <1>2 DEF Init, QueueOK
<1>4. WordsOK
  <2>1. \A m \in Nodes : Readers(m) = {} /\ Writers(m) = {} /\ treelock[m] = 0
    BY <1>2 DEF Init, Readers, Writers
  <2> QED
    BY <2>1, FS_EmptySet DEF WordsOK, WordOK
<1> QED
  BY <1>1, <1>2, <1>3, <1>4 DEF IInv, NamesLocked, ChainsIntact, Walked

-----------------------------------------------------------------------------
(* Who holds what.                                                         *)

\* The same threads hold the same.
SameHolders ==
  \A s \in Threads : /\ Locking(s)' <=> Locking(s)
                     /\ Locking(s) => req'[s] = req[s] /\ wnode'[s] = wnode[s]

\* A step that moves no request keeps the sets of holders.
LEMMA SameSets ==
  ASSUME SameHolders
  PROVE  /\ \A m : Readers(m)' = Readers(m) /\ Writers(m)' = Writers(m)
         /\ UNCHANGED Locks!vars
<1>1. \A m : Readers(m)' = Readers(m)
  BY DEF SameHolders, Readers
<1>2. \A m : Writers(m)' = Writers(m)
  BY DEF SameHolders, Writers
<1>3. UNCHANGED Locks!vars
  BY DEF SameHolders, Locks!vars
<1> QED
  BY <1>1, <1>2, <1>3

\* Then what depends on holders and names stays.
LEMMA SameHolding ==
  ASSUME IInv, SameHolders, gone' = gone
  PROVE  NamesLocked' /\ ChainsIntact'
BY DEF IInv, SameHolders, NamesLocked, ChainsIntact

\* Thread t gets the locks of request r, w for writing; the others keep theirs.
Granted(t, r, w) ==
  /\ ~Locking(t) /\ Locking(t)'
  /\ req'[t] = r /\ wnode'[t] = w
  /\ \A s \in Threads \ {t} :
       /\ Locking(s)' <=> Locking(s)
       /\ req'[s] = req[s] /\ wnode'[s] = wnode[s]

\* A grant adds the request to the holders of its chain.
LEMMA GrantedSets ==
  ASSUME NEW t \in Threads, NEW r, NEW w, Granted(t, r, w), NEW m
  PROVE  /\ t \notin Readers(m)
         /\ Readers(m)' = IF m \in Chain(r.nodeid) THEN Readers(m) \cup {t}
                          ELSE Readers(m)
         /\ Writers(m)' = IF m = w THEN Writers(m) \cup {t} ELSE Writers(m)
<1>1. t \notin Readers(m) /\ t \notin Writers(m)
  BY DEF Granted, Readers, Writers
<1>2. Readers(m)' = IF m \in Chain(r.nodeid) THEN Readers(m) \cup {t}
                    ELSE Readers(m)
  BY DEF Granted, Readers
<1>3. Writers(m)' = IF m = w THEN Writers(m) \cup {t} ELSE Writers(m)
  BY DEF Granted, Writers
<1> QED
  BY <1>1, <1>2, <1>3

\* Thread t gives its locks back.
Freed(t) ==
  /\ Locking(t) /\ ~Locking(t)'
  /\ \A s \in Threads \ {t} :
       /\ Locking(s)' <=> Locking(s)
       /\ req'[s] = req[s] /\ wnode'[s] = wnode[s]

\* A release takes it out.
LEMMA FreedSets ==
  ASSUME NEW t \in Threads, Freed(t), NEW m
  PROVE  /\ Readers(m)' = Readers(m) \ {t}
         /\ Writers(m)' = Writers(m) \ {t}
         /\ t \in Readers(m) <=> m \in Chain(req[t].nodeid)
         /\ t \in Writers(m) <=> wnode[t] = m
<1>1. Readers(m)' = Readers(m) \ {t}
  BY DEF Freed, Readers
<1>2. Writers(m)' = Writers(m) \ {t}
  BY DEF Freed, Writers
<1>3. /\ t \in Readers(m) <=> m \in Chain(req[t].nodeid)
      /\ t \in Writers(m) <=> wnode[t] = m
  BY DEF Freed, Readers, Writers
<1> QED
  BY <1>1, <1>2, <1>3

-----------------------------------------------------------------------------
(* A walk of try_get_path.                                                 *)

\* Thread t tries to lock the path of r.
Tries(t, r) ==
  LET try == try_get_path(treelock, r) IN
  /\ ~Locking(t) /\ gone' = gone
  /\ treelock' = try.locks
  /\ wnode' = [wnode EXCEPT ![t] = try.wnode]
  /\ req'[t] = r /\ \A s \in Threads \ {t} : req'[s] = req[s]
  /\ Locking(t)' <=> try.err = "OK"
  /\ \A s \in Threads \ {t} : phase'[s] = phase[s]

\* What follows for locks, words and holders.
TriedOK ==
  /\ treelock' \in [Nodes -> Int]
  /\ wnode' \in [Threads -> Nodes \cup {Root}]
  /\ NamesLocked' /\ WordsOK' /\ ChainsIntact'
  /\ Heavier(treelock, treelock')
  /\ [Locks!Next]_Locks!vars

\* The walk fails and at most leaves a mark.
LEMMA FailedTry ==
  ASSUME IInv, NEW t \in Threads, NEW r \in Requests, Tries(t, r),
         try_get_path(treelock, r).err # "OK",
         try_get_path(treelock, r).wnode = Root,
         NEW w \in Nodes,
         \/ treelock' = treelock
         \/ /\ treelock[w] > 0
            /\ treelock' = [treelock EXCEPT ![w] = @ + TREELOCK_WAIT_OFFSET]
  PROVE  TriedOK
<1>1. SameHolders
  BY DEF SameHolders, Tries, Locking, IInv, TypeOK
<1>2. NamesLocked' /\ ChainsIntact'
  BY <1>1, SameHolding DEF Tries
<1>3. \A m \in Nodes : /\ WordOK(treelock[m], Readers(m), Writers(m))
                       /\ Readers(m) \in SUBSET Threads
                       /\ Writers(m) \in SUBSET Threads
                       /\ treelock[m] \in Int
  BY ReadersWriters DEF IInv, WordsOK, TypeOK
<1>4. \A m \in Nodes : WordOK(treelock'[m], Readers(m), Writers(m))
  <2> SUFFICES ASSUME NEW m \in Nodes
               PROVE  WordOK(treelock'[m], Readers(m), Writers(m))
    OBVIOUS
  <2>1. CASE treelock'[m] = treelock[m]
    BY <1>3, <2>1
  <2>2. CASE /\ treelock[m] > 0
             /\ treelock'[m] = treelock[m] + TREELOCK_WAIT_OFFSET
    <3>1. WordOK(treelock[m] + TREELOCK_WAIT_OFFSET, Readers(m), Writers(m))
      BY <1>3, <2>2, WordTaken
    <3> QED
      BY <2>2, <3>1
  <2> QED
    BY <2>1, <2>2 DEF IInv, TypeOK
<1>5. WordsOK'
  BY <1>1, <1>4, SameSets DEF WordsOK
<1>6. treelock' \in [Nodes -> Int] /\ wnode' \in [Threads -> Nodes \cup {Root}]
  <2>1. TREELOCK_WAIT_OFFSET \in Int
    BY IntMax DEF TREELOCK_WAIT_OFFSET
  <2>2. treelock' \in [Nodes -> Int]
    BY <1>3, <2>1 DEF IInv, TypeOK
  <2>3. wnode' \in [Threads -> Nodes \cup {Root}]
    BY DEF Tries, IInv, TypeOK
  <2> QED
    BY <2>2, <2>3
<1>7. Heavier(treelock, treelock')
  <2>1. treelock[w] > 0 => treelock[w] + TREELOCK_WAIT_OFFSET < 0
    <3>1. WordOK(treelock[w], Readers(w), Writers(w)) /\ treelock[w] \in Int
      BY <1>3
    <3>2. treelock[w] >= 0 => treelock[w] = Cardinality(Readers(w))
      BY <1>3, <3>1, WordTells
    <3>3. Cardinality(Readers(w)) \in 0 .. INT_MAX - 1
      BY <1>3, CountShape
    <3> QED
      BY <3>1, <3>2, <3>3, IntMax DEF TREELOCK_WAIT_OFFSET
  <2> QED
    BY <1>3, <2>1 DEF Heavier, IInv, TypeOK
<1> QED
  BY <1>1, <1>2, <1>5, <1>6, <1>7, SameSets DEF TriedOK

\* The walk succeeds: the path is free for the request.
LEMMA GrantedTry ==
  ASSUME IInv, NEW t \in Threads, NEW r \in Requests, Tries(t, r),
         ~NameBusy(treelock, r), Stops(treelock, r) = {}
  PROVE  TriedOK
<1> DEFINE w == lookup_node(r.name)
<1>1. /\ w \in Nodes \cup {Root} /\ w \notin Chain(r.nodeid)
      /\ Chain(r.nodeid) \subseteq Nodes /\ Root \notin Nodes
      /\ (w # Root => w \notin gone)
  BY LookedUp, RequestShape, ChainShape, NodesAssumption
<1>2. /\ w # Root => treelock[w] = 0
      /\ \A m \in Chain(r.nodeid) : m \notin gone /\ ~(treelock[m] < 0)
  BY DEF NameBusy, Stops, StopsAt
<1>3. /\ treelock' = [m \in Nodes |-> IF m = w THEN TREELOCK_WRITE
                                      ELSE IF m \in Chain(r.nodeid)
                                      THEN treelock[m] + 1 ELSE treelock[m]]
      /\ wnode' = [wnode EXCEPT ![t] = w] /\ Locking(t)'
  <2> DEFINE try == try_get_path(treelock, r)
  <2>1. /\ try.err = "OK" /\ try.wnode = w
        /\ try.locks = [m \in Nodes |-> IF m = w THEN TREELOCK_WRITE
                                        ELSE IF m \in Chain(r.nodeid)
                                        THEN treelock[m] + 1 ELSE treelock[m]]
    BY TryTaken
  <2>2. /\ treelock' = try.locks /\ wnode' = [wnode EXCEPT ![t] = try.wnode]
        /\ Locking(t)' <=> try.err = "OK"
    BY DEF Tries
  <2> HIDE DEF try, w
  <2> QED
    BY <2>1, <2>2
<1>n. w = r.name \/ (w = Root /\ r.name \in gone)
  BY DEF lookup_node
<1> HIDE DEF w
<1>4. Granted(t, r, w)
  BY <1>3 DEF Granted, Tries, Locking, IInv, TypeOK
<1>5. \A m \in Nodes : /\ WordOK(treelock[m], Readers(m), Writers(m))
                       /\ Readers(m) \in SUBSET Threads
                       /\ Writers(m) \in SUBSET Threads
                       /\ treelock[m] \in Int
  BY ReadersWriters DEF IInv, WordsOK, TypeOK
<1>6. WordsOK'
  <2> SUFFICES ASSUME NEW m \in Nodes
               PROVE  WordOK(treelock'[m], Readers(m)', Writers(m)')
    BY DEF WordsOK
  <2>1. CASE m = w
    <3>1. treelock'[m] = TREELOCK_WRITE /\ treelock[m] = 0
      BY <1>1, <1>2, <1>3, <2>1
    <3>2. Readers(m)' = Readers(m) /\ Writers(m)' = Writers(m) \cup {t}
      BY <1>1, <1>4, <2>1, GrantedSets
    <3>3. WordOK(TREELOCK_WRITE, Readers(m), Writers(m) \cup {t})
      BY <1>5, <3>1, WordTaken
    <3> QED
      BY <3>1, <3>2, <3>3
  <2>2. CASE m \in Chain(r.nodeid)
    <3>1. treelock'[m] = treelock[m] + 1 /\ treelock[m] >= 0
      BY <1>1, <1>2, <1>3, <1>5, <2>2
    <3>2. /\ Readers(m)' = Readers(m) \cup {t} /\ t \notin Readers(m)
          /\ Writers(m)' = Writers(m)
      BY <1>1, <1>4, <2>2, GrantedSets
    <3>3. WordOK(treelock[m] + 1, Readers(m) \cup {t}, Writers(m))
      BY <1>5, <3>1, <3>2, WordTaken
    <3> QED
      BY <3>1, <3>2, <3>3
  <2>3. CASE m # w /\ m \notin Chain(r.nodeid)
    BY <1>3, <1>4, <1>5, <2>3, GrantedSets
  <2> QED
    BY <2>1, <2>2, <2>3
<1>7. NamesLocked' /\ ChainsIntact'
  <2>1. gone' = gone /\ \A s \in Threads : Locking(s)' => s = t \/ Locking(s)
    BY <1>4 DEF Granted, Tries
  <2>2. ASSUME NEW s \in Threads, Locking(s)'
        PROVE  /\ wnode'[s] = req'[s].name
                    \/ (wnode'[s] = Root /\ req'[s].name \in gone)
               /\ Chain(req'[s].nodeid) \cap gone = {}
    <3>1. CASE s = t
      BY <1>2, <1>4, <1>n, <3>1 DEF Granted
    <3>2. CASE s # t
      BY <1>4, <2>1, <2>2, <3>2 DEF Granted, IInv, NamesLocked, ChainsIntact
    <3> QED
      BY <3>1, <3>2
  <2> QED
    BY <2>1, <2>2 DEF NamesLocked, ChainsIntact
<1>8. treelock' \in [Nodes -> Int] /\ wnode' \in [Threads -> Nodes \cup {Root}]
  <2>1. TREELOCK_WRITE \in Int
    BY DEF TREELOCK_WRITE
  <2> QED
    BY <1>1, <1>3, <1>5, <2>1 DEF IInv, TypeOK
<1>9. Heavier(treelock, treelock')
  BY <1>1, <1>2, <1>3, <1>5 DEF Heavier, TREELOCK_WRITE
<1>10. [Locks!Next]_Locks!vars
  <2>1. PICK R \in SUBSET Nodes, W \in SUBSET Nodes :
          R = Chain(r.nodeid) /\ W = {w} \ {Root}
    BY <1>1
  <2>2. ASSUME NEW s \in Threads \ {t}, Locking(s)
        PROVE  /\ W \cap (Chain(req[s].nodeid) \cup ({wnode[s]} \ {Root})) = {}
               /\ R \cap ({wnode[s]} \ {Root}) = {}
    <3>1. ASSUME w # Root
          PROVE  w \notin Chain(req[s].nodeid) /\ w # wnode[s]
      <4>1. Readers(w) = {} /\ Writers(w) = {}
        BY <1>1, <1>2, <1>5, <3>1, WordTells
      <4> QED
        BY <2>2, <4>1 DEF Readers, Writers
    <3>2. ASSUME NEW m \in R PROVE m # wnode[s]
      <4>1. m \in Nodes /\ treelock[m] >= 0
        BY <1>1, <1>2, <1>5, <2>1
      <4>2. Writers(m) = {}
        BY <1>5, <4>1, WordTells
      <4> QED
        BY <2>2, <4>2 DEF Writers
    <3> QED
      BY <2>1, <3>1, <3>2
  <2>3. Locks!Grant(t, R, W)
    <3>1. ~Locking(t) /\ Locking(t)' /\ req'[t] = r /\ wnode'[t] = w
      BY <1>4 DEF Granted
    <3> QED
      BY <1>4, <2>1, <2>2, <3>1 DEF Locks!Grant, Locks!Compatible, Granted
  <2> QED
    BY <2>3 DEF Locks!Next
<1> QED
  BY <1>6, <1>7, <1>8, <1>9, <1>10 DEF TriedOK

\* Every walk.
LEMMA TryStep ==
  ASSUME IInv, NEW t \in Threads, NEW r \in Requests, Tries(t, r)
  PROVE  TriedOK
<1>1. CASE NameBusy(treelock, r)
  <2> DEFINE w == lookup_node(r.name)
  <2>1. w \in Nodes
    BY <1>1, LookedUp DEF NameBusy
  <2>2. \/ treelock' = treelock
        \/ /\ treelock[w] > 0
           /\ treelock' = [treelock EXCEPT ![w] = @ + TREELOCK_WAIT_OFFSET]
    BY <1>1, TryNameBusy DEF Tries
  <2>3. /\ try_get_path(treelock, r).err # "OK"
        /\ try_get_path(treelock, r).wnode = Root
    BY <1>1, TryNameBusy
  <2> HIDE DEF w
  <2> QED
    BY <2>1, <2>2, <2>3, FailedTry
<1>2. CASE ~NameBusy(treelock, r) /\ Stops(treelock, r) # {}
  <2>1. /\ treelock' = treelock
        /\ try_get_path(treelock, r).err # "OK"
        /\ try_get_path(treelock, r).wnode = Root
    BY <1>2, TryStopped DEF Tries
  <2>2. PICK w \in Chain(r.nodeid) : TRUE
    BY <1>2 DEF Stops
  <2>3. w \in Nodes
    BY RequestShape, ChainShape
  <2> QED
    BY <2>1, <2>3, FailedTry
<1>3. CASE ~NameBusy(treelock, r) /\ Stops(treelock, r) = {}
  BY <1>3, GrantedTry
<1> QED
  BY <1>1, <1>2, <1>3

-----------------------------------------------------------------------------
(* The queue.                                                              *)

\* A function on 1 .. n is a sequence.
LEMMA FunctionSequence ==
  ASSUME NEW S, NEW n \in Nat, NEW f \in [1 .. n -> S]
  PROVE  f \in Seq(S) /\ Len(f) = n
<1>1. f \in Seq(S)
  BY SeqDef
<1>2. DOMAIN f = 1 .. Len(f) /\ Len(f) \in Nat
  BY <1>1, LenProperties
<1> QED
  BY <1>1, <1>2

\* dequeue_path takes out the one element of its thread.
LEMMA DequeuedQueue ==
  ASSUME TypeOK, QueueOK, NEW t \in Threads,
         NEW a \in 1 .. Len(lockq), lockq[a] = t,
         NEW q, q = Dequeued(t)
  PROVE  /\ q \in Seq(Threads)
         /\ \A i, j \in 1 .. Len(q) : q[i] = q[j] => i = j
         /\ \A s \in Threads :
              (\E i \in 1 .. Len(q) : q[i] = s) <=>
                s # t /\ \E i \in 1 .. Len(lockq) : lockq[i] = s
<1>1. lockq \in Seq(Threads) /\ Len(lockq) \in Nat
  BY DEF TypeOK
<1>2. \A i, j \in 1 .. Len(lockq) : lockq[i] = lockq[j] => i = j
  BY DEF QueueOK
<1>3. a = CHOOSE i \in 1 .. Len(lockq) : lockq[i] = t
  BY <1>2
<1>4. q = [i \in 1 .. Len(lockq) - 1 |-> lockq[IF i < a THEN i ELSE i + 1]]
  BY <1>3 DEF Dequeued
<1>5. Len(lockq) - 1 \in Nat
  BY <1>1
<1>6. /\ q \in Seq(Threads) /\ Len(q) = Len(lockq) - 1
      /\ \A i \in 1 .. Len(lockq) - 1 :
           q[i] = lockq[IF i < a THEN i ELSE i + 1]
  <2>1. q \in [1 .. Len(lockq) - 1 -> Threads]
    BY <1>1, <1>4
  <2>2. q \in Seq(Threads) /\ Len(q) = Len(lockq) - 1
    BY <1>5, <2>1, FunctionSequence
  <2>3. ASSUME NEW i \in 1 .. Len(lockq) - 1
        PROVE  q[i] = lockq[IF i < a THEN i ELSE i + 1]
    BY <1>4
  <2> QED
    BY <2>2, <2>3
<1>7. \A i, j \in 1 .. Len(q) : q[i] = q[j] => i = j
  BY <1>1, <1>2, <1>6
<1>8. ASSUME NEW s \in Threads
      PROVE  (\E i \in 1 .. Len(q) : q[i] = s) <=>
               s # t /\ \E i \in 1 .. Len(lockq) : lockq[i] = s
  <2>1. ASSUME NEW i \in 1 .. Len(q), q[i] = s
        PROVE  s # t /\ \E k \in 1 .. Len(lockq) : lockq[k] = s
    <3> DEFINE k == IF i < a THEN i ELSE i + 1
    <3>1. k \in 1 .. Len(lockq) /\ lockq[k] = s /\ k # a
      BY <1>1, <1>6, <2>1
    <3> QED
      BY <1>2, <3>1
  <2>2. ASSUME s # t, NEW k \in 1 .. Len(lockq), lockq[k] = s
        PROVE  \E i \in 1 .. Len(q) : q[i] = s
    <3> DEFINE i == IF k < a THEN k ELSE k - 1
    <3>1. k # a
      BY <2>2
    <3>2. i \in 1 .. Len(q) /\ q[i] = lockq[k]
      BY <1>1, <1>6, <3>1
    <3> QED
      BY <2>2, <3>2
  <2> QED
    BY <2>1, <2>2
<1> QED
  BY <1>6, <1>7, <1>8

\* The names of requests have not changed.
LEMMA WaitsPrimed ==
  ASSUME gone' = gone, NEW s \in Threads
  PROVE  Waits(treelock, req[s])' <=> Waits(treelock', req'[s])
BY DEF Waits, NameBusy, lookup_node

\* The outcomes of a walk.
LEMMA TryOutcomes ==
  ASSUME NEW locks, NEW r
  PROVE  try_get_path(locks, r).err \in {"OK", "EAGAIN", "ESTALE"}
<1>1. CASE NameBusy(locks, r)
  BY <1>1, TryNameBusy
<1>2. CASE ~NameBusy(locks, r) /\ Stops(locks, r) # {}
  BY <1>2, TryStopped
<1>3. CASE ~NameBusy(locks, r) /\ Stops(locks, r) = {}
  BY <1>3, TryTaken
<1> QED
  BY <1>1, <1>2, <1>3

-----------------------------------------------------------------------------
(* The steps.                                                              *)

StepOK == IInv' /\ [Locks!Next]_Locks!vars

\* get_path_common: the request is granted, fails, or is queued.
LEMMA GetPathStep ==
  ASSUME IInv, NEW t \in Threads, NEW r \in Requests, get_path_common(t, r)
  PROVE  StepOK
<1> DEFINE try == try_get_path(treelock, r)
<1>1. /\ waking = 0 /\ waking' = 0 /\ phase[t] = "idle" /\ gone' = gone
      /\ treelock' = try.locks
      /\ req' = [req EXCEPT ![t] = r]
      /\ wnode' = [wnode EXCEPT ![t] = try.wnode]
  BY DEF get_path_common
<1>2. try.err \in {"OK", "EAGAIN", "ESTALE"}
  BY TryOutcomes
<1>3. /\ try.err = "OK" => phase' = [phase EXCEPT ![t] = "holding"]
      /\ try.err = "EAGAIN" => phase' = [phase EXCEPT ![t] = "queued"]
      /\ try.err = "ESTALE" => phase' = [phase EXCEPT ![t] = "idle"]
      /\ lockq' = IF try.err = "EAGAIN" THEN Append(lockq, t) ELSE lockq
  BY DEF get_path_common
<1>e. try.err = "EAGAIN" <=> Waits(treelock, r)
  BY TryWaits
<1> HIDE DEF try
<1>4. /\ phase \in [Threads -> Phases] /\ req \in [Threads -> Requests]
      /\ lockq \in Seq(Threads) /\ Len(lockq) \in Nat
  BY DEF IInv, TypeOK
<1>5. phase' \in [Threads -> Phases] /\ req' \in [Threads -> Requests]
  BY <1>1, <1>2, <1>3, <1>4 DEF Phases
<1>6. lockq' \in Seq(Threads) /\ Len(lockq') \in Nat
  BY <1>3, <1>4
<1>7. Tries(t, r)
  <2>1. Locking(t)' <=> try.err = "OK"
    BY <1>2, <1>3, <1>4 DEF Locking
  <2>2. \A s \in Threads \ {t} : phase'[s] = phase[s]
    BY <1>2, <1>3, <1>4
  <2> QED
    BY <1>1, <1>4, <2>1, <2>2 DEF Tries, Locking, try
<1>8. TriedOK
  BY <1>7, TryStep
<1>9. TypeOK'
  <2>1. gone' \subseteq Nodes /\ waking' \in 0 .. Len(lockq')
    BY <1>1, <1>6 DEF IInv, TypeOK
  <2> QED
    BY <1>5, <1>6, <1>8, <2>1 DEF TypeOK, TriedOK
<1>10. QueueOK'
  <2>1. \A i \in 1 .. Len(lockq) : lockq[i] # t
    BY <1>1 DEF IInv, QueueOK
  <2>2. CASE try.err = "EAGAIN"
    <3>1. /\ Len(lockq') = Len(lockq) + 1 /\ lockq'[Len(lockq) + 1] = t
          /\ \A i \in 1 .. Len(lockq) : lockq'[i] = lockq[i]
      BY <1>3, <1>4, <2>2
    <3>2. \A i, j \in 1 .. Len(lockq') : lockq'[i] = lockq'[j] => i = j
      <4> SUFFICES ASSUME NEW i \in 1 .. Len(lockq'), NEW j \in 1 .. Len(lockq'),
                          lockq'[i] = lockq'[j]
                   PROVE  i = j
        OBVIOUS
      <4>1. /\ i \in 1 .. Len(lockq) \/ i = Len(lockq) + 1
            /\ j \in 1 .. Len(lockq) \/ j = Len(lockq) + 1
        BY <1>4, <3>1
      <4> QED
        BY <2>1, <3>1, <4>1 DEF IInv, QueueOK
    <3>3. ASSUME NEW s \in Threads
          PROVE  phase'[s] \in {"queued", "granted", "stale"} <=>
                   \E i \in 1 .. Len(lockq') : lockq'[i] = s
      <4>1. CASE s = t
        BY <1>3, <1>4, <2>2, <3>1, <4>1
      <4>2. CASE s # t
        <5>1. phase'[s] = phase[s]
          BY <1>3, <1>4, <2>2, <4>2
        <5>2. (\E i \in 1 .. Len(lockq') : lockq'[i] = s) <=>
                \E i \in 1 .. Len(lockq) : lockq[i] = s
          BY <1>4, <3>1, <4>2
        <5> QED
          BY <5>1, <5>2 DEF IInv, QueueOK
      <4> QED
        BY <4>1, <4>2
    <3> QED
      BY <3>2, <3>3 DEF QueueOK
  <2>3. CASE try.err # "EAGAIN"
    BY <1>1, <1>2, <1>3, <1>4, <2>3 DEF IInv, QueueOK
  <2> QED
    BY <2>2, <2>3
<1>11. Walked'
  <2> SUFFICES ASSUME \A s \in Threads : Locking(s)' => wnode'[s] \notin gone',
                      NEW s \in Threads, phase'[s] = "queued"
               PROVE  Waits(treelock, req[s])'
    BY DEF Walked
  <2>1. \A u \in Threads : Locking(u) => wnode[u] \notin gone
    <3> SUFFICES ASSUME NEW u \in Threads, Locking(u) PROVE wnode[u] \notin gone
      OBVIOUS
    <3>1. u # t
      BY <1>1 DEF Locking
    <3>2. Locking(u)' /\ wnode'[u] = wnode[u]
      BY <1>7, <3>1 DEF Tries, Locking, IInv, TypeOK
    <3> QED
      BY <1>1, <3>2
  <2>2. Waits(treelock, req'[s])
    <3>1. CASE s = t
      <4>1. try.err = "EAGAIN" /\ req'[s] = r
        BY <1>1, <1>2, <1>3, <1>4, <3>1
      <4> QED
        BY <1>e, <4>1
    <3>2. CASE s # t
      <4>1. phase[s] = "queued" /\ req'[s] = req[s]
        BY <1>1, <1>4, <1>7, <3>2 DEF Tries
      <4> QED
        BY <1>1, <2>1, <4>1 DEF IInv, Walked, Ahead
    <3> QED
      BY <3>1, <3>2
  <2>3. Waits(treelock', req'[s])
    BY <1>5, <1>8, <2>2, WaitsOn DEF TriedOK
  <2> QED
    BY <1>1, <2>3, WaitsPrimed
<1> QED
  BY <1>8, <1>9, <1>10, <1>11 DEF StepOK, IInv, TriedOK

\* dequeue_path: a thread takes up what it was granted, or its error.
LEMMA DequeueStep ==
  ASSUME IInv, NEW t \in Threads, dequeue_path(t)
  PROVE  StepOK
<1>1. /\ waking = 0 /\ phase[t] \in {"granted", "stale"}
      /\ phase' = [phase EXCEPT ![t] =
                     IF phase[t] = "granted" THEN "holding" ELSE "idle"]
      /\ lockq' = Dequeued(t)
      /\ UNCHANGED <<treelock, gone, req, wnode, waking>>
  BY DEF dequeue_path
<1>2. phase \in [Threads -> Phases] /\ Len(lockq) \in Nat
  BY DEF IInv, TypeOK
<1>3. PICK a \in 1 .. Len(lockq) : lockq[a] = t
  BY <1>1 DEF IInv, QueueOK
<1>4. /\ lockq' \in Seq(Threads)
      /\ \A i, j \in 1 .. Len(lockq') : lockq'[i] = lockq'[j] => i = j
      /\ \A s \in Threads :
           (\E i \in 1 .. Len(lockq') : lockq'[i] = s) <=>
             s # t /\ \E i \in 1 .. Len(lockq) : lockq[i] = s
  <2>1. PICK q : q = Dequeued(t)
    OBVIOUS
  <2>2. /\ q \in Seq(Threads)
        /\ \A i, j \in 1 .. Len(q) : q[i] = q[j] => i = j
        /\ \A s \in Threads :
             (\E i \in 1 .. Len(q) : q[i] = s) <=>
               s # t /\ \E i \in 1 .. Len(lockq) : lockq[i] = s
    BY <1>3, <2>1, DequeuedQueue DEF IInv
  <2>3. lockq' = q
    BY <1>1, <2>1
  <2> QED
    BY <2>2, <2>3
<1>5. SameHolders
  BY <1>1, <1>2 DEF SameHolders, Locking
<1>6. TypeOK'
  <2>1. phase' \in [Threads -> Phases]
    BY <1>1, <1>2 DEF Phases
  <2>2. Len(lockq') \in Nat
    BY <1>4
  <2>3. waking' \in 0 .. Len(lockq')
    BY <1>1, <2>2
  <2> QED
    BY <1>1, <1>4, <2>1, <2>3 DEF IInv, TypeOK
<1>7. QueueOK'
  <2>1. ASSUME NEW s \in Threads
        PROVE  phase'[s] \in {"queued", "granted", "stale"} <=>
                 s # t /\ phase[s] \in {"queued", "granted", "stale"}
    BY <1>1, <1>2
  <2> QED
    BY <1>4, <2>1 DEF IInv, QueueOK
<1>8. NamesLocked' /\ ChainsIntact'
  BY <1>1, <1>5, SameHolding
<1>9. WordsOK'
  BY <1>1, <1>5, SameSets DEF IInv, WordsOK
<1>10. Walked'
  <2> SUFFICES ASSUME \A s \in Threads : Locking(s)' => wnode'[s] \notin gone',
                      NEW s \in Threads, phase'[s] = "queued"
               PROVE  Waits(treelock, req[s])'
    BY DEF Walked
  <2>1. \A u \in Threads : Locking(u) => wnode[u] \notin gone
    BY <1>1, <1>5 DEF SameHolders
  <2>2. phase[s] = "queued"
    BY <1>1, <1>2
  <2>3. Waits(treelock, req[s])
    BY <1>1, <2>1, <2>2 DEF IInv, Walked, Ahead
  <2> QED
    BY <1>1, <2>3, WaitsPrimed
<1> QED
  BY <1>5, <1>6, <1>7, <1>8, <1>9, <1>10, SameSets DEF StepOK, IInv

\* remove_node: only a name that its thread has alone.
LEMMA RemoveNodeStep ==
  ASSUME IInv, NEW t \in Threads, remove_node(t)
  PROVE  StepOK
<1> DEFINE n == req[t].name
<1>1. /\ Locking(t) /\ n # Root /\ n \notin gone /\ gone' = gone \cup {n}
      /\ UNCHANGED <<treelock, phase, req, wnode, lockq, waking>>
  BY DEF remove_node, Locking
<1>2. n \in Nodes
  BY <1>1, RequestShape DEF IInv, TypeOK
<1>3. wnode[t] = n
  BY <1>1 DEF IInv, NamesLocked
<1>4. Readers(n) = {}
  <2>1. t \in Writers(n)
    BY <1>1, <1>3 DEF Writers
  <2>2. WordOK(treelock[n], Readers(n), Writers(n))
    BY <1>2 DEF IInv, WordsOK
  <2> QED
    BY <2>1, <2>2, ReadersWriters, WordTells
<1>5. SameHolders
  BY <1>1 DEF SameHolders, Locking
<1>6. TypeOK' /\ QueueOK'
  BY <1>1, <1>2 DEF IInv, TypeOK, QueueOK
<1>7. NamesLocked'
  BY <1>1, <1>5 DEF IInv, SameHolders, NamesLocked
<1>8. ChainsIntact'
  <2> SUFFICES ASSUME NEW s \in Threads, Locking(s)
               PROVE  Chain(req[s].nodeid) \cap (gone \cup {n}) = {}
    BY <1>1, <1>5 DEF ChainsIntact, SameHolders
  <2>1. n \notin Chain(req[s].nodeid)
    BY <1>4 DEF Readers
  <2> QED
    BY <2>1 DEF IInv, ChainsIntact
<1>9. WordsOK'
  BY <1>1, <1>5, SameSets DEF IInv, WordsOK
<1>10. Walked'
  <2>1. Locking(t)' /\ wnode'[t] \in gone'
    BY <1>1, <1>3 DEF Locking
  <2> QED
    BY <2>1 DEF Walked
<1> QED
  BY <1>5, <1>6, <1>7, <1>8, <1>9, <1>10, SameSets DEF StepOK, IInv

\* free_path_wrlock: the locks go, the walk of the queue starts.
LEMMA FreeStep ==
  ASSUME IInv, NEW t \in Threads, free_path_wrlock(t)
  PROVE  StepOK
<1> DEFINE C == Chain(req[t].nodeid)
           w == wnode[t]
<1>1. /\ waking = 0 /\ phase[t] = "holding"
      /\ treelock' = unlock_path(treelock, req[t].nodeid, w)
      /\ phase' = [phase EXCEPT ![t] = "idle"]
      /\ wnode' = [wnode EXCEPT ![t] = Root]
      /\ waking' = IF lockq = << >> THEN 0 ELSE 1
      /\ gone' = gone /\ req' = req /\ lockq' = lockq
  BY DEF free_path_wrlock
<1>2. /\ treelock \in [Nodes -> Int] /\ phase \in [Threads -> Phases]
      /\ req \in [Threads -> Requests]
      /\ wnode \in [Threads -> Nodes \cup {Root}]
      /\ lockq \in Seq(Threads) /\ Len(lockq) \in Nat
  BY DEF IInv, TypeOK
<1>3. Locking(t) /\ C \cap gone = {}
  BY <1>1 DEF Locking, IInv, ChainsIntact
<1>4. w \notin C /\ C \subseteq Nodes
  <2>1. req[t] \in Requests
    BY <1>2
  <2>2. req[t].name \notin C /\ C \subseteq Nodes
    BY <2>1, RequestShape, ChainShape
  <2> QED
    BY <1>3, <2>2, NodesAssumption DEF IInv, NamesLocked
<1>5. treelock' = [m \in Nodes |-> IF m = w THEN 0
                                   ELSE IF m \in C THEN ReaderLess(treelock[m])
                                   ELSE treelock[m]]
  BY <1>1, <1>3 DEF unlock_path
<1>6. Freed(t)
  BY <1>1, <1>2 DEF Freed, Locking
<1> HIDE DEF C, w
<1>7. \A m \in Nodes : /\ WordOK(treelock[m], Readers(m), Writers(m))
                       /\ Readers(m) \in SUBSET Threads
                       /\ Writers(m) \in SUBSET Threads
  BY ReadersWriters DEF IInv, WordsOK
<1>8. WordsOK'
  <2> SUFFICES ASSUME NEW m \in Nodes
               PROVE  WordOK(treelock'[m], Readers(m)', Writers(m)')
    BY DEF WordsOK
  <2>1. /\ Readers(m)' = Readers(m) \ {t} /\ Writers(m)' = Writers(m) \ {t}
        /\ t \in Readers(m) <=> m \in C
        /\ t \in Writers(m) <=> w = m
    BY <1>6, FreedSets DEF C, w
  <2>2. CASE m = w
    <3>1. treelock'[m] = 0 /\ t \in Writers(m) /\ Readers(m)' = Readers(m)
      BY <1>4, <1>5, <2>1, <2>2
    <3>2. WordOK(0, Readers(m), Writers(m) \ {t})
      BY <1>7, <3>1, WordReleased
    <3> QED
      BY <2>1, <3>1, <3>2
  <2>3. CASE m \in C
    <3>1. /\ treelock'[m] = ReaderLess(treelock[m])
          /\ t \in Readers(m) /\ Writers(m)' = Writers(m)
      BY <1>4, <1>5, <2>1, <2>3
    <3>2. WordOK(ReaderLess(treelock[m]), Readers(m) \ {t}, Writers(m))
      BY <1>7, <3>1, WordReleased
    <3> QED
      BY <2>1, <3>1, <3>2
  <2>4. CASE m # w /\ m \notin C
    <3>1. /\ treelock'[m] = treelock[m]
          /\ Readers(m)' = Readers(m) /\ Writers(m)' = Writers(m)
      BY <1>5, <2>1, <2>4
    <3> QED
      BY <1>7, <3>1
  <2> QED
    BY <2>2, <2>3, <2>4
<1>9. TypeOK'
  <2>1. \A m \in Nodes : ReaderLess(treelock[m]) \in Int
    BY <1>2 DEF ReaderLess
  <2>2. treelock' \in [Nodes -> Int]
    BY <1>2, <1>5, <2>1
  <2>3. phase' \in [Threads -> Phases]
    BY <1>1, <1>2 DEF Phases
  <2>4. wnode' \in [Threads -> Nodes \cup {Root}]
    BY <1>1, <1>2
  <2>5. waking' \in 0 .. Len(lockq')
    <3>1. lockq # << >> => Len(lockq) >= 1
      BY <1>2
    <3> QED
      BY <1>1, <1>2, <3>1
  <2> QED
    BY <1>1, <2>2, <2>3, <2>4, <2>5 DEF IInv, TypeOK
<1>10. QueueOK'
  BY <1>1, <1>2 DEF IInv, QueueOK
<1>11. NamesLocked' /\ ChainsIntact'
  BY <1>1, <1>6 DEF Freed, IInv, NamesLocked, ChainsIntact
<1>12. Walked'
  <2> SUFFICES ASSUME NEW s \in Threads, phase'[s] = "queued"
               PROVE  Ahead(s)'
    BY DEF Walked
  <2>1. PICK i \in 1 .. Len(lockq') : lockq'[i] = s
    BY <1>10 DEF QueueOK
  <2>2. lockq # << >>
    BY <1>1, <2>1
  <2> QED
    BY <1>1, <2>2 DEF Ahead
<1>13. Locks!Next
  <2>1. Locks!Release(t)
    BY <1>1, <1>6 DEF Locks!Release, Freed
  <2> QED
    BY <2>1 DEF Locks!Next
<1> QED
  BY <1>8, <1>9, <1>10, <1>11, <1>12, <1>13 DEF StepOK, IInv

\* queue_element_wakeup: a request that waits is tried again.
LEMMA WakeupStep ==
  ASSUME IInv, queue_element_wakeup
  PROVE  StepOK
<1>1. /\ waking > 0 /\ waking' = NextElement(waking)
      /\ gone' = gone /\ req' = req /\ lockq' = lockq
  BY DEF queue_element_wakeup
<1>2. /\ phase \in [Threads -> Phases] /\ req \in [Threads -> Requests]
      /\ lockq \in Seq(Threads) /\ Len(lockq) \in Nat
      /\ waking \in 1 .. Len(lockq)
  BY <1>1 DEF IInv, TypeOK
<1>3. PICK t \in Threads : t = lockq[waking]
  BY <1>2
<1>4. waking' \in 0 .. Len(lockq')
  BY <1>1, <1>2 DEF NextElement
\* A thread that the walk was not past and still is ahead of, or just reached.
<1>5. ASSUME NEW s \in Threads, s # t, Ahead(s),
             \E i \in 1 .. Len(lockq) : lockq[i] = s
      PROVE  Ahead(s)'
  <2>1. PICK i \in 1 .. Len(lockq) : lockq[i] = s
    BY <1>5
  <2>2. i > waking
    BY <1>2, <1>3, <1>5, <2>1 DEF Ahead
  <2>3. waking' = waking + 1
    BY <1>1, <1>2, <2>2 DEF NextElement
  <2>4. \A k \in 1 .. waking : lockq[k] # s
    BY <1>2, <1>3, <1>5 DEF Ahead
  <2> QED
    BY <1>1, <1>2, <2>3, <2>4 DEF Ahead
<1>6. CASE phase[t] # "queued"
  <2>1. UNCHANGED <<treelock, wnode, phase>>
    BY <1>3, <1>6 DEF queue_element_wakeup
  <2>2. SameHolders
    BY <1>1, <2>1 DEF SameHolders, Locking
  <2>3. TypeOK' /\ QueueOK'
    BY <1>1, <1>4, <2>1 DEF IInv, TypeOK, QueueOK
  <2>4. NamesLocked' /\ ChainsIntact' /\ WordsOK'
    BY <1>1, <2>1, <2>2, SameHolding, SameSets DEF IInv, WordsOK
  <2>5. Walked'
    <3> SUFFICES ASSUME \A s \in Threads : Locking(s)' => wnode'[s] \notin gone',
                        NEW s \in Threads, phase'[s] = "queued"
                 PROVE  Ahead(s)' \/ Waits(treelock, req[s])'
      BY DEF Walked
    <3>1. phase[s] = "queued" /\ s # t
      BY <1>6, <2>1
    <3>2. Ahead(s) \/ Waits(treelock, req[s])
      BY <1>1, <2>1, <2>2, <3>1 DEF IInv, Walked, SameHolders
    <3>3. ASSUME Ahead(s) PROVE Ahead(s)'
      BY <1>5, <3>1, <3>3 DEF IInv, QueueOK
    <3>4. ASSUME Waits(treelock, req[s]) PROVE Waits(treelock, req[s])'
      BY <1>1, <2>1, <3>4, WaitsPrimed
    <3> QED
      BY <3>2, <3>3, <3>4
  <2> QED
    BY <2>2, <2>3, <2>4, <2>5, SameSets DEF StepOK, IInv
<1>7. CASE phase[t] = "queued"
  <2> DEFINE r == req[t]
             try == try_get_path(treelock, r)
  <2>1. /\ treelock' = try.locks
        /\ wnode' = [wnode EXCEPT ![t] = try.wnode]
        /\ phase' = [phase EXCEPT ![t] =
                       CASE try.err = "OK"     -> "granted"
                         [] try.err = "EAGAIN" -> "queued"
                         [] try.err = "ESTALE" -> "stale"]
    BY <1>3, <1>7 DEF queue_element_wakeup
  <2>2. r \in Requests /\ try.err \in {"OK", "EAGAIN", "ESTALE"}
    BY <1>2, TryOutcomes
  <2>3. try.err = "EAGAIN" <=> Waits(treelock, r)
    BY <2>2, TryWaits
  <2>t. try = try_get_path(treelock, r)
    OBVIOUS
  <2> HIDE DEF try, r
  <2>4. /\ try.err = "OK" => phase' = [phase EXCEPT ![t] = "granted"]
        /\ try.err = "EAGAIN" => phase' = [phase EXCEPT ![t] = "queued"]
        /\ try.err = "ESTALE" => phase' = [phase EXCEPT ![t] = "stale"]
    BY <2>1
  <2>5. phase' \in [Threads -> Phases]
    BY <1>2, <2>2, <2>4 DEF Phases
  <2>6. \A s \in Threads \ {t} : phase'[s] = phase[s]
    BY <1>2, <2>2, <2>4
  <2>7. Tries(t, r)
    <3>1. Locking(t)' <=> try.err = "OK"
      BY <1>2, <2>2, <2>4 DEF Locking
    <3>2. ~Locking(t) /\ req'[t] = r
      BY <1>1, <1>7 DEF Locking, r
    <3> QED
      BY <1>1, <2>1, <2>6, <2>t, <3>1, <3>2 DEF Tries
  <2>8. TriedOK
    BY <2>2, <2>7, TryStep
  <2>9. TypeOK'
    BY <1>1, <1>4, <2>5, <2>8 DEF IInv, TypeOK, TriedOK
  <2>10. QueueOK'
    <3>1. ASSUME NEW s \in Threads
          PROVE  phase'[s] \in {"queued", "granted", "stale"} <=>
                   phase[s] \in {"queued", "granted", "stale"}
      <4>1. CASE s = t
        BY <1>2, <1>7, <2>2, <2>4, <4>1
      <4>2. CASE s # t
        BY <2>6, <4>2
      <4> QED
        BY <4>1, <4>2
    <3> QED
      BY <1>1, <3>1 DEF IInv, QueueOK
  <2>11. Walked'
    <3> SUFFICES ASSUME \A s \in Threads : Locking(s)' => wnode'[s] \notin gone',
                        NEW s \in Threads, phase'[s] = "queued"
                 PROVE  Ahead(s)' \/ Waits(treelock, req[s])'
      BY DEF Walked
    <3>1. ASSUME Waits(treelock, req[s]) PROVE Waits(treelock, req[s])'
      <4>1. req[s] \in Requests /\ req'[s] = req[s]
        BY <1>1, <1>2
      <4>2. Waits(treelock', req[s])
        BY <2>8, <3>1, <4>1, WaitsOn DEF TriedOK
      <4> QED
        BY <1>1, <4>1, <4>2, WaitsPrimed
    <3>2. CASE s = t
      <4>1. try.err = "EAGAIN"
        BY <1>2, <2>2, <2>4, <3>2
      <4> QED
        BY <2>3, <3>1, <3>2, <4>1 DEF r
    <3>3. CASE s # t
      <4>1. \A u \in Threads : Locking(u) => wnode[u] \notin gone
        <5> SUFFICES ASSUME NEW u \in Threads, Locking(u) PROVE wnode[u] \notin gone
          OBVIOUS
        <5>1. u # t
          BY <1>7 DEF Locking
        <5>2. Locking(u)' /\ wnode'[u] = wnode[u]
          BY <2>1, <2>6, <5>1 DEF Locking, IInv, TypeOK
        <5> QED
          BY <1>1, <5>2
      <4>2. phase[s] = "queued"
        BY <2>6, <3>3
      <4>3. Ahead(s) \/ Waits(treelock, req[s])
        BY <4>1, <4>2 DEF IInv, Walked
      <4>4. ASSUME Ahead(s) PROVE Ahead(s)'
        BY <1>5, <3>3, <4>2, <4>4 DEF IInv, QueueOK
      <4> QED
        BY <3>1, <4>3, <4>4
    <3> QED
      BY <3>2, <3>3
  <2> QED
    BY <2>8, <2>9, <2>10, <2>11 DEF StepOK, IInv, TriedOK
<1> QED
  BY <1>6, <1>7

\* Every step keeps the invariant.
LEMMA NextStep == IInv /\ [Next]_vars => StepOK
<1> SUFFICES ASSUME IInv, [Next]_vars PROVE StepOK
  OBVIOUS
<1>1. CASE UNCHANGED vars
  <2>1. UNCHANGED <<treelock, gone, phase, req, wnode, lockq, waking>>
    BY <1>1 DEF vars
  <2>2. SameHolders
    BY <2>1 DEF SameHolders, Locking
  <2>3. TypeOK' /\ QueueOK'
    BY <2>1 DEF IInv, TypeOK, QueueOK
  <2>4. NamesLocked' /\ ChainsIntact' /\ WordsOK'
    BY <2>1, <2>2, SameHolding, SameSets DEF IInv, WordsOK
  <2>5. Walked'
    <3>1. \A s \in Threads : Ahead(s)' <=> Ahead(s)
      BY <2>1 DEF Ahead
    <3>2. \A s \in Threads : Waits(treelock, req[s])' <=> Waits(treelock, req[s])
      BY <2>1, WaitsPrimed
    <3> QED
      BY <2>1, <2>2, <3>1, <3>2 DEF IInv, Walked, SameHolders
  <2> QED
    BY <2>2, <2>3, <2>4, <2>5, SameSets DEF StepOK, IInv
<1>2. CASE queue_element_wakeup
  BY <1>2, WakeupStep
<1>3. ASSUME NEW t \in Threads, NEW r \in Requests, get_path_common(t, r)
      PROVE  StepOK
  BY <1>3, GetPathStep
<1>4. ASSUME NEW t \in Threads, dequeue_path(t) PROVE StepOK
  BY <1>4, DequeueStep
<1>5. ASSUME NEW t \in Threads, remove_node(t) PROVE StepOK
  BY <1>5, RemoveNodeStep
<1>6. ASSUME NEW t \in Threads, free_path_wrlock(t) PROVE StepOK
  BY <1>6, FreeStep
<1> QED
  BY <1>1, <1>2, <1>3, <1>4, <1>5, <1>6 DEF Next

-----------------------------------------------------------------------------
(* The theorems.                                                           *)

\* The inductive invariant behind the others.
LEMMA Invariance == Spec => []IInv
<1>1. IInv /\ [Next]_vars => IInv'
  BY NextStep DEF StepOK
<1> QED
  BY <1>1, InitInv, PTL DEF Spec

\* Words, requests and queue keep their types; the walk of wake_up_queued
\* stays inside the queue.
THEOREM LocksTyped == Spec => []TypeOK
<1>1. IInv => TypeOK
  BY DEF IInv
<1> QED
  BY <1>1, Invariance, PTL

\* Every lock word counts its readers, marked or not, or stands for its one
\* writer, so the assertions of unlock_path hold for any tree and any number
\* of threads below INT_MAX.
THEOREM WordsCount == Spec => []LockWords
BY Invariance, Consequences, PTL

\* Nobody removes a name on the way up from a locked node: unlock_path
\* reaches whatever try_get_path locked.
THEOREM ChainsStay == Spec => []ChainsIntact
<1>1. IInv => ChainsIntact
  BY DEF IInv
<1> QED
  BY <1>1, Invariance, PTL

\* One walk of the queue per release is enough: no request is left waiting
\* for a path it could have.
THEOREM WakeupsComplete == Spec => []NoMissedWakeup
BY Invariance, Consequences, PTL

\* The counters, the marks and the queue implement locks on trees.
THEOREM LocksRefine == Spec => ImplementsTreeLock
<1>1. Init => Locks!Init
  BY DEF Init, Locks!Init, Locks!None, Locking
<1>2. IInv /\ [Next]_vars => [Locks!Next]_Locks!vars
  BY NextStep DEF StepOK
<1> QED
  BY <1>1, <1>2, Invariance, PTL DEF Spec, ImplementsTreeLock, Locks!Spec
=============================================================================
