-------------------------- MODULE NodeTableProofs ---------------------------
(***************************************************************************)
(* For any number of ids, names and threads: lookups and references are    *)
(* counted right, and no id outlives its node.                             *)
(***************************************************************************)
EXTENDS NodeTable, FiniteSetTheorems, WellFoundedInduction, TLAPS

-----------------------------------------------------------------------------
(* The invariant.                                                          *)

NodeSet ==
  [parent : Ids \cup {NoNode}, name : Names \cup {NoName}, nlookup : Nat,
   refctr : Nat, open_count : Int]

\* A table of nodes: below one another, and the root above, for good.
IsTable(tab) ==
  /\ DOMAIN tab \subseteq Ids /\ tab \in [DOMAIN tab -> NodeSet]
  /\ Root \in DOMAIN tab
  /\ tab[Root].parent = NoNode /\ tab[Root].nlookup > 0
  /\ \A i \in DOMAIN tab : tab[i].parent \in DOMAIN tab \cup {NoNode}

Below(tab, id) == {c \in DOMAIN tab : tab[c].parent = id}

\* The references are counted, with one more for node x.
CountedBut(tab, x) ==
  \A i \in DOMAIN tab :
    /\ tab[i].refctr = Cardinality(Below(tab, i))
                         + (IF tab[i].nlookup > 0 THEN 1 ELSE 0)
                         + (IF i = x THEN 1 ELSE 0)
    /\ tab[i].refctr > 0

RequestSet ==
  [op : {"none", "lookup", "create", "open", "remove", "release", "forget"},
   at : {"none", "handler", "opening", "answer", "unopen", "unlock", "forget",
         "asleep"},
   ino : Ids \cup {NoNode}, name : Names \cup {NoName},
   node : Ids \cup {NoNode}, n : Nat, rd : SUBSET Ids, wr : SUBSET Ids]

\* Where a request has which of its fields.
Forgetting(r) == r.at \in {"forget", "asleep"} /\ r.node \in Ids /\ r.n > 0

LookupShape(r) ==
  /\ r.op = "lookup" /\ r.wr = {}
  /\ \/ r.at = "handler" /\ r.ino \in Ids /\ r.name \in Names /\ r.node = NoNode
     \/ r.at = "unlock" /\ r.ino \in Ids
     \/ r.at = "answer" /\ r.ino \in Ids /\ r.node \in Ids
     \/ Forgetting(r) /\ r.ino = NoNode

CreateShape(r) ==
  /\ r.op = "create" /\ r.wr = {} /\ r.ino \in Ids /\ r.ino \in r.rd \cup {Root}
  /\ \/ r.at = "handler" /\ r.name \in Names /\ r.node = NoNode
     \/ r.at \in {"opening", "answer", "unopen"} /\ r.node \in Ids
     \/ Forgetting(r)
     \/ r.at = "unlock" /\ r.node = NoNode

OpenShape(r) ==
  /\ r.op = "open" /\ r.wr = {} /\ r.ino \in Ids /\ r.ino \in r.rd
  /\ \/ r.at \in {"handler", "answer", "unopen"} /\ r.node = r.ino
     \/ r.at = "unlock" /\ r.node \in {NoNode, r.ino}

ReleaseShape(r) ==
  /\ r.op = "release" /\ r.wr = {} /\ r.ino \in Ids /\ r.node = r.ino
  /\ r.at \in {"unopen", "unlock"}

RemoveShape(r) ==
  /\ r.op = "remove" /\ r.ino \in Ids /\ r.node \in Ids /\ r.wr = {r.node}
  /\ r.at \in {"handler", "unlock"}

ForgetShape(r) ==
  r.op = "forget" /\ r.ino = NoNode /\ r.wr = {} /\ Forgetting(r)

Shaped(r) ==
  \/ r = NoRequest
  \/ LookupShape(r) \/ CreateShape(r) \/ OpenShape(r)
  \/ ReleaseShape(r) \/ RemoveShape(r) \/ ForgetShape(r)

IsForgets(bag) ==
  /\ IsFiniteSet(DOMAIN bag) /\ DOMAIN bag \subseteq Ids \X (Nat \ {0})
  /\ bag \in [DOMAIN bag -> Nat \ {0}]

TypesOK ==
  /\ run \in [Threads -> RequestSet] /\ \A t \in Threads : Shaped(run[t])
  /\ known \in [Ids -> Nat] /\ opened \in [Ids -> Nat]
  /\ IsForgets(forgets)

TableOK == IsTable(table) /\ CountedBut(table, NoNode)

\* Where the lookups of a node are: with the kernel, in forgets, in threads;
\* the root has one more, and an id that is free has none.
Count(tab, id) == IF id \in DOMAIN tab THEN tab[id].nlookup ELSE 0

Balanced ==
  \A id \in Ids :
    Count(table, id) =
      (IF id = Root THEN 1 ELSE 0)
        + known[id] + Cardinality(InForgets(id)) + Cardinality(InThreads(id))

\* A locked node has lookups, so that it is there.
LockedLive ==
  \A t \in Threads : \A i \in run[t].rd \cup run[t].wr :
    i \in DOMAIN table /\ table[i].nlookup > 0

\* What requests and open files need, the kernel holds.
PinnedKnown ==
  /\ \A t \in Threads : ~Answered(t) => Holds(run[t].ino)
  /\ \A t \in Threads : run[t].op = "remove" => known[run[t].node] > 0
  /\ \A i \in Ids : opened[i] > 0 => i \in DOMAIN table /\ Holds(i)

\* The node of a create is below its directory, or has lost its name; that of
\* a removal keeps its name until then, because nobody else has it locked.
ParentsOK ==
  \A t \in Threads :
    /\ run[t].op = "create" /\ run[t].at \in {"opening", "answer"} =>
         table[run[t].node].parent \in {run[t].ino, NoNode}
    /\ At(t, {"remove"}, "handler") => table[run[t].node].parent = run[t].ino
    /\ \A s \in Threads \ {t} : run[s].wr \cap run[t].wr = {}

IInv ==
  /\ TypesOK /\ TableOK /\ Balanced /\ LockedLive /\ PinnedKnown /\ ParentsOK
  /\ NamesUnique

-----------------------------------------------------------------------------
(* The way up.                                                             *)

\* A set of numbers has a least one.
LEMMA Lowest ==
  ASSUME NEW P \in SUBSET Nat, P # {}
  PROVE  Min(P) \in P /\ \A k \in P : Min(P) <= k
<1>1. PICK x \in P : \A y \in P : ~(<<y, x>> \in OpToRel(<, Nat))
  BY NatLessThanWellFounded, WFMin, P \subseteq Nat, Zenon
<1>2. \A y \in P : ~(y < x)
  BY <1>1, P \subseteq Nat, Zenon DEF OpToRel
<1>3. \A y \in P : x <= y
  BY <1>2
<1> QED
  BY <1>3 DEF Min

Above(tab, i) == IF i \in {NoNode, Root} THEN NoNode ELSE tab[i].parent

\* f is the first n steps up.
Rise(tab, id, f, n) ==
  f = [k \in 0 .. n |-> IF k = 0 THEN id ELSE Above(tab, f[k - 1])]

\* The recursion of Line has a solution, as far as one likes.
LEMMA LineExists ==
  ASSUME NEW tab, NEW id, NEW n \in Nat
  PROVE  \E f : Rise(tab, id, f, n)
<1> DEFINE Bad == {m \in Nat : ~ \E f : Rise(tab, id, f, m)}
<1>1. SUFFICES Bad = {}
  BY <1>1
<1>2. SUFFICES ASSUME Bad # {} PROVE FALSE
  OBVIOUS
<1> DEFINE m == Min(Bad)
<1>3. m \in Nat /\ m \in Bad /\ \A k \in Bad : m <= k
  BY <1>2, Lowest
<1> HIDE DEF m
<1>4. m # 0
  <2> DEFINE f == [k \in 0 .. 0 |-> id]
  <2>1. Rise(tab, id, f, 0)
    BY DEF Rise
  <2> QED
    BY <2>1, <1>3
<1>5. m - 1 \in Nat /\ m - 1 \notin Bad
  BY <1>3, <1>4
<1>6. PICK f : Rise(tab, id, f, m - 1)
  BY <1>5
<1> DEFINE g == [k \in 0 .. m |-> IF k < m THEN f[k] ELSE Above(tab, f[m - 1])]
<1>7. \A k \in 0 .. m : g[k] = IF k = 0 THEN id ELSE Above(tab, g[k - 1])
  <2> TAKE k \in 0 .. m
  <2>1. CASE k = 0
    BY <2>1, <1>3, <1>4, <1>6 DEF Rise
  <2>2. CASE k \in 1 .. m - 1
    <3>1. g[k] = f[k] /\ g[k - 1] = f[k - 1]
      BY <2>2, <1>3
    <3>2. f[k] = Above(tab, f[k - 1])
      BY <2>2, <1>3, <1>6 DEF Rise
    <3> QED
      BY <3>1, <3>2, <2>2
  <2>3. CASE k = m
    BY <2>3, <1>3, <1>4
  <2> QED
    BY <2>1, <2>2, <2>3, <1>3
<1>8. Rise(tab, id, g, m)
  <2> DEFINE h == [k \in 0 .. m |-> IF k = 0 THEN id ELSE Above(tab, g[k - 1])]
  <2>1. \A k \in 0 .. m : g[k] = h[k]
    BY <1>7
  <2>2. g = h
    BY <2>1
  <2> QED
    BY <2>2 DEF Rise
<1> QED
  BY <1>8, <1>3

\* The way up, step by step.
LEMMA LineIs ==
  ASSUME NEW tab, NEW id
  PROVE  /\ Line(tab, id)[0] = id
         /\ \A k \in 1 .. MaxId :
              Line(tab, id)[k] = Above(tab, Line(tab, id)[k - 1])
<1> DEFINE up == Line(tab, id)
<1>1. MaxId \in Nat
  BY NodeAssumption
<1>2. \E f : Rise(tab, id, f, MaxId)
  BY <1>1, LineExists
<1>3. up = CHOOSE f : Rise(tab, id, f, MaxId)
  BY DEF Line, Above, Rise
<1>4. Rise(tab, id, up, MaxId)
  BY <1>2, <1>3
<1> HIDE DEF up
<1>5. up[0] = id /\ \A k \in 1 .. MaxId : up[k] = Above(tab, up[k - 1])
  BY <1>1, <1>4 DEF Rise
<1> QED
  BY <1>5 DEF up

\* It stays inside the table.
LEMMA LineInside ==
  ASSUME NEW tab, IsTable(tab), NEW id \in DOMAIN tab \cup {NoNode}
  PROVE  \A k \in 0 .. MaxId : Line(tab, id)[k] \in DOMAIN tab \cup {NoNode}
<1> DEFINE up  == Line(tab, id)
           Bad == {k \in 0 .. MaxId : up[k] \notin DOMAIN tab \cup {NoNode}}
<1>1. SUFFICES ASSUME Bad # {} PROVE FALSE
  BY <1>1
<1> DEFINE m == Min(Bad)
<1>2. m \in Bad /\ \A k \in Bad : m <= k
  <2>1. Bad \in SUBSET Nat
    BY NodeAssumption
  <2> QED
    BY <2>1, <1>1, Lowest
<1>3. up[0] = id /\ \A k \in 1 .. MaxId : up[k] = Above(tab, up[k - 1])
  BY LineIs
<1> HIDE DEF m, up
<1>4. m \in 1 .. MaxId /\ m - 1 \in 0 .. MaxId /\ m - 1 \notin Bad
  BY <1>2, <1>3, NodeAssumption
<1>5. up[m - 1] \in DOMAIN tab \cup {NoNode}
  BY <1>4
<1>6. up[m] \in DOMAIN tab \cup {NoNode}
  BY <1>3, <1>4, <1>5 DEF Above, IsTable
<1> QED
  BY <1>2, <1>6

\* A node is on its own way up.
LEMMA ChainOwn ==
  ASSUME NEW tab, NEW id, id \notin {NoNode, Root}
  PROVE  id \in Chain(tab, id)
<1>1. Line(tab, id)[0] = id /\ 0 \in 0 .. MaxId
  BY LineIs, NodeAssumption
<1> QED
  BY <1>1 DEF Chain

\* Nothing is above the root.
LEMMA ChainTop ==
  ASSUME NEW tab, NEW id, id \in {NoNode, Root}
  PROVE  Chain(tab, id) = {}
<1> DEFINE up  == Line(tab, id)
           Bad == {k \in 0 .. MaxId : up[k] \notin {NoNode, Root}}
<1>1. SUFFICES ASSUME Bad # {} PROVE FALSE
  BY <1>1 DEF Chain
<1> DEFINE m == Min(Bad)
<1>2. m \in Bad /\ \A k \in Bad : m <= k
  <2>1. Bad \in SUBSET Nat
    BY NodeAssumption
  <2> QED
    BY <2>1, <1>1, Lowest
<1>3. up[0] = id /\ \A k \in 1 .. MaxId : up[k] = Above(tab, up[k - 1])
  BY LineIs
<1> HIDE DEF m, up
<1>4. m \in 1 .. MaxId /\ m - 1 \in 0 .. MaxId /\ m - 1 \notin Bad
  BY <1>2, <1>3, NodeAssumption
<1> QED
  BY <1>2, <1>3, <1>4 DEF Above

\* The way up from a node goes on from its parent.
LEMMA ChainStep ==
  ASSUME NEW tab, NEW id, id \notin {NoNode, Root}
  PROVE  Chain(tab, id) \subseteq {id} \cup Chain(tab, tab[id].parent)
<1> DEFINE up  == Line(tab, id)
           pp  == Line(tab, tab[id].parent)
           Bad == {k \in 1 .. MaxId : up[k] # pp[k - 1]}
<1>1. /\ up[0] = id /\ \A k \in 1 .. MaxId : up[k] = Above(tab, up[k - 1])
      /\ pp[0] = tab[id].parent
      /\ \A k \in 1 .. MaxId : pp[k] = Above(tab, pp[k - 1])
  BY LineIs
<1>2. Bad = {}
  <2> SUFFICES ASSUME Bad # {} PROVE FALSE
    OBVIOUS
  <2> DEFINE m == Min(Bad)
  <2>1. m \in Bad /\ \A k \in Bad : m <= k
    <3>1. Bad \in SUBSET Nat
      BY NodeAssumption
    <3> QED
      BY <3>1, Lowest
  <2> HIDE DEF m, up, pp
  <2>2. m # 1
    BY <1>1, <2>1 DEF Above
  <2>3. m - 1 \in 1 .. MaxId /\ m \in 1 .. MaxId /\ m - 1 \notin Bad
    BY <2>1, <2>2, NodeAssumption
  <2>4. up[m - 1] = pp[m - 2]
    BY <2>3
  <2>5. m - 1 - 1 = m - 2
    BY <2>3
  <2>6. up[m] = Above(tab, up[m - 1]) /\ pp[m - 1] = Above(tab, pp[m - 1 - 1])
    BY <2>3, <1>1
  <2> QED
    BY <2>1, <2>4, <2>5, <2>6
<1>3. ASSUME NEW k \in 0 .. MaxId, up[k] \notin {NoNode, Root}
      PROVE  up[k] \in {id} \cup Chain(tab, tab[id].parent)
  <2>1. CASE k = 0
    BY <2>1, <1>1
  <2>2. CASE k # 0
    <3>1. k \in 1 .. MaxId /\ k - 1 \in 0 .. MaxId
      BY <2>2, NodeAssumption
    <3>2. up[k] = pp[k - 1]
      BY <3>1, <1>2
    <3> QED
      BY <3>1, <3>2, <1>3 DEF Chain
  <2> QED
    BY <2>1, <2>2
<1> QED
  BY <1>3 DEF Chain

\* Names go, and nodes without children; nobody gets another parent.
LEMMA ChainShrinks ==
  ASSUME NEW tab, IsTable(tab), NEW new, IsTable(new),
         \A i \in DOMAIN tab \cap DOMAIN new :
           new[i].parent \in {tab[i].parent, NoNode},
         NEW id \in DOMAIN tab \cap DOMAIN new
  PROVE  Chain(new, id) \subseteq Chain(tab, id)
<1> DEFINE up == Line(tab, id)
           un == Line(new, id)
           Good(k) == \/ un[k] = NoNode
                      \/ un[k] = up[k] /\ up[k] \in DOMAIN tab \cap DOMAIN new
           Bad == {k \in 0 .. MaxId : ~Good(k)}
<1>1. /\ up[0] = id /\ \A k \in 1 .. MaxId : up[k] = Above(tab, up[k - 1])
      /\ un[0] = id /\ \A k \in 1 .. MaxId : un[k] = Above(new, un[k - 1])
  BY LineIs
<1> HIDE DEF up, un
<1>2. Bad = {}
  <2> SUFFICES ASSUME Bad # {} PROVE FALSE
    OBVIOUS
  <2> DEFINE m == Min(Bad)
  <2>1. m \in Bad /\ \A k \in Bad : m <= k
    <3>1. Bad \in SUBSET Nat
      BY NodeAssumption
    <3> QED
      BY <3>1, Lowest
  <2> HIDE DEF m
  <2>2. m # 0
    BY <2>1, <1>1
  <2>3. m \in 1 .. MaxId /\ m - 1 \in 0 .. MaxId /\ m - 1 \notin Bad
    BY <2>1, <2>2, NodeAssumption
  <2>4. Good(m - 1)
    BY <2>3
  <2>5. up[m] = Above(tab, up[m - 1]) /\ un[m] = Above(new, un[m - 1])
    BY <2>3, <1>1
  <2>6. CASE un[m - 1] \in {NoNode, Root}
    BY <2>6, <2>5, <2>1 DEF Above
  <2>7. CASE un[m - 1] \notin {NoNode, Root}
    <3>1. un[m - 1] = up[m - 1] /\ up[m - 1] \in DOMAIN tab \cap DOMAIN new
      BY <2>4, <2>7
    <3>2. un[m] = new[up[m - 1]].parent /\ up[m] = tab[up[m - 1]].parent
      BY <2>5, <2>7, <3>1 DEF Above
    <3>3. un[m] \in DOMAIN new \cup {NoNode} /\ up[m] \in DOMAIN tab \cup {NoNode}
      BY <3>1, <3>2 DEF IsTable
    <3>4. un[m] \in {up[m], NoNode}
      BY <3>1, <3>2
    <3> QED
      BY <3>3, <3>4, <2>1
  <2> QED
    BY <2>6, <2>7
<1>3. \A k \in 0 .. MaxId : un[k] # NoNode => un[k] = up[k]
  BY <1>2
<1> QED
  BY <1>3 DEF Chain, up, un

-----------------------------------------------------------------------------
(* References.                                                             *)

\* The ids are finitely many.
LEMMA IdsFinite == IsFiniteSet(Ids) /\ Cardinality(Ids) = MaxId
<1>1. 1 \in Int /\ MaxId \in Int /\ ~(1 > MaxId) /\ MaxId - 1 + 1 = MaxId
  BY NodeAssumption
<1>2. /\ IsFiniteSet(1 .. MaxId)
      /\ Cardinality(1 .. MaxId) = IF 1 > MaxId THEN 0 ELSE MaxId - 1 + 1
  BY <1>1, FS_Interval
<1> QED
  BY <1>1, <1>2 DEF Ids

\* A set without one of its elements.
LEMMA OneLess ==
  ASSUME NEW S, IsFiniteSet(S), NEW c \in S
  PROVE  Cardinality(S \ {c}) = Cardinality(S) - 1
BY FS_RemoveElement

\* The nodes below a node are finitely many.
LEMMA BelowFinite ==
  ASSUME NEW tab, IsTable(tab), NEW i
  PROVE  IsFiniteSet(Below(tab, i)) /\ Cardinality(Below(tab, i)) \in Nat
<1>1. IsFiniteSet(Ids) /\ Below(tab, i) \in SUBSET Ids
  BY IdsFinite DEF Below, IsTable
<1> QED
  BY <1>1, FS_Subset, FS_CardinalityType

\* A node that goes with one reference less has no lookups, and below it at
\* most the node that went before.
LEMMA LastReference ==
  ASSUME NEW tab, IsTable(tab), NEW x, CountedBut(tab, x),
         NEW i \in DOMAIN tab, tab[i].refctr = 1
  PROVE  /\ i = x => tab[i].nlookup = 0 /\ Below(tab, i) = {}
         /\ Below(tab, i) # {} => i # x /\ tab[i].nlookup = 0
         /\ \A c, d \in Below(tab, i) : c = d
<1> DEFINE B == Below(tab, i)
<1>1. IsFiniteSet(B) /\ Cardinality(B) \in Nat
  BY BelowFinite
<1>2. tab[i].nlookup \in Nat
  BY DEF IsTable, NodeSet
<1>3. tab[i].refctr = Cardinality(B) + (IF tab[i].nlookup > 0 THEN 1 ELSE 0)
                        + (IF i = x THEN 1 ELSE 0)
  BY DEF CountedBut
<1>4. Cardinality(B) = 0 <=> B = {}
  BY <1>1, FS_EmptySet
<1>5. Cardinality(B) = 1 => \A c, d \in B : c = d
  BY <1>1, FS_Singleton
<1> HIDE DEF B
<1>6. /\ i = x => tab[i].nlookup = 0 /\ B = {}
      /\ B # {} => i # x /\ tab[i].nlookup = 0
      /\ B = {} \/ Cardinality(B) = 1
  BY <1>1, <1>2, <1>3, <1>4
<1>7. \A c, d \in B : c = d
  BY <1>5, <1>6
<1> QED
  BY <1>6, <1>7 DEF B

\* What unref_node leaves: nodes with their names, parents and lookups.
Pruned(tab, new) ==
  /\ DOMAIN new \subseteq DOMAIN tab
  /\ \A i \in DOMAIN new : /\ new[i].parent = tab[i].parent
                           /\ new[i].name = tab[i].name
                           /\ new[i].nlookup = tab[i].nlookup
  /\ \A i \in DOMAIN tab \ DOMAIN new : tab[i].nlookup = 0

\* The nodes on the way up from x that go with it.
Dies(tab, x) ==
  {k \in 0 .. MaxId :
     \A j \in 0 .. k : /\ Line(tab, x)[j] # NoNode
                       /\ tab[Line(tab, x)[j]].refctr = 1}

\* Each has the one before below it, and nothing else.
LEMMA DiesShape ==
  ASSUME NEW tab, IsTable(tab), NEW x \in DOMAIN tab, CountedBut(tab, x),
         NEW k \in Dies(tab, x)
  PROVE  /\ Line(tab, x)[k] \in DOMAIN tab
         /\ tab[Line(tab, x)[k]].refctr = 1
         /\ tab[Line(tab, x)[k]].nlookup = 0 /\ Line(tab, x)[k] # Root
         /\ k = 0 => Below(tab, Line(tab, x)[k]) = {}
         /\ k # 0 => /\ k - 1 \in Dies(tab, x) /\ Line(tab, x)[k] # x
                     /\ Below(tab, Line(tab, x)[k]) = {Line(tab, x)[k - 1]}
<1> DEFINE up == Line(tab, x)
<1>1. /\ up[0] = x /\ \A j \in 1 .. MaxId : up[j] = Above(tab, up[j - 1])
      /\ \A j \in 0 .. MaxId : up[j] \in DOMAIN tab \cup {NoNode}
  BY LineIs, LineInside
<1>2. k \in 0 .. MaxId /\ \A j \in 0 .. k : up[j] # NoNode /\ tab[up[j]].refctr = 1
  BY DEF Dies
<1>3. MaxId \in Nat
  BY NodeAssumption
<1> HIDE DEF up
<1>4. up[k] \in DOMAIN tab /\ tab[up[k]].refctr = 1
  BY <1>1, <1>2, <1>3
<1>5. CASE k = 0
  <2>1. tab[up[k]].nlookup = 0 /\ Below(tab, up[k]) = {}
    BY <1>1, <1>4, <1>5, LastReference
  <2>2. up[k] # Root
    BY <2>1 DEF IsTable
  <2> QED
    BY <1>4, <1>5, <2>1, <2>2 DEF up
<1>6. CASE k # 0
  <2>1. k - 1 \in 0 .. MaxId /\ k \in 1 .. MaxId /\ k - 1 \in 0 .. k
    BY <1>2, <1>3, <1>6
  <2>2. k - 1 \in Dies(tab, x)
    <3>1. \A j \in 0 .. k - 1 : j \in 0 .. k
      BY <2>1
    <3> QED
      BY <2>1, <3>1, <1>2 DEF Dies, up
  <2>3. up[k - 1] \in DOMAIN tab /\ up[k] = Above(tab, up[k - 1])
    BY <2>1, <1>1, <1>2
  <2>4. up[k] = tab[up[k - 1]].parent
    BY <2>3, <1>2, <2>1 DEF Above
  <2>5. up[k - 1] \in Below(tab, up[k])
    BY <2>3, <2>4 DEF Below
  <2>6. up[k] # x /\ tab[up[k]].nlookup = 0 /\ Below(tab, up[k]) = {up[k - 1]}
    BY <2>5, <1>4, LastReference
  <2>7. up[k] # Root
    BY <2>6 DEF IsTable
  <2> QED
    BY <1>4, <1>6, <2>2, <2>6, <2>7 DEF up
<1> QED
  BY <1>5, <1>6

\* No node goes twice.
LEMMA DiesOnce ==
  ASSUME NEW tab, IsTable(tab), NEW x \in DOMAIN tab, CountedBut(tab, x)
  PROVE  \A i, j \in Dies(tab, x) : Line(tab, x)[i] = Line(tab, x)[j] => i = j
<1> DEFINE up  == Line(tab, x)
           Bad == {i \in Dies(tab, x) :
                     \E j \in Dies(tab, x) : i < j /\ up[i] = up[j]}
<1>1. Dies(tab, x) \in SUBSET Nat
  BY NodeAssumption DEF Dies
<1>2. up[0] = x
  BY LineIs
<1>3. \A k \in Dies(tab, x) :
        /\ k = 0 => Below(tab, up[k]) = {}
        /\ k # 0 => k - 1 \in Dies(tab, x) /\ up[k] # x
                      /\ Below(tab, up[k]) = {up[k - 1]}
  <2> TAKE k \in Dies(tab, x)
  <2>1. k \in Nat
    BY <1>1
  <2>2. k = 0 => Below(tab, Line(tab, x)[k]) = {}
    BY DiesShape
  <2>3. k # 0 => k - 1 \in Dies(tab, x) 
    BY <2>1, DiesShape
  <2>4. k # 0 => /\ Line(tab, x)[k] # x
                 /\ Below(tab, Line(tab, x)[k]) = {Line(tab, x)[k - 1]}
    BY <2>1, DiesShape
  <2> QED
    BY <2>2, <2>3, <2>4
<1> HIDE DEF up
<1>4. Bad = {}
  <2> SUFFICES ASSUME Bad # {} PROVE FALSE
    OBVIOUS
  <2> DEFINE m == Min(Bad)
  <2>1. m \in Bad /\ \A k \in Bad : m <= k
    BY <1>1, Lowest
  <2> HIDE DEF m
  <2>2. PICK j \in Dies(tab, x) : m < j /\ up[m] = up[j]
    BY <2>1
  <2>3. m \in Nat /\ j \in Nat /\ j # 0 /\ m \in Dies(tab, x)
    BY <1>1, <2>1, <2>2
  <2>4. m # 0
    BY <2>2, <2>3, <1>2, <1>3
  <2>5. m - 1 \in Dies(tab, x) /\ j - 1 \in Dies(tab, x) /\ up[m - 1] = up[j - 1]
    BY <2>2, <2>3, <2>4, <1>3
  <2>6. m - 1 < j - 1
    BY <2>2, <2>3
  <2>7. m - 1 \in Bad
    BY <2>5, <2>6
  <2> QED
    BY <2>1, <2>3, <2>7
<1>5. \A i, j \in Dies(tab, x) : i < j \/ i = j \/ j < i
  BY <1>1
<1> QED
  BY <1>4, <1>5 DEF up

\* They are the first m on the way up, and the way goes on behind them.
LEMMA DiesFirst ==
  ASSUME NEW tab, IsTable(tab), NEW x \in DOMAIN tab, CountedBut(tab, x)
  PROVE  LET m == Cardinality(Dies(tab, x)) IN
         /\ m \in 0 .. MaxId
         /\ Dies(tab, x) = 0 .. m - 1
         /\ \/ Line(tab, x)[m] = NoNode
            \/ Line(tab, x)[m] \in DOMAIN tab /\ tab[Line(tab, x)[m]].refctr # 1
<1> DEFINE up   == Line(tab, x)
           Rest == {k \in 0 .. MaxId : k \notin Dies(tab, x)}
<1>1. MaxId \in Nat
  BY NodeAssumption
<1>2. Rest # {}
  <2> SUFFICES ASSUME Rest = {} PROVE FALSE
    OBVIOUS
  <2>1. Dies(tab, x) = 0 .. MaxId
    BY DEF Dies
  <2> DEFINE f == [k \in 0 .. MaxId |-> up[k]]
  <2>2. f \in [0 .. MaxId -> Ids]
    BY <2>1, DiesShape DEF IsTable
  <2>3. /\ IsFiniteSet(0 .. MaxId) /\ Cardinality(0 .. MaxId) = MaxId + 1
        /\ IsFiniteSet(Ids) /\ Cardinality(Ids) = MaxId
    <3>1. 0 \in Int /\ MaxId \in Int /\ ~(0 > MaxId) /\ MaxId - 0 + 1 = MaxId + 1
      BY <1>1
    <3>2. /\ IsFiniteSet(0 .. MaxId)
          /\ Cardinality(0 .. MaxId) = IF 0 > MaxId THEN 0 ELSE MaxId - 0 + 1
      BY <3>1, FS_Interval
    <3> QED
      BY <3>1, <3>2, IdsFinite
  <2>4. Cardinality(Ids) < Cardinality(0 .. MaxId)
    BY <1>1, <2>3
  <2> HIDE DEF f
  <2>5. PICK i, j \in 0 .. MaxId : i # j /\ f[i] = f[j]
    <3> DEFINE S == 0 .. MaxId
    <3>1. /\ IsFiniteSet(S) /\ IsFiniteSet(Ids)
          /\ Cardinality(Ids) < Cardinality(S) /\ f \in [S -> Ids]
      BY <2>2, <2>3, <2>4
    <3> HIDE DEF S
    <3>2. \E i, j \in S : i # j /\ f[i] = f[j]
      BY <3>1, FS_PigeonHole
    <3> QED
      BY <3>2 DEF S
  <2>6. up[i] = up[j]
    BY <2>5 DEF f
  <2> QED
    BY <2>1, <2>5, <2>6, DiesOnce
<1> DEFINE m == Min(Rest)
<1>3. m \in Rest /\ \A k \in Rest : m <= k
  BY <1>1, <1>2, Lowest
<1> HIDE DEF m
<1>4. m \in 0 .. MaxId /\ m \notin Dies(tab, x)
  BY <1>3
<1>5. \A k \in 0 .. m - 1 : k \in Dies(tab, x)
  BY <1>1, <1>3, <1>4
<1>6. \A k \in Dies(tab, x) : k \in 0 .. m - 1
  <2> TAKE k \in Dies(tab, x)
  <2>1. k \in 0 .. MaxId /\ \A j \in 0 .. k : j \in Dies(tab, x)
    <3>1. k \in 0 .. MaxId /\ \A j \in 0 .. k : up[j] # NoNode /\ tab[up[j]].refctr = 1
      BY DEF Dies
    <3>2. \A j \in 0 .. k : j \in 0 .. MaxId /\ \A i \in 0 .. j : i \in 0 .. k
      BY <3>1, <1>1
    <3> QED
      BY <3>1, <3>2 DEF Dies
  <2> QED
    BY <2>1, <1>1, <1>4
<1>7. Dies(tab, x) = 0 .. m - 1
  BY <1>5, <1>6
<1>8. Cardinality(Dies(tab, x)) = m
  <2>1. 0 \in Int /\ m - 1 \in Int /\ m \in Nat
    BY <1>1, <1>4
  <2>2. Cardinality(0 .. m - 1) = IF 0 > m - 1 THEN 0 ELSE m - 1 - 0 + 1
    BY <2>1, FS_Interval
  <2> QED
    BY <2>1, <2>2, <1>7
<1>9. up[m] = NoNode \/ (up[m] \in DOMAIN tab /\ tab[up[m]].refctr # 1)
  <2>1. up[m] \in DOMAIN tab \cup {NoNode}
    BY <1>4, LineInside
  <2>2. PICK j \in 0 .. m : ~(up[j] # NoNode /\ tab[up[j]].refctr = 1)
    BY <1>4 DEF Dies
  <2>3. j \notin 0 .. m - 1
    <3> SUFFICES ASSUME j \in 0 .. m - 1 PROVE FALSE
      OBVIOUS
    <3>1. j \in Dies(tab, x) /\ j \in 0 .. j
      BY <1>5, <1>1, <1>4
    <3> QED
      BY <3>1, <2>2 DEF Dies
  <2>4. j = m
    BY <2>2, <2>3, <1>1, <1>4
  <2> QED
    BY <2>1, <2>2, <2>4
<1> QED
  BY <1>4, <1>7, <1>8, <1>9

\* One reference less: the counts are right again.
LEMMA Unref ==
  ASSUME NEW tab, IsTable(tab), NEW x \in DOMAIN tab, CountedBut(tab, x)
  PROVE  /\ IsTable(unref_node(tab, x))
         /\ CountedBut(unref_node(tab, x), NoNode)
         /\ Pruned(tab, unref_node(tab, x))
<1> DEFINE up   == Line(tab, x)
           D    == Dies(tab, x)
           m    == Cardinality(D)
           dead == {up[k] : k \in D}
           last == up[m]
           new  == unref_node(tab, x)
<1>1. new = [i \in DOMAIN tab \ dead |->
               IF i = last THEN [tab[i] EXCEPT !.refctr = @ - 1] ELSE tab[i]]
  BY DEF unref_node, Dies
<1>2. /\ m \in 0 .. MaxId /\ D = 0 .. m - 1
      /\ \/ last = NoNode
         \/ last \in DOMAIN tab /\ tab[last].refctr # 1
  BY DiesFirst
<1>3. \A k \in D : /\ up[k] \in DOMAIN tab /\ tab[up[k]].refctr = 1
                   /\ tab[up[k]].nlookup = 0 /\ up[k] # Root
  BY DiesShape
<1>4. \A k \in D : k = 0 => Below(tab, up[k]) = {}
  BY DiesShape
<1>5. \A k \in D : k # 0 => k - 1 \in D /\ Below(tab, up[k]) = {up[k - 1]}
  <2> TAKE k \in D
  <2>1. k \in Nat
    BY <1>2, NodeAssumption
  <2>2. k # 0 => k - 1 \in Dies(tab, x)
    BY <2>1, DiesShape
  <2>3. k # 0 => Below(tab, Line(tab, x)[k]) = {Line(tab, x)[k - 1]}
    BY <2>1, DiesShape
  <2> QED
    BY <2>2, <2>3
<1>6. /\ up[0] = x /\ \A k \in 1 .. MaxId : up[k] = Above(tab, up[k - 1])
  BY LineIs
<1>7. MaxId \in Nat /\ NoNode \notin Ids
  BY NodeAssumption DEF Ids, NoNode
<1>8. /\ DOMAIN tab \subseteq Ids /\ tab \in [DOMAIN tab -> NodeSet]
      /\ Root \in DOMAIN tab
      /\ tab[Root].parent = NoNode /\ tab[Root].nlookup > 0
      /\ \A i \in DOMAIN tab : tab[i].parent \in DOMAIN tab \cup {NoNode}
  BY DEF IsTable
<1> HIDE DEF up, m, D, last, new
<1>9. DOMAIN new = DOMAIN tab \ dead /\ last \notin dead
  BY <1>1, <1>2, <1>3, <1>7, <1>8
<1>10. Root \in DOMAIN new
  BY <1>3, <1>8, <1>9
<1>11. \A i \in DOMAIN new :
         new[i] = IF i = last THEN [tab[i] EXCEPT !.refctr = @ - 1] ELSE tab[i]
  BY <1>1, <1>9
<1>12. \A i \in DOMAIN new :
         /\ new[i].parent = tab[i].parent /\ new[i].name = tab[i].name
         /\ new[i].nlookup = tab[i].nlookup
         /\ new[i].open_count = tab[i].open_count
         /\ new[i].refctr = tab[i].refctr - (IF i = last THEN 1 ELSE 0)
         /\ tab[i] \in NodeSet
  <2> TAKE i \in DOMAIN new
  <2>1. tab[i] \in NodeSet
    BY <1>8, <1>9
  <2> QED
    BY <2>1, <1>11 DEF NodeSet
<1>13. \A i \in DOMAIN new : tab[i].refctr > 0 /\ new[i].refctr > 0
  <2> TAKE i \in DOMAIN new
  <2>1. tab[i].refctr \in Nat /\ tab[i].refctr > 0
    BY <1>9, <1>12 DEF NodeSet, CountedBut
  <2>2. i = last => tab[i].refctr # 1
    BY <1>2, <1>7, <1>8, <1>9
  <2> QED
    BY <2>1, <2>2, <1>12
<1>14. \A k \in D : tab[up[k]].parent = up[k + 1] /\ k + 1 \in 1 .. m
  <2> TAKE k \in D
  <2> DEFINE j == k + 1
  <2>1. j \in 1 .. m /\ j \in 1 .. MaxId /\ j - 1 = k
    BY <1>2, <1>7
  <2> HIDE DEF j
  <2>2. up[j] = Above(tab, up[k])
    BY <2>1, <1>6
  <2>3. up[k] \notin {NoNode, Root}
    BY <1>3, <1>7, <1>8
  <2> QED
    BY <2>1, <2>2, <2>3 DEF Above, j
<1>15. IsTable(new)
  <2>1. new \in [DOMAIN new -> NodeSet]
    <3>1. \A i \in DOMAIN new : new[i] \in NodeSet
      <4> TAKE i \in DOMAIN new
      <4>1. CASE i # last
        BY <4>1, <1>11, <1>12
      <4>2. CASE i = last
        <5>1. tab[i].refctr - 1 \in Nat
          BY <4>2, <1>12, <1>13 DEF NodeSet
        <5> QED
          BY <5>1, <4>2, <1>11, <1>12 DEF NodeSet
      <4> QED
        BY <4>1, <4>2
    <3> QED
      BY <3>1, <1>1, <1>9
  <2>2. ASSUME NEW i \in DOMAIN new, new[i].parent \in dead PROVE FALSE
    <3>1. PICK k \in D : new[i].parent = up[k]
      BY <2>2
    <3>2. i \in Below(tab, up[k]) /\ i \notin dead
      BY <3>1, <1>9, <1>12 DEF Below
    <3>3. CASE k = 0
      BY <3>2, <3>3, <1>4
    <3>4. CASE k # 0
      BY <3>2, <3>4, <1>5
    <3> QED
      BY <3>3, <3>4
  <2>3. \A i \in DOMAIN new : new[i].parent \in DOMAIN new \cup {NoNode}
    BY <2>2, <1>8, <1>9, <1>12
  <2>4. new[Root].parent = NoNode /\ new[Root].nlookup > 0
    BY <1>8, <1>10, <1>12
  <2> QED
    BY <2>1, <2>3, <2>4, <1>8, <1>9, <1>10 DEF IsTable
<1>16. ASSUME NEW i \in DOMAIN new
       PROVE  new[i].refctr = Cardinality(Below(new, i))
                                + (IF new[i].nlookup > 0 THEN 1 ELSE 0)
                                + (IF i = NoNode THEN 1 ELSE 0)
  <2>1. i \in DOMAIN tab /\ i \notin dead /\ i # NoNode
    BY <1>7, <1>8, <1>9
  <2>2. Below(new, i) = Below(tab, i) \ dead
    BY <1>9, <1>12 DEF Below
  <2>3. \A k \in D : up[k] \in Below(tab, i) => k + 1 = m /\ i = last
    <3> SUFFICES ASSUME NEW k \in D, up[k] \in Below(tab, i)
                 PROVE  k + 1 = m /\ i = last
      OBVIOUS
    <3>1. i = up[k + 1] /\ k + 1 \in 1 .. m
      BY <1>14 DEF Below
    <3>2. k + 1 \notin D
      BY <3>1, <2>1
    <3>3. k + 1 = m
      BY <3>1, <3>2, <1>2, <1>7
    <3> QED
      BY <3>1, <3>3 DEF last
  <2>4. /\ tab[i].refctr = Cardinality(Below(tab, i))
                             + (IF tab[i].nlookup > 0 THEN 1 ELSE 0)
                             + (IF i = x THEN 1 ELSE 0)
        /\ IsFiniteSet(Below(tab, i)) /\ Cardinality(Below(tab, i)) \in Nat
    BY <2>1, BelowFinite DEF CountedBut
  <2>5. 0 \in D => x \in dead
    BY <1>6
  <2>6. m \in Nat /\ (0 \notin D => m = 0) /\ (m = 0 => D = {})
    BY <1>2, <1>7
  <2>7. CASE i # last
    <3>1. Below(new, i) = Below(tab, i)
      BY <2>2, <2>3, <2>7
    <3>2. i # x
      BY <2>1, <2>5, <2>6, <2>7, <1>6 DEF last
    <3> QED
      BY <3>1, <3>2, <2>1, <2>4, <2>7, <1>12 DEF NodeSet
  <2>8. CASE i = last /\ m = 0
    <3>1. Below(new, i) = Below(tab, i) /\ i = x
      BY <2>2, <2>6, <2>8, <1>6 DEF last
    <3> QED
      BY <3>1, <2>1, <2>4, <2>8, <1>12 DEF NodeSet
  <2>9. CASE i = last /\ m # 0
    <3>1. m - 1 \in D /\ m - 1 + 1 = m
      BY <2>6, <2>9, <1>2
    <3>2. up[m - 1] \in Below(tab, i)
      BY <3>1, <2>9, <1>3, <1>14 DEF Below, last
    <3>3. \A k \in D : k + 1 = m => k = m - 1
      BY <1>2, <1>7
    <3>4. Below(new, i) = Below(tab, i) \ {up[m - 1]}
      BY <3>1, <3>3, <2>2, <2>3
    <3>5. Cardinality(Below(new, i)) = Cardinality(Below(tab, i)) - 1
      BY <3>2, <3>4, <2>4, OneLess
    <3>6. i # x
      BY <2>1, <2>5, <2>6, <2>9
    <3> QED
      BY <3>5, <3>6, <2>1, <2>4, <2>9, <1>12 DEF NodeSet
  <2> QED
    BY <2>7, <2>8, <2>9
<1>17. CountedBut(new, NoNode)
  BY <1>13, <1>16 DEF CountedBut
<1>18. Pruned(tab, new)
  BY <1>3, <1>9, <1>12 DEF Pruned
<1> QED
  BY <1>15, <1>17, <1>18 DEF new

\* Lookups are taken back; the last takes along the reference for all.
LEMMA Forgets ==
  ASSUME NEW tab, IsTable(tab), CountedBut(tab, NoNode),
         NEW id \in DOMAIN tab, NEW n \in Nat, n > 0, n <= tab[id].nlookup,
         id = Root => n < tab[id].nlookup,
         NEW new, new = Forgotten(tab, id, n)
  PROVE  /\ IsTable(new) /\ CountedBut(new, NoNode)
         /\ DOMAIN new \subseteq DOMAIN tab
         /\ \A i \in DOMAIN new :
              /\ new[i].parent = tab[i].parent /\ new[i].name = tab[i].name
              /\ new[i].nlookup = tab[i].nlookup - (IF i = id THEN n ELSE 0)
         /\ \A i \in DOMAIN tab \ DOMAIN new :
              tab[i].nlookup = IF i = id THEN n ELSE 0
<1> DEFINE less == [tab EXCEPT ![id].nlookup = @ - n]
<1>1. tab[id] \in NodeSet /\ tab[id].nlookup \in Nat /\ tab[id].nlookup - n \in Nat
  BY DEF IsTable, NodeSet
<1>2. /\ DOMAIN less = DOMAIN tab
      /\ \A i \in DOMAIN tab :
           /\ tab[i] \in NodeSet
           /\ less[i] = IF i = id THEN [tab[i] EXCEPT !.nlookup = @ - n]
                                  ELSE tab[i]
  BY DEF IsTable
<1>3. \A i \in DOMAIN tab :
        /\ less[i].parent = tab[i].parent /\ less[i].name = tab[i].name
        /\ less[i].refctr = tab[i].refctr
        /\ less[i].nlookup = tab[i].nlookup - (IF i = id THEN n ELSE 0)
        /\ less[i] \in NodeSet
  <2> TAKE i \in DOMAIN tab
  <2>1. tab[i] \in NodeSet
    BY <1>2
  <2>2. CASE i = id
    <3>1. less[i] = [tab[i] EXCEPT !.nlookup = @ - n]
      BY <2>2, <1>2
    <3> HIDE DEF less
    <3> QED
      BY <3>1, <2>1, <2>2, <1>1 DEF NodeSet
  <2>3. CASE i # id
    <3>1. less[i] = tab[i]
      BY <2>3, <1>2
    <3> HIDE DEF less
    <3> QED
      BY <3>1, <2>1, <2>3 DEF NodeSet
  <2> QED
    BY <2>2, <2>3
<1>4. IsTable(less)
  <2>1. less \in [DOMAIN less -> NodeSet]
    BY <1>2, <1>3
  <2>2. less[Root].nlookup > 0
    BY <1>1, <1>3 DEF IsTable, NodeSet
  <2> QED
    BY <2>1, <2>2, <1>2, <1>3 DEF IsTable
<1>5. \A i \in DOMAIN tab : Below(less, i) = Below(tab, i)
  BY <1>2, <1>3 DEF Below
<1> HIDE DEF less
<1>6. \A i \in DOMAIN tab :
        /\ tab[i].refctr = Cardinality(Below(tab, i))
                             + (IF tab[i].nlookup > 0 THEN 1 ELSE 0)
        /\ tab[i].refctr > 0 /\ Cardinality(Below(tab, i)) \in Nat
  <2> TAKE i \in DOMAIN tab
  <2>1. Cardinality(Below(tab, i)) \in Nat /\ i # NoNode
    BY BelowFinite DEF IsTable, Ids, NoNode
  <2> QED
    BY <2>1 DEF CountedBut
<1>7. CASE less[id].nlookup = 0
  <2>1. CountedBut(less, id)
    <3>1. ASSUME NEW i \in DOMAIN less
          PROVE  /\ less[i].refctr = Cardinality(Below(less, i))
                                       + (IF less[i].nlookup > 0 THEN 1 ELSE 0)
                                       + (IF i = id THEN 1 ELSE 0)
                 /\ less[i].refctr > 0
      <4>1. CASE i = id
        <5>1. tab[i].nlookup > 0
          BY <4>1, <1>1
        <5> QED
          BY <5>1, <4>1, <1>2, <1>3, <1>5, <1>6, <1>7
      <4>2. CASE i # id
        <5>1. less[i].nlookup = tab[i].nlookup
          BY <4>2, <1>2, <1>3 DEF NodeSet
        <5> QED
          BY <5>1, <4>2, <1>2, <1>3, <1>5, <1>6
      <4> QED
        BY <4>1, <4>2
    <3> QED
      BY <3>1 DEF CountedBut
  <2>2. new = unref_node(less, id)
    BY <1>7 DEF Forgotten, less
  <2>3. IsTable(new) /\ CountedBut(new, NoNode) /\ Pruned(less, new)
    BY <2>1, <2>2, <1>2, <1>4, Unref
  <2>4. \A i \in DOMAIN tab \ DOMAIN new : less[i].nlookup = 0
    BY <2>3, <1>2 DEF Pruned
  <2>5. \A i \in DOMAIN tab \ DOMAIN new : tab[i].nlookup = IF i = id THEN n ELSE 0
    BY <2>4, <1>1, <1>2, <1>3 DEF NodeSet
  <2> QED
    BY <2>3, <2>5, <1>2, <1>3 DEF Pruned
<1>8. CASE less[id].nlookup # 0
  <2>1. new = less
    BY <1>8 DEF Forgotten, less
  <2>2. \A i \in DOMAIN less : (less[i].nlookup > 0) <=> (tab[i].nlookup > 0)
    BY <1>1, <1>2, <1>3, <1>8 DEF NodeSet
  <2>3. \A i \in DOMAIN less : i # NoNode
    BY <1>2 DEF IsTable, Ids, NoNode
  <2>4. CountedBut(less, NoNode)
    BY <2>2, <2>3, <1>2, <1>3, <1>5, <1>6 DEF CountedBut
  <2> QED
    BY <2>1, <2>4, <1>2, <1>3, <1>4
<1> QED
  BY <1>7, <1>8

\* A name goes, and with it a reference to the parent.
LEMMA Unhash ==
  ASSUME NEW tab, IsTable(tab), CountedBut(tab, NoNode),
         NEW id \in DOMAIN tab, tab[id].parent # NoNode,
         NEW new, new = unhash_name(tab, id)
  PROVE  /\ IsTable(new) /\ CountedBut(new, NoNode)
         /\ DOMAIN new \subseteq DOMAIN tab
         /\ \A i \in DOMAIN new :
              /\ IF i = id THEN new[i].parent = NoNode /\ new[i].name = NoName
                 ELSE new[i].parent = tab[i].parent /\ new[i].name = tab[i].name
              /\ new[i].nlookup = tab[i].nlookup
         /\ \A i \in DOMAIN tab \ DOMAIN new : tab[i].nlookup = 0
<1> DEFINE p   == tab[id].parent
           cut == [tab EXCEPT ![id].name = NoName, ![id].parent = NoNode]
<1>1. p \in DOMAIN tab /\ id # Root /\ NoNode \notin Ids
  BY DEF IsTable, Ids, NoNode
<1>2. /\ DOMAIN cut = DOMAIN tab
      /\ \A i \in DOMAIN tab : tab[i] \in NodeSet
  BY DEF IsTable
<1>3. \A i \in DOMAIN tab :
        /\ IF i = id THEN cut[i].parent = NoNode /\ cut[i].name = NoName
           ELSE cut[i].parent = tab[i].parent /\ cut[i].name = tab[i].name
        /\ cut[i].refctr = tab[i].refctr /\ cut[i].nlookup = tab[i].nlookup
        /\ cut[i] \in NodeSet
  <2> DEFINE nameless == [tab EXCEPT ![id].name = NoName]
  <2>1. cut = [nameless EXCEPT ![id].parent = NoNode]
    OBVIOUS
  <2>2. \A i \in DOMAIN tab :
          nameless[i] = IF i = id THEN [tab[i] EXCEPT !.name = NoName] ELSE tab[i]
    OBVIOUS
  <2>3. DOMAIN nameless = DOMAIN tab
    OBVIOUS
  <2> HIDE DEF nameless, cut
  <2>4. \A i \in DOMAIN tab :
          cut[i] = IF i = id THEN [nameless[i] EXCEPT !.parent = NoNode]
                             ELSE nameless[i]
    BY <2>1, <2>3
  <2> TAKE i \in DOMAIN tab
  <2>5. tab[i] \in NodeSet
    BY <1>2
  <2>6. CASE i = id
    <3>1. nameless[i] = [tab[i] EXCEPT !.name = NoName]
      BY <2>2, <2>6
    <3>2. cut[i] = [nameless[i] EXCEPT !.parent = NoNode]
      BY <2>4, <2>6
    <3>3. /\ nameless[i] \in NodeSet /\ nameless[i].name = NoName
          /\ nameless[i].refctr = tab[i].refctr
          /\ nameless[i].nlookup = tab[i].nlookup
      BY <3>1, <2>5 DEF NodeSet
    <3> QED
      BY <3>2, <3>3, <2>6 DEF NodeSet
  <2>7. CASE i # id
    <3>1. cut[i] = tab[i]
      BY <2>2, <2>4, <2>7
    <3> QED
      BY <3>1, <2>5, <2>7 DEF NodeSet
  <2> QED
    BY <2>6, <2>7
<1>4. IsTable(cut)
  <2>1. cut \in [DOMAIN cut -> NodeSet]
    BY <1>2, <1>3
  <2> QED
    BY <2>1, <1>1, <1>2, <1>3 DEF IsTable
<1>5. /\ Below(cut, p) = Below(tab, p) \ {id} /\ id \in Below(tab, p)
      /\ \A i \in DOMAIN tab : i # p => Below(cut, i) = Below(tab, i)
  <2> HIDE DEF cut
  <2>1. \A i \in DOMAIN tab : i # NoNode
    BY <1>1 DEF IsTable
  <2>2. id \in Below(tab, p)
    BY DEF Below
  <2>3. \A i \in DOMAIN tab : Below(cut, i) = Below(tab, i) \ {id}
    BY <2>1, <1>2, <1>3 DEF Below
  <2>4. \A i \in DOMAIN tab : i # p => id \notin Below(tab, i)
    BY DEF Below
  <2> QED
    BY <2>2, <2>3, <2>4, <1>1
<1> HIDE DEF cut, p
<1>6. \A i \in DOMAIN tab :
        /\ tab[i].refctr = Cardinality(Below(tab, i))
                             + (IF tab[i].nlookup > 0 THEN 1 ELSE 0)
        /\ tab[i].refctr > 0
        /\ IsFiniteSet(Below(tab, i)) /\ Cardinality(Below(tab, i)) \in Nat
  <2> TAKE i \in DOMAIN tab
  <2>1. IsFiniteSet(Below(tab, i)) /\ Cardinality(Below(tab, i)) \in Nat
    BY BelowFinite
  <2>2. i # NoNode
    BY <1>1 DEF IsTable
  <2> QED
    BY <2>1, <2>2 DEF CountedBut
<1>7. CountedBut(cut, p)
  <2>1. ASSUME NEW i \in DOMAIN cut
        PROVE  /\ cut[i].refctr = Cardinality(Below(cut, i))
                                    + (IF cut[i].nlookup > 0 THEN 1 ELSE 0)
                                    + (IF i = p THEN 1 ELSE 0)
               /\ cut[i].refctr > 0
    <3>1. CASE i = p
      <4>1. Cardinality(Below(cut, i)) = Cardinality(Below(tab, i)) - 1
        BY <3>1, <1>1, <1>5, <1>6, OneLess
      <4> QED
        BY <4>1, <3>1, <1>2, <1>3, <1>6
    <3>2. CASE i # p
      BY <3>2, <1>2, <1>3, <1>5, <1>6
    <3> QED
      BY <3>1, <3>2
  <2> QED
    BY <2>1 DEF CountedBut
<1>8. new = unref_node(cut, p)
  BY DEF unhash_name, cut, p
<1>9. IsTable(new) /\ CountedBut(new, NoNode) /\ Pruned(cut, new)
  BY <1>1, <1>2, <1>4, <1>7, <1>8, Unref
<1> QED
  BY <1>9, <1>2, <1>3 DEF Pruned

-----------------------------------------------------------------------------
(* Lookups, one by one.                                                    *)

\* A function of a finite set has finitely many values.
LEMMA ImageFinite ==
  ASSUME NEW S, IsFiniteSet(S), NEW f, DOMAIN f = S
  PROVE  IsFiniteSet({f[s] : s \in S})
<1> DEFINE T == {f[s] : s \in S}
           g == [s \in S |-> f[s]]
<1>1. g \in [S -> T] /\ \A y \in T : \E s \in S : g[s] = y
  OBVIOUS
<1>2. g \in Surjection(S, T)
  BY <1>1 DEF Surjection
<1> HIDE DEF g, T
<1>3. IsFiniteSet(T)
  BY <1>2, FS_Surjection
<1> QED
  BY <1>3 DEF T

\* n lookups that somebody has.
LEMMA Row ==
  ASSUME NEW a, NEW n \in Nat
  PROVE  /\ IsFiniteSet({a} \X (1 .. n))
         /\ Cardinality({a} \X (1 .. n)) = n
<1>1. IsFiniteSet({a}) /\ Cardinality({a}) = 1
  BY FS_Singleton
<1>2. IsFiniteSet(1 .. n) /\ Cardinality(1 .. n) = n
  <2>1. 1 \in Int /\ n \in Int /\ (1 > n => n = 0) /\ n - 1 + 1 = n
    OBVIOUS
  <2>2. /\ IsFiniteSet(1 .. n)
        /\ Cardinality(1 .. n) = IF 1 > n THEN 0 ELSE n - 1 + 1
    BY <2>1, FS_Interval
  <2> QED
    BY <2>1, <2>2
<1>3. /\ IsFiniteSet({a} \X (1 .. n))
      /\ Cardinality({a} \X (1 .. n)) = Cardinality({a}) * Cardinality(1 .. n)
  BY <1>1, <1>2, FS_Product
<1> QED
  BY <1>1, <1>2, <1>3

\* Two sets without a common element.
LEMMA Apart ==
  ASSUME NEW S, IsFiniteSet(S), NEW T, IsFiniteSet(T), S \cap T = {}
  PROVE  /\ IsFiniteSet(S \cup T)
         /\ Cardinality(S \cup T) = Cardinality(S) + Cardinality(T)
         /\ Cardinality(S) \in Nat /\ Cardinality(T) \in Nat
<1>1. /\ IsFiniteSet(S \cup T)
      /\ Cardinality(S \cup T) =
           Cardinality(S) + Cardinality(T) - Cardinality(S \cap T)
  BY FS_Union
<1>2. Cardinality(S \cap T) = 0
  BY FS_EmptySet
<1>3. Cardinality(S) \in Nat /\ Cardinality(T) \in Nat
  BY FS_CardinalityType
<1> QED
  BY <1>1, <1>2, <1>3

\* The lookups of threads that have o[t] each.
Tokens(o) == UNION {{t} \X (1 .. o[t]) : t \in Threads}

\* They are finitely many.
LEMMA TokensFinite ==
  ASSUME NEW o \in [Threads -> Nat]
  PROVE  IsFiniteSet(Tokens(o)) /\ Cardinality(Tokens(o)) \in Nat
<1> DEFINE f == [t \in Threads |-> {t} \X (1 .. o[t])]
           F == {f[t] : t \in Threads}
<1>1. IsFiniteSet(F)
  <2>1. DOMAIN f = Threads /\ IsFiniteSet(Threads)
    BY NodeAssumption
  <2> HIDE DEF f
  <2> QED
    BY <2>1, ImageFinite
<1>2. ASSUME NEW X \in F PROVE IsFiniteSet(X)
  <2>1. PICK t \in Threads : X = {t} \X (1 .. o[t])
    OBVIOUS
  <2> QED
    BY <2>1, Row
<1>3. Tokens(o) = UNION F
  BY DEF Tokens
<1> HIDE DEF F
<1>4. IsFiniteSet(Tokens(o))
  BY <1>1, <1>2, <1>3, FS_UNION
<1> QED
  BY <1>4, FS_CardinalityType

\* One thread gets some, or loses some.
LEMMA TokensStep ==
  ASSUME NEW o \in [Threads -> Nat], NEW p \in [Threads -> Nat],
         NEW t \in Threads, \A s \in Threads \ {t} : p[s] = o[s]
  PROVE  /\ Cardinality(Tokens(p)) = Cardinality(Tokens(o)) - o[t] + p[t]
         /\ o[t] <= Cardinality(Tokens(o))
<1> DEFINE R == UNION {{s} \X (1 .. o[s]) : s \in Threads \ {t}}
           O == {t} \X (1 .. o[t])
           P == {t} \X (1 .. p[t])
<1>1. IsFiniteSet(R)
  <2>1. R \in SUBSET Tokens(o)
    BY DEF Tokens
  <2> QED
    BY <2>1, TokensFinite, FS_Subset
<1>2. Tokens(o) = R \cup O
  BY DEF Tokens
<1>3. Tokens(p) = R \cup P
  BY DEF Tokens
<1>4. R \cap O = {} /\ R \cap P = {}
  OBVIOUS
<1>5. o[t] \in Nat /\ p[t] \in Nat
  OBVIOUS
<1>6. /\ IsFiniteSet(O) /\ Cardinality(O) = o[t]
      /\ IsFiniteSet(P) /\ Cardinality(P) = p[t]
  BY <1>5, Row
<1> HIDE DEF R, O, P
<1>7. /\ Cardinality(Tokens(o)) = Cardinality(R) + Cardinality(O)
      /\ Cardinality(R) \in Nat
  BY <1>1, <1>2, <1>4, <1>6, Apart
<1>8. Cardinality(Tokens(p)) = Cardinality(R) + Cardinality(P)
  BY <1>1, <1>3, <1>4, <1>6, Apart
<1> QED
  BY <1>5, <1>6, <1>7, <1>8

\* The lookups of id in a bag of forgets.
BagTokens(bag, id) ==
  UNION {{m} \X ((1 .. bag[m]) \X (1 .. m[2])) : m \in {f \in DOMAIN bag : f[1] = id}}

\* They are finitely many.
LEMMA BagTokensFinite ==
  ASSUME NEW bag, IsForgets(bag), NEW id
  PROVE  IsFiniteSet(BagTokens(bag, id)) /\ Cardinality(BagTokens(bag, id)) \in Nat
<1> DEFINE S == {f \in DOMAIN bag : f[1] = id}
           f == [m \in S |-> {m} \X ((1 .. bag[m]) \X (1 .. m[2]))]
           F == {f[m] : m \in S}
<1>1. IsFiniteSet(S)
  <2>1. IsFiniteSet(DOMAIN bag) /\ S \in SUBSET DOMAIN bag
    BY DEF IsForgets
  <2> QED
    BY <2>1, FS_Subset
<1>2. IsFiniteSet(F)
  <2>1. DOMAIN f = S
    OBVIOUS
  <2> HIDE DEF f, S
  <2> QED
    BY <2>1, <1>1, ImageFinite
<1>3. ASSUME NEW X \in F PROVE IsFiniteSet(X)
  <2>1. PICK m \in S : X = {m} \X ((1 .. bag[m]) \X (1 .. m[2]))
    OBVIOUS
  <2>2. bag[m] \in Int /\ m[2] \in Int /\ 1 \in Int
    BY DEF IsForgets
  <2>3. IsFiniteSet(1 .. bag[m]) /\ IsFiniteSet(1 .. m[2]) /\ IsFiniteSet({m})
    BY <2>2, FS_Interval, FS_Singleton
  <2>4. IsFiniteSet((1 .. bag[m]) \X (1 .. m[2]))
    BY <2>3, FS_Product
  <2> QED
    BY <2>1, <2>3, <2>4, FS_Product
<1>4. BagTokens(bag, id) = UNION F
  BY DEF BagTokens
<1> HIDE DEF F
<1>5. IsFiniteSet(BagTokens(bag, id))
  BY <1>2, <1>3, <1>4, FS_UNION
<1> QED
  BY <1>5, FS_CardinalityType

\* more has one message m more than bag.
OneMore(bag, more, m) ==
  /\ DOMAIN more = DOMAIN bag \cup {m}
  /\ more[m] = (IF m \in DOMAIN bag THEN bag[m] ELSE 0) + 1
  /\ \A x \in DOMAIN bag \ {m} : more[x] = bag[x]

\* A forget more, and the lookups that it takes back.
LEMMA BagStep ==
  ASSUME NEW bag, IsForgets(bag), NEW more, IsForgets(more),
         NEW m \in Ids \X (Nat \ {0}), OneMore(bag, more, m), NEW id
  PROVE  Cardinality(BagTokens(more, id)) =
           Cardinality(BagTokens(bag, id)) + (IF m[1] = id THEN m[2] ELSE 0)
<1> DEFINE c   == (IF m \in DOMAIN bag THEN bag[m] ELSE 0) + 1
           new == {m} \X ({c} \X (1 .. m[2]))
<1>1. c \in Nat /\ m[2] \in Nat /\ more[m] = c
      /\ (m \in DOMAIN bag => bag[m] = c - 1) /\ (m \notin DOMAIN bag => c = 1)
  BY DEF OneMore, IsForgets
<1>2. \A x \in DOMAIN bag : bag[x] \in Nat
  BY DEF IsForgets
<1> HIDE DEF c
<1>3. CASE m[1] # id
  <2>1. {f \in DOMAIN more : f[1] = id} = {f \in DOMAIN bag : f[1] = id}
    BY <1>3 DEF OneMore
  <2>2. \A f \in DOMAIN bag : f[1] = id => more[f] = bag[f]
    BY <1>3 DEF OneMore
  <2>3. BagTokens(more, id) = BagTokens(bag, id)
    BY <2>1, <2>2 DEF BagTokens
  <2> QED
    BY <2>3, <1>3, BagTokensFinite
<1>4. CASE m[1] = id
  <2>1. BagTokens(more, id) = BagTokens(bag, id) \cup new
    <3>1. ASSUME NEW x \in BagTokens(more, id)
          PROVE  x \in BagTokens(bag, id) \cup new
      <4>1. PICK f \in DOMAIN more : f[1] = id /\ x \in {f} \X ((1 .. more[f]) \X (1 .. f[2]))
        BY DEF BagTokens
      <4>2. CASE f # m
        BY <4>1, <4>2 DEF BagTokens, OneMore
      <4>3. CASE f = m
        <5>1. PICK j \in 1 .. c, k \in 1 .. m[2] : x = <<m, <<j, k>>>>
          BY <4>1, <4>3, <1>1
        <5>2. CASE j = c
          BY <5>1, <5>2
        <5>3. CASE j # c
          <6>1. m \in DOMAIN bag /\ j \in 1 .. bag[m]
            BY <5>1, <5>3, <1>1
          <6> QED
            BY <5>1, <6>1, <1>4 DEF BagTokens
        <5> QED
          BY <5>2, <5>3
      <4> QED
        BY <4>2, <4>3
    <3>2. BagTokens(bag, id) \subseteq BagTokens(more, id)
      <4> SUFFICES ASSUME NEW x \in BagTokens(bag, id)
                   PROVE  x \in BagTokens(more, id)
        OBVIOUS
      <4>1. PICK f \in DOMAIN bag : f[1] = id /\ x \in {f} \X ((1 .. bag[f]) \X (1 .. f[2]))
        BY DEF BagTokens
      <4>2. f \in DOMAIN more /\ \A j \in 1 .. bag[f] : j \in 1 .. more[f]
        BY <1>1, <1>2 DEF OneMore
      <4> QED
        BY <4>1, <4>2 DEF BagTokens
    <3>3. new \subseteq BagTokens(more, id)
      <4>1. m \in DOMAIN more /\ c \in 1 .. more[m]
        BY <1>1, <1>2 DEF OneMore
      <4> QED
        BY <4>1, <1>4 DEF BagTokens
    <3> QED
      BY <3>1, <3>2, <3>3
  <2>2. BagTokens(bag, id) \cap new = {}
    <3> SUFFICES ASSUME NEW x \in BagTokens(bag, id), x \in new PROVE FALSE
      OBVIOUS
    <3>1. PICK f \in DOMAIN bag : x \in {f} \X ((1 .. bag[f]) \X (1 .. f[2]))
      BY DEF BagTokens
    <3>2. f = m /\ c \in 1 .. bag[m]
      BY <3>1
    <3> QED
      BY <3>1, <3>2, <1>1, <1>2
  <2>3. IsFiniteSet(new) /\ Cardinality(new) = m[2]
    <3>1. IsFiniteSet({c} \X (1 .. m[2])) /\ Cardinality({c} \X (1 .. m[2])) = m[2]
      BY <1>1, Row
    <3>2. IsFiniteSet({m}) /\ Cardinality({m}) = 1
      BY FS_Singleton
    <3>3. IsFiniteSet(new) /\ Cardinality(new) = 1 * m[2]
      BY <3>1, <3>2, FS_Product
    <3> QED
      BY <3>3, <1>1
  <2> HIDE DEF new
  <2> QED
    BY <2>1, <2>2, <2>3, <1>4, BagTokensFinite, Apart
<1> QED
  BY <1>3, <1>4

\* A message is sent.
LEMMA BagSend ==
  ASSUME NEW bag, IsForgets(bag), NEW m \in Ids \X (Nat \ {0}),
         NEW more, more = bag (+) SetToBag({m})
  PROVE  IsForgets(more) /\ OneMore(bag, more, m)
<1>1. OneMore(bag, more, m)
  BY DEF OneMore, (+), SetToBag, IsForgets
<1>2. /\ DOMAIN more = DOMAIN bag \cup {m} /\ IsFiniteSet(DOMAIN bag)
      /\ more = [x \in DOMAIN more |-> more[x]]
  BY DEF (+), SetToBag, IsForgets
<1>3. IsFiniteSet(DOMAIN more)
  BY <1>2, FS_AddElement
<1>4. \A x \in DOMAIN more : more[x] \in Nat \ {0}
  BY <1>1, <1>2 DEF OneMore, IsForgets
<1> QED
  BY <1>1, <1>2, <1>3, <1>4 DEF IsForgets

\* A message is read.
LEMMA BagRead ==
  ASSUME NEW bag, IsForgets(bag), NEW m \in DOMAIN bag,
         NEW rest, rest = bag (-) SetToBag({m})
  PROVE  /\ IsForgets(rest) /\ OneMore(rest, bag, m)
         /\ m \in Ids \X (Nat \ {0})
<1> DEFINE less == [e \in DOMAIN bag |-> IF e \in {m} THEN bag[e] - 1 ELSE bag[e]]
<1>1. rest = [e \in {d \in DOMAIN bag : less[d] > 0} |-> less[e]]
  BY DEF (-), SetToBag
<1>2. \A x \in DOMAIN bag : bag[x] \in Nat \ {0}
  BY DEF IsForgets
<1>3. \A x \in DOMAIN bag : less[x] = IF x = m THEN bag[x] - 1 ELSE bag[x]
  OBVIOUS
<1> HIDE DEF less
<1>4. /\ DOMAIN rest = {d \in DOMAIN bag : less[d] > 0}
      /\ \A x \in DOMAIN rest : rest[x] = less[x]
  BY <1>1
<1>5. /\ DOMAIN rest \subseteq DOMAIN bag /\ DOMAIN bag = DOMAIN rest \cup {m}
      /\ \A x \in DOMAIN rest : rest[x] \in Nat \ {0}
      /\ \A x \in DOMAIN rest \ {m} : bag[x] = rest[x]
  <2>1. \A x \in DOMAIN bag : less[x] \in Nat /\ (x # m => less[x] > 0)
    BY <1>2, <1>3
  <2>2. \A x \in DOMAIN bag : x \in DOMAIN rest \/ x = m
    BY <2>1, <1>4
  <2>3. \A x \in DOMAIN rest : x \in DOMAIN bag /\ less[x] > 0
    BY <1>4
  <2>4. \A x \in DOMAIN rest : rest[x] \in Nat \ {0}
    BY <2>1, <2>3, <1>4
  <2> QED
    BY <2>2, <2>3, <2>4, <1>3, <1>4
<1>6. bag[m] = (IF m \in DOMAIN rest THEN rest[m] ELSE 0) + 1
  <2>1. bag[m] \in Nat \ {0} /\ less[m] = bag[m] - 1
    BY <1>2, <1>3
  <2>2. m \in DOMAIN rest <=> less[m] > 0
    BY <1>4
  <2>3. m \in DOMAIN rest => rest[m] = less[m]
    BY <1>4
  <2> QED
    BY <2>1, <2>2, <2>3
<1>7. IsFiniteSet(DOMAIN rest)
  BY <1>5, FS_Subset DEF IsForgets
<1>8. rest \in [DOMAIN rest -> Nat \ {0}]
  BY <1>1, <1>5
<1>9. IsForgets(rest)
  BY <1>5, <1>7, <1>8 DEF IsForgets
<1>10. OneMore(rest, bag, m)
  BY <1>5, <1>6 DEF OneMore
<1> QED
  BY <1>9, <1>10 DEF IsForgets

-----------------------------------------------------------------------------
(* What the invariant says.                                                *)

\* Owed and Answered, for a request.
OwedBy(r, id) ==
  IF r.node # id THEN 0
  ELSE IF r.at \in {"forget", "asleep"} THEN r.n
  ELSE IF \/ r.op = "lookup"
          \/ r.op = "create" /\ r.at # "unlock"
  THEN 1 ELSE 0

Answers(r) ==
  \/ r.op \in {"none", "forget"}
  \/ r.op \in {"create", "open"} /\ r.at \in {"unlock", "unopen"}
  \/ r.at \in {"forget", "asleep"}

\* Both are what the model says of a thread.
LEMMA ThreadsOwe ==
  ASSUME NEW t
  PROVE  /\ \A id : Owed(t, id) = OwedBy(run[t], id)
         /\ \A id : Owed(t, id)' = OwedBy(run'[t], id)
         /\ Answered(t) <=> Answers(run[t])
         /\ Answered(t)' <=> Answers(run'[t])
BY DEF Owed, OwedBy, Answered, Answers

\* What a request has is a number.
LEMMA OwedNat ==
  ASSUME NEW r \in RequestSet, NEW id
  PROVE  OwedBy(r, id) \in Nat
BY DEF OwedBy, RequestSet

\* The counts, as numbers.
LEMMA CountsNat ==
  ASSUME TypesOK, NEW id \in Ids
  PROVE  /\ known[id] \in Nat
         /\ Cardinality(InForgets(id)) \in Nat
         /\ Cardinality(InThreads(id)) \in Nat
         /\ \A t \in Threads : OwedBy(run[t], id) <= Cardinality(InThreads(id))
         /\ \A m \in DOMAIN forgets :
              m[1] = id => m[2] <= Cardinality(InForgets(id))
<1> DEFINE o == [t \in Threads |-> Owed(t, id)]
<1>1. o \in [Threads -> Nat]
  BY ThreadsOwe, OwedNat DEF TypesOK
<1>2. InThreads(id) = Tokens(o)
  BY DEF InThreads, Tokens
<1>3. \A t \in Threads : o[t] = OwedBy(run[t], id)
  BY ThreadsOwe
<1> HIDE DEF o
<1>4. Cardinality(InThreads(id)) \in Nat
  BY <1>1, <1>2, TokensFinite
<1>5. \A t \in Threads : o[t] <= Cardinality(InThreads(id))
  BY <1>1, <1>2, TokensStep
<1>6. InForgets(id) = BagTokens(forgets, id) /\ IsForgets(forgets)
  BY DEF InForgets, BagTokens, BagToSet, TypesOK
<1>7. Cardinality(InForgets(id)) \in Nat
  BY <1>6, BagTokensFinite
<1>8. ASSUME NEW m \in DOMAIN forgets, m[1] = id
      PROVE  m[2] <= Cardinality(InForgets(id))
  <2> DEFINE rest == forgets (-) SetToBag({m})
  <2>1. IsForgets(rest) /\ OneMore(rest, forgets, m) /\ m \in Ids \X (Nat \ {0})
    BY <1>6, BagRead
  <2> HIDE DEF rest
  <2>2. Cardinality(BagTokens(forgets, id)) = Cardinality(BagTokens(rest, id)) + m[2]
    BY <2>1, <1>6, <1>8, BagStep
  <2>3. Cardinality(BagTokens(rest, id)) \in Nat /\ m[2] \in Nat
    BY <2>1, BagTokensFinite
  <2> QED
    BY <2>2, <2>3, <1>6
<1> QED
  BY <1>3, <1>4, <1>5, <1>7, <1>8 DEF TypesOK

\* Whoever has a lookup of a node finds it in the table, with its lookups.
LEMMA LookupsThere ==
  ASSUME TypesOK, IsTable(table), Balanced
  PROVE  /\ \A id \in Ids : known[id] > 0 =>
              id \in DOMAIN table /\ table[id].nlookup > 0
         /\ \A m \in DOMAIN forgets :
              /\ m[1] \in DOMAIN table /\ m[2] <= table[m[1]].nlookup
              /\ m[1] = Root => m[2] < table[m[1]].nlookup
         /\ \A t \in Threads, id \in Ids : OwedBy(run[t], id) > 0 =>
              /\ id \in DOMAIN table /\ OwedBy(run[t], id) <= table[id].nlookup
              /\ id = Root => OwedBy(run[t], id) < table[id].nlookup
<1>1. ASSUME NEW id \in Ids, NEW k \in Nat, k > 0,
             \/ k <= known[id] \/ k <= Cardinality(InForgets(id))
             \/ k <= Cardinality(InThreads(id))
      PROVE  /\ id \in DOMAIN table /\ k <= table[id].nlookup
             /\ id = Root => k < table[id].nlookup
  <2>1. /\ known[id] \in Nat /\ Cardinality(InForgets(id)) \in Nat
        /\ Cardinality(InThreads(id)) \in Nat
    BY CountsNat
  <2>2. Count(table, id) =
          (IF id = Root THEN 1 ELSE 0)
            + known[id] + Cardinality(InForgets(id)) + Cardinality(InThreads(id))
    BY DEF Balanced
  <2>3. Count(table, id) >= k /\ (id = Root => Count(table, id) > k)
    BY <1>1, <2>1, <2>2
  <2>4. id \in DOMAIN table
    BY <1>1, <2>3 DEF Count
  <2> QED
    BY <2>3, <2>4 DEF Count
<1>2. ASSUME NEW id \in Ids, known[id] > 0
      PROVE  id \in DOMAIN table /\ table[id].nlookup > 0
  <2>1. known[id] \in Nat
    BY DEF TypesOK
  <2>2. id \in DOMAIN table /\ known[id] <= table[id].nlookup
    BY <2>1, <1>1, <1>2
  <2>3. table[id].nlookup \in Nat
    BY <2>2 DEF IsTable, NodeSet
  <2> QED
    BY <2>1, <2>2, <2>3, <1>2
<1>3. ASSUME NEW m \in DOMAIN forgets
      PROVE  /\ m[1] \in DOMAIN table /\ m[2] <= table[m[1]].nlookup
             /\ m[1] = Root => m[2] < table[m[1]].nlookup
  <2>1. m[1] \in Ids /\ m[2] \in Nat /\ m[2] > 0
    BY DEF TypesOK, IsForgets
  <2>2. m[2] <= Cardinality(InForgets(m[1]))
    BY <2>1, CountsNat
  <2> QED
    BY <2>1, <2>2, <1>1
<1>4. ASSUME NEW t \in Threads, NEW id \in Ids, OwedBy(run[t], id) > 0
      PROVE  /\ id \in DOMAIN table /\ OwedBy(run[t], id) <= table[id].nlookup
             /\ id = Root => OwedBy(run[t], id) < table[id].nlookup
  <2>1. OwedBy(run[t], id) \in Nat
    BY OwedNat DEF TypesOK
  <2>2. OwedBy(run[t], id) <= Cardinality(InThreads(id))
    BY CountsNat
  <2> QED
    BY <2>1, <2>2, <1>1, <1>4
<1> QED
  BY <1>2, <1>3, <1>4

\* A node that the kernel holds is there.
LEMMA HeldThere ==
  ASSUME TypesOK, IsTable(table), Balanced, NEW id \in Ids, Holds(id)
  PROVE  id \in DOMAIN table
<1>1. CASE id = Root
  BY <1>1 DEF IsTable
<1>2. CASE id # Root
  <2>1. id # NoNode
    BY NodeAssumption DEF Ids, NoNode
  <2>2. id \in Chain(table, id)
    BY <1>2, <2>1, ChainOwn
  <2>3. known[id] > 0
    BY <2>2 DEF Holds
  <2> QED
    BY <2>3, LookupsThere
<1> QED
  BY <1>1, <1>2

\* The nodes of a request are there.
LEMMA RequestThere ==
  ASSUME IInv, NEW t \in Threads
  PROVE  /\ run[t].ino \in DOMAIN table \cup {NoNode}
         /\ run[t].node \in DOMAIN table \cup {NoNode}
<1> DEFINE r == run[t]
<1>1. /\ TypesOK /\ IsTable(table) /\ Balanced /\ r \in RequestSet /\ Shaped(r)
      /\ r.ino \in Ids \cup {NoNode} /\ r.node \in Ids \cup {NoNode}
  BY DEF IInv, TypesOK, TableOK, RequestSet
<1>2. \A i \in r.rd : i \in DOMAIN table
  BY DEF IInv, LockedLive
<1>3. ~Answers(r) /\ r.ino \in Ids => r.ino \in DOMAIN table
  BY <1>1, HeldThere, ThreadsOwe DEF IInv, PinnedKnown
<1>4. r.node \in Ids /\ OwedBy(r, r.node) > 0 => r.node \in DOMAIN table
  BY <1>1, LookupsThere
<1>5. Root \in DOMAIN table
  BY <1>1 DEF IsTable
<1>6. r.op = "remove" => r.node \in DOMAIN table
  <2> SUFFICES ASSUME r.op = "remove" PROVE r.node \in DOMAIN table
    OBVIOUS
  <2>1. r.node \in Ids
    BY <1>1 DEF Shaped, NoRequest, LookupShape, CreateShape, OpenShape,
         ReleaseShape, RemoveShape, ForgetShape
  <2>2. known[r.node] > 0
    BY DEF IInv, PinnedKnown
  <2> QED
    BY <1>1, <2>1, <2>2, LookupsThere
<1> HIDE DEF r
<1>7. CASE r = NoRequest
  BY <1>7 DEF r, NoRequest
<1>8. CASE LookupShape(r)
  <2>1. r.node \in Ids => OwedBy(r, r.node) > 0
    BY <1>8 DEF LookupShape, Forgetting, OwedBy
  <2>2. r.ino \in Ids => ~Answers(r)
    BY <1>8, NodeAssumption DEF LookupShape, Forgetting, Answers, NoNode, Ids
  <2> QED
    BY <2>1, <2>2, <1>1, <1>3, <1>4 DEF r
<1>9. CASE CreateShape(r)
  <2>1. r.node \in Ids => OwedBy(r, r.node) > 0
    BY <1>9, NodeAssumption DEF CreateShape, Forgetting, OwedBy, NoNode, Ids
  <2>2. r.ino \in r.rd \cup {Root}
    BY <1>9 DEF CreateShape
  <2> QED
    BY <2>1, <2>2, <1>1, <1>2, <1>4, <1>5 DEF r
<1>10. CASE OpenShape(r)
  BY <1>10, <1>2 DEF OpenShape, r
<1>11. CASE ReleaseShape(r)
  <2>1. ~Answers(r) /\ r.ino \in Ids /\ r.node = r.ino
    BY <1>11 DEF ReleaseShape, Answers
  <2> QED
    BY <2>1, <1>3 DEF r
<1>12. CASE RemoveShape(r)
  <2>1. ~Answers(r) /\ r.ino \in Ids
    BY <1>12 DEF RemoveShape, Answers
  <2> QED
    BY <2>1, <1>3, <1>6, <1>12 DEF r, RemoveShape
<1>13. CASE ForgetShape(r)
  <2>1. r.node \in Ids /\ OwedBy(r, r.node) > 0 /\ r.ino = NoNode
    BY <1>13 DEF ForgetShape, Forgetting, OwedBy
  <2> QED
    BY <2>1, <1>4 DEF r
<1> QED
  BY <1>1, <1>7, <1>8, <1>9, <1>10, <1>11, <1>12, <1>13 DEF Shaped

\* The invariant has what it is for.
LEMMA Consequences ==
  ASSUME IInv
  PROVE  NodesThere /\ RefCounts /\ LookupsBalance /\ NamesUnique
<1>1. TypesOK /\ IsTable(table) /\ CountedBut(table, NoNode) /\ Balanced
  BY DEF IInv, TableOK
<1>2. NodesThere
  <2>1. ASSUME NEW t \in Threads
        PROVE  ({run[t].ino, run[t].node} \ {NoNode}) \cup run[t].rd \cup run[t].wr
                 \subseteq DOMAIN table
    BY RequestThere DEF IInv, LockedLive
  <2>2. \A id \in Ids : known[id] > 0 \/ opened[id] > 0 => id \in DOMAIN table
    BY <1>1, LookupsThere DEF IInv, PinnedKnown
  <2>3. \A m \in BagToSet(forgets) : m[1] \in DOMAIN table
    BY <1>1, LookupsThere DEF BagToSet
  <2> QED
    BY <2>1, <2>2, <2>3 DEF NodesThere
<1>3. RefCounts
  <2>1. ASSUME NEW id \in DOMAIN table
        PROVE  /\ table[id].refctr = Cardinality(Children(id))
                                       + (IF table[id].nlookup > 0 THEN 1 ELSE 0)
               /\ table[id].refctr > 0
    <3>1. Children(id) = Below(table, id)
      BY DEF Children, Below
    <3>2. id # NoNode
      BY <1>1, NodeAssumption DEF IsTable, Ids, NoNode
    <3>3. Cardinality(Below(table, id)) \in Nat
      BY <1>1, BelowFinite
    <3> QED
      BY <1>1, <3>1, <3>2, <3>3 DEF CountedBut
  <2> QED
    BY <2>1 DEF RefCounts
<1>4. LookupsBalance
  <2>1. ASSUME NEW id \in DOMAIN table \ {Root}
        PROVE  table[id].nlookup = known[id] + Cardinality(InForgets(id))
                                     + Cardinality(InThreads(id))
    <3>1. id \in Ids
      BY <1>1 DEF IsTable
    <3>2. /\ known[id] \in Nat /\ Cardinality(InForgets(id)) \in Nat
          /\ Cardinality(InThreads(id)) \in Nat
      BY <1>1, <3>1, CountsNat
    <3> QED
      BY <1>1, <3>1, <3>2 DEF Balanced, Count
  <2> QED
    BY <2>1 DEF LookupsBalance
<1> QED
  BY <1>2, <1>3, <1>4 DEF IInv

-----------------------------------------------------------------------------
(* Steps.                                                                  *)

\* A thread that only may have been woken.
Alike(a, b) == b = a \/ (a.at = "asleep" /\ b = [a EXCEPT !.at = "forget"])

\* Waking changes nothing but the place.
LEMMA AlikeShape ==
  ASSUME NEW a \in RequestSet, Shaped(a), NEW b, Alike(a, b)
  PROVE  /\ b \in RequestSet /\ Shaped(b)
         /\ b.op = a.op /\ b.ino = a.ino /\ b.node = a.node
         /\ b.rd = a.rd /\ b.wr = a.wr
         /\ \A id : OwedBy(b, id) = OwedBy(a, id)
         /\ Answers(b) <=> Answers(a)
         /\ b.at \in {"handler", "opening", "answer"} => b.at = a.at
<1>1. CASE b = a
  BY <1>1
<1>2. CASE a.at = "asleep" /\ b = [a EXCEPT !.at = "forget"]
  <2>1. /\ b \in RequestSet /\ b.at = "forget"
        /\ b.op = a.op /\ b.ino = a.ino /\ b.node = a.node /\ b.n = a.n
        /\ b.rd = a.rd /\ b.wr = a.wr /\ b.name = a.name
    BY <1>2 DEF RequestSet
  <2>2. Shaped(b)
    <3>1. a # NoRequest
      BY <1>2 DEF NoRequest
    <3>2. LookupShape(a) => LookupShape(b)
      BY <1>2, <2>1 DEF LookupShape, Forgetting
    <3>3. CreateShape(a) => CreateShape(b)
      BY <1>2, <2>1 DEF CreateShape, Forgetting
    <3>4. ForgetShape(a) => ForgetShape(b)
      BY <1>2, <2>1 DEF ForgetShape, Forgetting
    <3>5. ~OpenShape(a) /\ ~ReleaseShape(a) /\ ~RemoveShape(a)
      BY <1>2 DEF OpenShape, ReleaseShape, RemoveShape
    <3> QED
      BY <3>1, <3>2, <3>3, <3>4, <3>5 DEF Shaped
  <2>3. \A id : OwedBy(b, id) = OwedBy(a, id)
    BY <1>2, <2>1 DEF OwedBy
  <2>4. Answers(b) <=> Answers(a)
    BY <1>2, <2>1 DEF Answers
  <2> QED
    BY <2>1, <2>2, <2>3, <2>4
<1> QED
  BY <1>1, <1>2 DEF Alike

\* A step of thread t, which then has request r; others may have been woken.
Step(t, r) ==
  /\ DOMAIN run' = Threads /\ run' = [s \in Threads |-> run'[s]]
  /\ run'[t] = r /\ r \in RequestSet /\ Shaped(r)
  /\ \A s \in Threads \ {t} : Alike(run[s], run'[s])

\* Requests stay requests.
LEMMA StepRuns ==
  ASSUME TypesOK, NEW t \in Threads, NEW r, Step(t, r)
  PROVE  /\ run' \in [Threads -> RequestSet]
         /\ \A s \in Threads : Shaped(run'[s])
<1>1. \A s \in Threads : run'[s] \in RequestSet /\ Shaped(run'[s])
  BY AlikeShape DEF Step, TypesOK
<1> QED
  BY <1>1 DEF Step

\* The lookups that threads have after a step.
LEMMA StepOwes ==
  ASSUME TypesOK, NEW t \in Threads, NEW r, Step(t, r), NEW id \in Ids
  PROVE  /\ Cardinality(InThreads(id))' =
              Cardinality(InThreads(id)) - OwedBy(run[t], id) + OwedBy(r, id)
         /\ \A s \in Threads : OwedBy(run'[s], id) <= Cardinality(InThreads(id))'
<1> DEFINE o == [s \in Threads |-> OwedBy(run[s], id)]
           p == [s \in Threads |-> OwedBy(run'[s], id)]
<1>1. o \in [Threads -> Nat] /\ p \in [Threads -> Nat]
  BY StepRuns, OwedNat DEF TypesOK
<1>2. InThreads(id) = Tokens(o)
  <2>1. \A s \in Threads : Owed(s, id) = o[s]
    BY ThreadsOwe
  <2> HIDE DEF o
  <2> QED
    BY <2>1 DEF InThreads, Tokens
<1>3. InThreads(id)' = Tokens(p)
  <2>1. \A s \in Threads : Owed(s, id)' = p[s]
    BY ThreadsOwe
  <2> HIDE DEF p
  <2> QED
    BY <2>1 DEF InThreads, Tokens
<1>4. \A s \in Threads \ {t} : p[s] = o[s]
  BY AlikeShape DEF Step, TypesOK
<1>5. o[t] = OwedBy(run[t], id) /\ p[t] = OwedBy(r, id)
  BY DEF Step
<1>6. \A s \in Threads : p[s] = OwedBy(run'[s], id)
  OBVIOUS
<1> HIDE DEF o, p
<1>7. \A s \in Threads : p[s] <= Cardinality(Tokens(p))
  BY <1>1, TokensStep
<1> QED
  BY <1>1, <1>2, <1>3, <1>4, <1>5, <1>6, <1>7, TokensStep

\* The way up is in the table.
LEMMA ChainInside ==
  ASSUME NEW tab, IsTable(tab), NEW id \in DOMAIN tab \cup {NoNode}
  PROVE  Chain(tab, id) \subseteq DOMAIN tab /\ Chain(tab, id) \subseteq Ids
BY LineInside DEF Chain, IsTable

\* Nobody gets another parent; the kernel forgets nothing.
Narrows ==
  /\ \A i \in DOMAIN table \cap DOMAIN table' :
       table'[i].parent \in {table[i].parent, NoNode}
  /\ \A i \in Ids : known[i] > 0 => known'[i] > 0

\* What the kernel holds it still holds.
LEMMA HoldsStep ==
  ASSUME IInv, IsTable(table'), Narrows,
         \A i \in Ids : known'[i] > 0 => i \in DOMAIN table',
         NEW id \in Ids \cup {NoNode}, Holds(id)
  PROVE  Holds(id)' /\ (id # NoNode => id \in DOMAIN table')
<1>1. CASE id = NoNode
  BY <1>1, ChainTop DEF Holds
<1>2. CASE id # NoNode
  <2>1. id \in Ids /\ id \in DOMAIN table
    BY <1>2, HeldThere DEF IInv, TableOK
  <2>2. id \in DOMAIN table'
    <3>1. CASE id = Root
      BY <3>1 DEF IsTable
    <3>2. CASE id # Root
      BY <3>2, <1>2, <2>1, ChainOwn DEF Holds, Narrows
    <3> QED
      BY <3>1, <3>2
  <2>3. Chain(table', id) \subseteq Chain(table, id)
    BY <2>1, <2>2, ChainShrinks DEF Narrows, IInv, TableOK
  <2>4. Chain(table, id) \subseteq Ids
    BY <2>1, ChainInside DEF IInv, TableOK
  <2>5. \A i \in Chain(table', id) : known'[i] > 0
    BY <2>3, <2>4 DEF Holds, Narrows
  <2> QED
    BY <2>2, <2>5 DEF Holds
<1> QED
  BY <1>1, <1>2

\* The table and the counts after a step of thread t with request r.
Accounts(t, r) ==
  /\ known' \in [Ids -> Nat] /\ opened' \in [Ids -> Nat] /\ IsForgets(forgets')
  /\ IsTable(table') /\ CountedBut(table', NoNode)
  /\ \A id \in Ids :
       Count(table', id) - known'[id] - Cardinality(InForgets(id))' - OwedBy(r, id) =
         Count(table, id) - known[id] - Cardinality(InForgets(id)) - OwedBy(run[t], id)

\* After such a step everything is counted again.
LEMMA StepAccounts ==
  ASSUME IInv, NEW t \in Threads, NEW r, Step(t, r), Accounts(t, r)
  PROVE  /\ TypesOK' /\ TableOK' /\ Balanced'
         /\ \A i \in Ids : known'[i] > 0 =>
              i \in DOMAIN table' /\ table'[i].nlookup > 0
         /\ \A s \in Threads, i \in Ids :
              OwedBy(run'[s], i) > 0 => i \in DOMAIN table'
<1>1. TypesOK /\ Balanced /\ IsTable(table)
  BY DEF IInv, TableOK
<1>2. TypesOK' /\ TableOK'
  BY <1>1, StepRuns DEF TypesOK, TableOK, Accounts
<1>3. ASSUME NEW id \in Ids
      PROVE  /\ Count(table', id) =
                  (IF id = Root THEN 1 ELSE 0) + known'[id]
                    + Cardinality(InForgets(id))' + Cardinality(InThreads(id))'
             /\ known'[id] > 0 => Count(table', id) > 0
             /\ \A s \in Threads : OwedBy(run'[s], id) > 0 => Count(table', id) > 0
  <2>1. /\ known[id] \in Nat /\ Cardinality(InForgets(id)) \in Nat
        /\ Cardinality(InThreads(id)) \in Nat
        /\ OwedBy(run[t], id) <= Cardinality(InThreads(id))
    BY <1>1, CountsNat
  <2>2. known'[id] \in Nat /\ Cardinality(InForgets(id))' \in Nat
    <3>1. InForgets(id)' = BagTokens(forgets', id)
      BY DEF InForgets, BagTokens, BagToSet
    <3> QED
      BY <3>1, BagTokensFinite DEF Accounts
  <2>3. OwedBy(run[t], id) \in Nat /\ OwedBy(r, id) \in Nat
    BY <1>1, OwedNat DEF TypesOK, Step
  <2>4. Count(table', id) \in Nat /\ Count(table, id) \in Nat
    BY <1>1 DEF Accounts, Count, IsTable, NodeSet
  <2>5. Cardinality(InThreads(id))' =
          Cardinality(InThreads(id)) - OwedBy(run[t], id) + OwedBy(r, id)
    BY <1>1, StepOwes
  <2>5a. \A s \in Threads : /\ OwedBy(run'[s], id) <= Cardinality(InThreads(id))'
                          /\ OwedBy(run'[s], id) \in Nat
    BY <1>1, <1>2, StepOwes, OwedNat DEF TypesOK
  <2>6. Count(table, id) =
          (IF id = Root THEN 1 ELSE 0)
            + known[id] + Cardinality(InForgets(id)) + Cardinality(InThreads(id))
    BY <1>1 DEF Balanced
  <2>7. Count(table', id) - known'[id] - Cardinality(InForgets(id))' - OwedBy(r, id) =
          Count(table, id) - known[id] - Cardinality(InForgets(id)) - OwedBy(run[t], id)
    BY DEF Accounts
  <2> QED
    BY <2>1, <2>2, <2>3, <2>4, <2>5, <2>6, <2>7, <2>5a
<1>4. Balanced'
  BY <1>3 DEF Balanced
<1>5. \A i \in Ids : known'[i] > 0 => i \in DOMAIN table' /\ table'[i].nlookup > 0
  BY <1>3 DEF Count
<1>6. \A s \in Threads, i \in Ids : OwedBy(run'[s], i) > 0 => i \in DOMAIN table'
  BY <1>3 DEF Count
<1> QED
  BY <1>2, <1>4, <1>5, <1>6

\* The locks of thread t with request r: on nodes that it had locked or that
\* the kernel knows; and what is locked stays.
Locking(t, r) ==
  /\ \A i \in r.rd \cup r.wr : i \in run[t].rd \cup run[t].wr \/ known[i] > 0
  /\ \A s \in Threads \ {t} : run[s].wr \cap r.wr = {}
  /\ \A s \in Threads : \A i \in run[s].rd \cup run[s].wr :
       i \in DOMAIN table' /\ table'[i].nlookup > 0

\* What request r of thread t, and open files, keep the kernel from forgetting.
Pinning(t, r) ==
  /\ ~Answers(r) => Holds(r.ino)
  /\ r.op = "remove" => known[r.node] > 0
  /\ \A i \in Ids : opened'[i] > 0 =>
       opened[i] > 0 \/ (i \in DOMAIN table' /\ Holds(i)')

\* The parents of nodes under way.
Parents(t, r) ==
  /\ r.op = "create" /\ r.at \in {"opening", "answer"} =>
       table'[r.node].parent \in {r.ino, NoNode}
  /\ r.op = "remove" /\ r.at = "handler" => table'[r.node].parent = r.ino
  /\ \A s \in Threads \ {t} :
       At(s, {"remove"}, "handler") =>
         table'[run[s].node].parent = table[run[s].node].parent

\* A step that keeps its accounts, locks, pins and names keeps the invariant.
LEMMA StepKeeps ==
  ASSUME IInv, NEW t \in Threads, NEW r, Step(t, r), Accounts(t, r), Narrows,
         Locking(t, r), Pinning(t, r), Parents(t, r), NamesUnique'
  PROVE  IInv'
<1>1. /\ TypesOK' /\ TableOK' /\ Balanced'
      /\ \A i \in Ids : known'[i] > 0 =>
           i \in DOMAIN table' /\ table'[i].nlookup > 0
  BY StepAccounts
<1>2. \A s \in Threads \ {t} :
        /\ run'[s].op = run[s].op /\ run'[s].ino = run[s].ino
        /\ run'[s].node = run[s].node
        /\ run'[s].rd = run[s].rd /\ run'[s].wr = run[s].wr
        /\ Answers(run'[s]) <=> Answers(run[s])
        /\ run'[s].at \in {"handler", "opening", "answer"} => run'[s].at = run[s].at
  BY AlikeShape DEF Step, IInv, TypesOK
<1>3. run'[t] = r /\ r \in RequestSet /\ Shaped(r)
  BY DEF Step
<1>4. IsTable(table') /\ IsTable(table)
  BY DEF Accounts, IInv, TableOK
<1>5. LockedLive'
  <2>1. ASSUME NEW s \in Threads, NEW i \in run'[s].rd \cup run'[s].wr
        PROVE  i \in DOMAIN table' /\ table'[i].nlookup > 0
    <3>1. CASE s # t \/ i \in run[t].rd \cup run[t].wr
      BY <3>1, <1>2 DEF Locking
    <3>2. CASE s = t /\ known[i] > 0
      <4>1. i \in Ids
        BY <2>1, <3>2, <1>3 DEF RequestSet
      <4> QED
        BY <4>1, <3>2, <1>1 DEF Narrows
    <3> QED
      BY <3>1, <3>2, <1>3, <2>1 DEF Locking
  <2> QED
    BY <2>1 DEF LockedLive
<1>6. PinnedKnown'
  <2>1. ASSUME NEW s \in Threads, ~Answers(run'[s])
        PROVE  \A i \in Chain(table', run'[s].ino) : known'[i] > 0
    <3>1. Holds(run'[s].ino)
      <4>1. CASE s = t
        BY <4>1, <2>1, <1>3 DEF Pinning
      <4>2. CASE s # t
        BY <4>2, <2>1, <1>2, ThreadsOwe DEF IInv, PinnedKnown
      <4> QED
        BY <4>1, <4>2
    <3>2. run'[s].ino \in Ids \cup {NoNode}
      BY <1>1 DEF TypesOK, RequestSet
    <3>3. PICK id \in Ids \cup {NoNode} : id = run'[s].ino
      BY <3>2
    <3>4. Holds(id)
      BY <3>1, <3>3
    <3>5. \A i \in Chain(table', id) : known'[i] > 0
      BY <3>4, <1>1, <1>4, HoldsStep DEF Holds
    <3> QED
      BY <3>3, <3>5
  <2>2. ASSUME NEW s \in Threads, run'[s].op = "remove"
        PROVE  known'[run'[s].node] > 0
    <3>1. known[run'[s].node] > 0
      BY <2>2, <1>2, <1>3 DEF Pinning, IInv, PinnedKnown
    <3>2. run'[s].node \in Ids
      <4>1. Shaped(run'[s])
        BY <1>1 DEF TypesOK
      <4> QED
        BY <4>1, <2>2 DEF Shaped, NoRequest, LookupShape, CreateShape, OpenShape,
             ReleaseShape, RemoveShape, ForgetShape
    <3> QED
      BY <3>1, <3>2 DEF Narrows
  <2>3. ASSUME NEW i \in Ids, opened'[i] > 0
        PROVE  i \in DOMAIN table' /\ Holds(i)'
    <3>1. CASE opened[i] > 0
      <4>1. Holds(i) /\ i # NoNode
        BY <3>1, NodeAssumption DEF IInv, PinnedKnown, Ids, NoNode
      <4> QED
        BY <4>1, <1>1, <1>4, HoldsStep
    <3> QED
      BY <3>1, <2>3 DEF Pinning
  <2> QED
    BY <2>1, <2>2, <2>3, ThreadsOwe DEF PinnedKnown, Holds
<1>7. ParentsOK'
  <2>1. ASSUME NEW s \in Threads, run'[s].op = "create",
               run'[s].at \in {"opening", "answer"}
        PROVE  table'[run'[s].node].parent \in {run'[s].ino, NoNode}
    <3>1. CASE s = t
      BY <3>1, <2>1, <1>3 DEF Parents
    <3>2. CASE s # t
      <4>1. /\ run[s].op = "create" /\ run[s].at \in {"opening", "answer"}
            /\ run'[s].node = run[s].node /\ run'[s].ino = run[s].ino
        BY <3>2, <2>1, <1>2
      <4>2. table[run[s].node].parent \in {run[s].ino, NoNode}
        BY <4>1 DEF IInv, ParentsOK
      <4>3. run[s].node \in DOMAIN table /\ run[s].node \in DOMAIN table'
        <5>1. run[s].node \in Ids /\ OwedBy(run'[s], run[s].node) > 0
          <6>1. Shaped(run[s]) /\ Shaped(run'[s])
            BY <1>1 DEF IInv, TypesOK
          <6>2. CreateShape(run[s])
            BY <6>1, <4>1 DEF Shaped, NoRequest, LookupShape, OpenShape,
                 ReleaseShape, RemoveShape, ForgetShape
          <6> QED
            BY <6>2, <4>1, <2>1 DEF CreateShape, Forgetting, OwedBy
        <5>2. run[s].node \in DOMAIN table
          BY <5>1, RequestThere, NodeAssumption DEF Ids, NoNode
        <5>3. run[s].node \in DOMAIN table'
          BY <5>1, StepAccounts
        <5> QED
          BY <5>2, <5>3
      <4> QED
        BY <4>1, <4>2, <4>3 DEF Narrows
    <3> QED
      BY <3>1, <3>2
  <2>2. ASSUME NEW s \in Threads, At(s, {"remove"}, "handler")'
        PROVE  table'[run'[s].node].parent = run'[s].ino
    <3>1. CASE s = t
      BY <3>1, <2>2, <1>3 DEF Parents, At
    <3>2. CASE s # t
      <4>1. /\ At(s, {"remove"}, "handler")
            /\ run'[s].node = run[s].node /\ run'[s].ino = run[s].ino
        BY <3>2, <2>2, <1>2 DEF At
      <4>2. table[run[s].node].parent = run[s].ino
        BY <4>1 DEF IInv, ParentsOK
      <4>3. table'[run[s].node].parent = table[run[s].node].parent
        BY <3>2, <4>1 DEF Parents
      <4> QED
        BY <4>1, <4>2, <4>3
    <3> QED
      BY <3>1, <3>2
  <2>3. ASSUME NEW s \in Threads, NEW u \in Threads \ {s}
        PROVE  run'[u].wr \cap run'[s].wr = {}
    <3>1. CASE s # t /\ u # t
      BY <3>1, <1>2 DEF IInv, ParentsOK
    <3>2. CASE s = t
      BY <3>2, <1>2, <1>3 DEF Locking
    <3>3. CASE u = t
      BY <3>3, <1>2, <1>3 DEF Locking
    <3> QED
      BY <3>1, <3>2, <3>3
  <2> QED
    BY <2>1, <2>2, <2>3 DEF ParentsOK
<1> QED
  BY <1>1, <1>5, <1>6, <1>7 DEF IInv

\* A thread goes on with r, the others do not move.
LEMMA GoesStep ==
  ASSUME TypesOK, NEW t \in Threads, NEW r \in RequestSet, Shaped(r), Goes(t, r)
  PROVE  Step(t, r)
<1>1. run' = [run EXCEPT ![t] = r] /\ DOMAIN run = Threads
  BY DEF Goes, TypesOK
<1>2. run'[t] = r /\ \A s \in Threads \ {t} : run'[s] = run[s]
  BY <1>1
<1>3. DOMAIN run' = Threads /\ run' = [s \in Threads |-> run'[s]]
  BY <1>1
<1> QED
  BY <1>2, <1>3 DEF Step, Alike

\* A thread without a request.
LEMMA Idle ==
  ASSUME TypesOK, NEW t \in Threads, ~Busy(t)
  PROVE  /\ run[t] = NoRequest
         /\ \A id \in Ids : OwedBy(run[t], id) = 0
<1>1. Shaped(run[t]) /\ run[t].op = "none"
  BY DEF TypesOK, Busy
<1>2. run[t] = NoRequest
  BY <1>1 DEF Shaped, LookupShape, CreateShape, OpenShape, ReleaseShape,
       RemoveShape, ForgetShape
<1>3. \A id \in Ids : OwedBy(NoRequest, id) = 0
  BY DEF OwedBy, NoRequest
<1> QED
  BY <1>2, <1>3

\* No request is a request, too.
LEMMA NoneShape == NoRequest \in RequestSet /\ Shaped(NoRequest)
BY DEF NoRequest, RequestSet, Shaped

\* A step that leaves the table alone.
LEMMA Still ==
  ASSUME IInv, NEW t \in Threads, NEW r, Step(t, r), table' = table,
         known' \in [Ids -> Nat], opened' \in [Ids -> Nat], IsForgets(forgets'),
         \A id \in Ids :
           /\ known[id] > 0 => known'[id] > 0
           /\ known'[id] + Cardinality(InForgets(id))' + OwedBy(r, id) =
                known[id] + Cardinality(InForgets(id)) + OwedBy(run[t], id),
         \A i \in r.rd \cup r.wr : i \in run[t].rd \cup run[t].wr \/ known[i] > 0,
         \A s \in Threads \ {t} : run[s].wr \cap r.wr = {},
         Pinning(t, r),
         r.op = "create" /\ r.at \in {"opening", "answer"} =>
           table[r.node].parent \in {r.ino, NoNode},
         r.op = "remove" /\ r.at = "handler" => table[r.node].parent = r.ino
  PROVE  IInv'
<1>1. Accounts(t, r)
  <2>1. ASSUME NEW id \in Ids
        PROVE  Count(table', id) - known'[id] - Cardinality(InForgets(id))'
                   - OwedBy(r, id) =
                 Count(table, id) - known[id] - Cardinality(InForgets(id))
                   - OwedBy(run[t], id)
    <3>1. /\ known[id] \in Nat /\ Cardinality(InForgets(id)) \in Nat
          /\ known'[id] \in Nat
      BY CountsNat DEF IInv
    <3>2. Cardinality(InForgets(id))' \in Nat
      <4>1. InForgets(id)' = BagTokens(forgets', id)
        BY DEF InForgets, BagTokens, BagToSet
      <4> QED
        BY <4>1, BagTokensFinite
    <3>3. OwedBy(run[t], id) \in Nat /\ OwedBy(r, id) \in Nat
      BY OwedNat DEF IInv, TypesOK, Step
    <3>4. Count(table, id) \in Nat /\ Count(table', id) = Count(table, id)
      BY DEF IInv, TableOK, Count, IsTable, NodeSet
    <3> QED
      BY <3>1, <3>2, <3>3, <3>4
  <2> QED
    BY <2>1 DEF Accounts, IInv, TableOK
<1>2. Narrows
  BY DEF Narrows
<1>3. Locking(t, r)
  BY DEF Locking, IInv, LockedLive
<1>4. Parents(t, r)
  BY DEF Parents
<1>5. NamesUnique'
  BY DEF IInv, NamesUnique
<1> QED
  BY <1>1, <1>2, <1>3, <1>4, <1>5, StepKeeps

\* A step that leaves the kernel's lookups alone as well.
LEMMA Quiet ==
  ASSUME IInv, NEW t \in Threads, NEW r, Step(t, r),
         UNCHANGED <<table, known, forgets>>, opened' \in [Ids -> Nat],
         \A id \in Ids : OwedBy(r, id) = OwedBy(run[t], id),
         \A i \in r.rd \cup r.wr : i \in run[t].rd \cup run[t].wr \/ known[i] > 0,
         \A s \in Threads \ {t} : run[s].wr \cap r.wr = {},
         Pinning(t, r),
         r.op = "create" /\ r.at \in {"opening", "answer"} =>
           table[r.node].parent \in {r.ino, NoNode},
         r.op = "remove" /\ r.at = "handler" => table[r.node].parent = r.ino
  PROVE  IInv'
<1>1. \A id \in Ids : InForgets(id)' = InForgets(id)
  BY DEF InForgets
<1>2. known' \in [Ids -> Nat] /\ IsForgets(forgets')
  BY DEF IInv, TypesOK
<1> QED
  BY <1>1, <1>2, Still

\* get_path locks only what the kernel holds.
LEMMA BeginKeeps ==
  ASSUME IInv, NEW t \in Threads, NEW op \in {"lookup", "create", "open"},
         NEW id \in Ids, NEW name \in Names \cup {NoName},
         op # "open" => name \in Names, begin(t, op, id, name)
  PROVE  IInv'
<1> DEFINE rd == Chain(table, id)
           r  == [NoRequest EXCEPT !.op = op, !.at = "handler", !.ino = id,
                                   !.name = name, !.rd = rd,
                                   !.node = IF op = "open" THEN id ELSE NoNode]
<1>1. /\ TypesOK /\ IsTable(table) /\ ~Busy(t) /\ id \in DOMAIN table /\ Holds(id)
      /\ op = "open" => id # Root
      /\ Goes(t, r) /\ UNCHANGED <<table, known, opened, forgets>>
  BY DEF begin, IInv, TableOK
<1>2. rd \subseteq Ids /\ (id # Root => id \in rd)
  BY <1>1, ChainInside, ChainOwn, NodeAssumption DEF Ids, NoNode
<1>3. \A i \in rd : known[i] > 0
  BY <1>1 DEF Holds
<1> HIDE DEF rd
<1>4. /\ r.op = op /\ r.at = "handler" /\ r.ino = id /\ r.name = name /\ r.rd = rd
      /\ r.node = (IF op = "open" THEN id ELSE NoNode) /\ r.n = 0 /\ r.wr = {}
  BY DEF NoRequest
<1>5. r \in RequestSet
  BY <1>2 DEF NoRequest, RequestSet
<1> HIDE DEF r
<1>6. Shaped(r)
  <2>1. CASE op = "lookup"
    BY <2>1, <1>4 DEF Shaped, LookupShape
  <2>2. CASE op = "create"
    BY <2>2, <1>2, <1>4 DEF Shaped, CreateShape
  <2>3. CASE op = "open"
    BY <2>3, <1>1, <1>2, <1>4 DEF Shaped, OpenShape
  <2> QED
    BY <2>1, <2>2, <2>3
<1>7. Step(t, r)
  BY <1>1, <1>5, <1>6, GoesStep
<1>8. \A i \in Ids : OwedBy(r, i) = OwedBy(run[t], i)
  <2>1. \A i \in Ids : OwedBy(r, i) = 0
    BY <1>4, NodeAssumption DEF OwedBy, Ids, NoNode
  <2> QED
    BY <2>1, <1>1, Idle
<1>9. Pinning(t, r)
  BY <1>1, <1>4 DEF Pinning
<1> QED
  BY <1>1, <1>3, <1>4, <1>7, <1>8, <1>9, Quiet DEF IInv, TypesOK

\* get_path_wrlock has the victim to itself.
LEMMA BeginRemoveKeeps ==
  ASSUME IInv, NEW t \in Threads, NEW id \in Ids, NEW name \in Names,
         begin_remove(t, id, name)
  PROVE  IInv'
<1>1. /\ TypesOK /\ IsTable(table) /\ ~Busy(t) /\ id \in DOMAIN table /\ Holds(id)
      /\ UNCHANGED <<table, known, opened, forgets>>
  BY DEF begin_remove, IInv, TableOK
<1>2. PICK victim \in lookup_node(table, id, name) :
        /\ known[victim] > 0
        /\ Locks!Compatible(t, Chain(table, id), {victim})
        /\ Goes(t, [NoRequest EXCEPT !.op = "remove", !.at = "handler",
                                     !.ino = id, !.name = name, !.node = victim,
                                     !.rd = Chain(table, id), !.wr = {victim}])
  BY DEF begin_remove
<1> DEFINE rd == Chain(table, id)
           r  == [NoRequest EXCEPT !.op = "remove", !.at = "handler",
                                   !.ino = id, !.name = name, !.node = victim,
                                   !.rd = rd, !.wr = {victim}]
<1>3. Goes(t, r)
  BY <1>2
<1>4. victim \in Ids /\ table[victim].parent = id
  BY <1>1, <1>2 DEF lookup_node, IsTable
<1>5. \A s \in Threads \ {t} : run[s].wr \cap {victim} = {}
  BY <1>2 DEF Locks!Compatible
<1>6. rd \subseteq Ids
  BY <1>1, ChainInside
<1>7. \A i \in rd : known[i] > 0
  BY <1>1 DEF Holds
<1> HIDE DEF rd
<1>8. /\ r.op = "remove" /\ r.at = "handler" /\ r.ino = id /\ r.rd = rd
      /\ r.node = victim /\ r.n = 0 /\ r.wr = {victim}
  BY DEF NoRequest
<1>9. r \in RequestSet
  BY <1>4, <1>6 DEF NoRequest, RequestSet
<1> HIDE DEF r
<1>10. Shaped(r)
  BY <1>4, <1>8 DEF Shaped, RemoveShape
<1>11. Step(t, r)
  BY <1>1, <1>3, <1>9, <1>10, GoesStep
<1>12. \A i \in Ids : OwedBy(r, i) = OwedBy(run[t], i)
  <2>1. \A i \in Ids : OwedBy(r, i) = 0
    BY <1>8 DEF OwedBy
  <2> QED
    BY <2>1, <1>1, Idle
<1>13. Pinning(t, r)
  BY <1>1, <1>2, <1>8 DEF Pinning
<1> QED
  BY <1>1, <1>2, <1>4, <1>5, <1>7, <1>8, <1>11, <1>12, <1>13, Quiet
     DEF IInv, TypesOK

\* get_path_nullok: an open file has its node.
LEMMA BeginReleaseKeeps ==
  ASSUME IInv, NEW t \in Threads, NEW id \in Ids, begin_release(t, id)
  PROVE  IInv'
<1> DEFINE rd == IF Intact(table, id) THEN Chain(table, id) ELSE {}
           r  == [NoRequest EXCEPT !.op = "release", !.at = "unopen",
                                   !.ino = id, !.node = id, !.rd = rd]
<1>1. /\ TypesOK /\ IsTable(table) /\ ~Busy(t) /\ opened[id] > 0
      /\ Goes(t, r) /\ UNCHANGED <<table, known, forgets>>
      /\ opened' = [opened EXCEPT ![id] = @ - 1]
  BY DEF begin_release, IInv, TableOK
<1>2. id \in DOMAIN table /\ Holds(id)
  BY <1>1 DEF IInv, PinnedKnown
<1>3. rd \subseteq Ids
  BY <1>1, <1>2, ChainInside
<1>4. \A i \in rd : known[i] > 0
  BY <1>2 DEF Holds
<1> HIDE DEF rd
<1>5. /\ r.op = "release" /\ r.at = "unopen" /\ r.ino = id /\ r.rd = rd
      /\ r.node = id /\ r.n = 0 /\ r.wr = {}
  BY DEF NoRequest
<1>6. r \in RequestSet
  BY <1>3 DEF NoRequest, RequestSet
<1> HIDE DEF r
<1>7. Shaped(r)
  BY <1>5 DEF Shaped, ReleaseShape
<1>8. Step(t, r)
  BY <1>1, <1>6, <1>7, GoesStep
<1>9. \A i \in Ids : OwedBy(r, i) = OwedBy(run[t], i)
  <2>1. \A i \in Ids : OwedBy(r, i) = 0
    BY <1>5 DEF OwedBy
  <2> QED
    BY <2>1, <1>1, Idle
<1>10. opened' \in [Ids -> Nat] /\ \A i \in Ids : opened'[i] > 0 => opened[i] > 0
  BY <1>1 DEF TypesOK
<1>11. Pinning(t, r)
  BY <1>2, <1>5, <1>10 DEF Pinning
<1> QED
  BY <1>1, <1>4, <1>5, <1>8, <1>9, <1>10, <1>11, Quiet

\* What a request has at each place.
LEMMA ShapeOf ==
  ASSUME NEW r, Shaped(r)
  PROVE  /\ r.op = "lookup" => LookupShape(r)
         /\ r.op = "create" => CreateShape(r)
         /\ r.op = "open" => OpenShape(r)
         /\ r.op = "release" => ReleaseShape(r)
         /\ r.op = "remove" => RemoveShape(r)
         /\ r.op = "forget" => ForgetShape(r)
         /\ r.at = "answer" => r.op \in {"lookup", "create", "open"}
         /\ r.at = "unopen" => r.op \in {"create", "open", "release"}
         /\ r.at = "forget" => r.op \in {"lookup", "create", "forget"}
         /\ r.at = "unlock" => r.op \in {"lookup", "create", "open", "release", "remove"}
<1>1. \/ r.op = "none" /\ r.at = "none"
      \/ r.op = "lookup" /\ LookupShape(r)
      \/ r.op = "create" /\ CreateShape(r)
      \/ r.op = "open" /\ OpenShape(r)
      \/ r.op = "release" /\ ReleaseShape(r)
      \/ r.op = "remove" /\ RemoveShape(r)
      \/ r.op = "forget" /\ ForgetShape(r)
  BY DEF Shaped, NoRequest, LookupShape, CreateShape, OpenShape, ReleaseShape,
       RemoveShape, ForgetShape
<1>2. /\ ReleaseShape(r) => r.at \in {"unopen", "unlock"}
      /\ RemoveShape(r) => r.at \in {"handler", "unlock"}
      /\ ForgetShape(r) => r.at \in {"forget", "asleep"}
      /\ LookupShape(r) => r.at \in {"handler", "unlock", "answer", "forget", "asleep"}
      /\ OpenShape(r) => r.at \in {"handler", "answer", "unopen", "unlock"}
  BY DEF ReleaseShape, RemoveShape, ForgetShape, LookupShape, OpenShape, Forgetting
<1> QED
  BY <1>1, <1>2

\* A handler that fails has found no node.
LEMMA FailedKeeps ==
  ASSUME IInv, NEW t \in Threads, failed(t)
  PROVE  IInv'
<1> DEFINE q == run[t]
           r == [run[t] EXCEPT !.at = "unlock",
                   !.node = IF run[t].op = "remove" THEN @ ELSE NoNode]
<1>1. /\ TypesOK /\ Goes(t, r) /\ UNCHANGED <<table, known, opened, forgets>>
      /\ q.op \in {"lookup", "create", "open", "remove"} /\ q.at = "handler"
      /\ q \in RequestSet /\ Shaped(q)
  BY DEF failed, At, IInv, TypesOK
<1>2. /\ r.op = q.op /\ r.at = "unlock" /\ r.ino = q.ino /\ r.n = q.n
      /\ r.node = (IF q.op = "remove" THEN q.node ELSE NoNode)
      /\ r.rd = q.rd /\ r.wr = q.wr
  BY <1>1 DEF RequestSet
<1>3. r \in RequestSet
  BY <1>1 DEF RequestSet
<1>4. ~Answers(q)
  BY <1>1 DEF Answers
<1>5. Holds(q.ino) /\ (q.op = "remove" => known[q.node] > 0)
  BY <1>4, ThreadsOwe DEF IInv, PinnedKnown
<1>6. \A s \in Threads \ {t} : run[s].wr \cap q.wr = {}
  BY DEF IInv, ParentsOK
<1>7. \A i \in Ids : OwedBy(q, i) = 0
  <2>1. q.op \in {"lookup", "create"} => q.node = NoNode
    BY <1>1, ShapeOf DEF LookupShape, CreateShape, Forgetting
  <2> QED
    BY <1>1, <2>1, NodeAssumption DEF OwedBy, NoNode, Ids
<1> HIDE DEF r
<1>8. \A i \in Ids : OwedBy(r, i) = 0
  BY <1>1, <1>2, NodeAssumption DEF OwedBy, NoNode, Ids
<1>9. Shaped(r)
  <2>1. CASE q.op = "lookup"
    <3>1. LookupShape(q)
      BY <1>1, <2>1, ShapeOf
    <3>2. LookupShape(r)
      BY <1>1, <1>2, <2>1, <3>1 DEF LookupShape, Forgetting
    <3> QED
      BY <3>2 DEF Shaped
  <2>2. CASE q.op = "create"
    <3>1. CreateShape(q)
      BY <1>1, <2>2, ShapeOf
    <3>2. CreateShape(r)
      BY <1>1, <1>2, <2>2, <3>1 DEF CreateShape
    <3> QED
      BY <3>2 DEF Shaped
  <2>3. CASE q.op = "open"
    <3>1. OpenShape(q)
      BY <1>1, <2>3, ShapeOf
    <3>2. OpenShape(r)
      BY <1>1, <1>2, <2>3, <3>1 DEF OpenShape
    <3> QED
      BY <3>2 DEF Shaped
  <2>4. CASE q.op = "remove"
    <3>1. RemoveShape(q)
      BY <1>1, <2>4, ShapeOf
    <3>2. RemoveShape(r)
      BY <1>1, <1>2, <2>4, <3>1 DEF RemoveShape
    <3> QED
      BY <3>2 DEF Shaped
  <2> QED
    BY <1>1, <2>1, <2>2, <2>3, <2>4
<1>10. Step(t, r)
  BY <1>1, <1>3, <1>9, GoesStep
<1>11. Pinning(t, r)
  BY <1>1, <1>2, <1>5 DEF Pinning
<1> QED
  BY <1>1, <1>2, <1>6, <1>7, <1>8, <1>10, <1>11, Quiet DEF TypesOK

\* An answer that nobody takes leaves its lookup to be forgotten.
LEMMA InterruptedKeeps ==
  ASSUME IInv, NEW t \in Threads, answer_interrupted(t)
  PROVE  IInv'
<1> DEFINE q == run[t]
<1>1. /\ TypesOK /\ UNCHANGED <<table, known, opened, forgets>>
      /\ q.at = "answer" /\ q \in RequestSet /\ Shaped(q)
      /\ q.op \in {"lookup", "create", "open"}
  BY ShapeOf DEF answer_interrupted, IInv, TypesOK
<1>2. PICK r : r = IF q.op = "lookup"
                   THEN [q EXCEPT !.at = "forget", !.n = 1, !.ino = NoNode]
                   ELSE [q EXCEPT !.at = "unopen"]
  OBVIOUS
<1>3. Goes(t, r)
  BY <1>2 DEF answer_interrupted
<1>4. \A s \in Threads \ {t} : run[s].wr \cap q.wr = {}
  BY DEF IInv, ParentsOK
<1> HIDE DEF q
<1>5. /\ r \in RequestSet /\ Shaped(r) /\ r.rd = q.rd /\ r.wr = q.wr
      /\ r.op = q.op /\ r.at \in {"forget", "unopen"} /\ Answers(r)
      /\ \A i \in Ids : OwedBy(r, i) = OwedBy(q, i)
  <2>1. CASE q.op = "lookup"
    <3>1. /\ r \in RequestSet /\ r.op = "lookup" /\ r.at = "forget" /\ r.n = 1
          /\ r.ino = NoNode /\ r.node = q.node /\ r.rd = q.rd /\ r.wr = q.wr
      BY <1>1, <1>2, <2>1 DEF RequestSet
    <3>2. LookupShape(q)
      BY <1>1, <2>1, ShapeOf
    <3>3. LookupShape(r)
      BY <1>1, <3>1, <3>2 DEF LookupShape, Forgetting
    <3> QED
      BY <1>1, <2>1, <3>1, <3>3 DEF Shaped, OwedBy, Answers
  <2>2. CASE q.op # "lookup"
    <3>1. /\ r \in RequestSet /\ r.op = q.op /\ r.at = "unopen" /\ r.n = q.n
          /\ r.ino = q.ino /\ r.node = q.node /\ r.rd = q.rd /\ r.wr = q.wr
      BY <1>1, <1>2, <2>2 DEF RequestSet
    <3>2. CASE q.op = "create"
      <4>1. CreateShape(q)
        BY <1>1, <3>2, ShapeOf
      <4>2. CreateShape(r)
        BY <1>1, <3>1, <4>1 DEF CreateShape, Forgetting
      <4> QED
        BY <1>1, <3>1, <3>2, <4>2 DEF Shaped, OwedBy, Answers
    <3>3. CASE q.op = "open"
      <4>1. OpenShape(q)
        BY <1>1, <3>3, ShapeOf
      <4>2. OpenShape(r)
        BY <1>1, <3>1, <4>1 DEF OpenShape
      <4> QED
        BY <1>1, <3>1, <3>3, <4>2 DEF Shaped, OwedBy, Answers
    <3> QED
      BY <1>1, <2>2, <3>2, <3>3
  <2> QED
    BY <2>1, <2>2
<1>6. Step(t, r)
  BY <1>1, <1>3, <1>5, GoesStep
<1>7. Pinning(t, r)
  BY <1>1, <1>5 DEF Pinning
<1> QED
  BY <1>1, <1>4, <1>5, <1>6, <1>7, Quiet DEF TypesOK, q

\* create takes the lookup of what is no regular file back.
LEMMA NotRegularKeeps ==
  ASSUME IInv, NEW t \in Threads, not_regular(t)
  PROVE  IInv'
<1> DEFINE q == run[t]
<1>1. /\ TypesOK /\ UNCHANGED <<table, known, opened, forgets>>
      /\ q.op = "create" /\ q.at = "opening" /\ q \in RequestSet /\ Shaped(q)
  BY DEF not_regular, At, IInv, TypesOK
<1>2. PICK r : r = [q EXCEPT !.at = "forget", !.n = 1]
  OBVIOUS
<1>3. Goes(t, r)
  BY <1>2 DEF not_regular
<1>4. \A s \in Threads \ {t} : run[s].wr \cap q.wr = {}
  BY DEF IInv, ParentsOK
<1> HIDE DEF q
<1>5. /\ r \in RequestSet /\ Shaped(r) /\ r.rd = q.rd /\ r.wr = q.wr
      /\ r.op = q.op /\ r.at = "forget" /\ Answers(r)
      /\ \A i \in Ids : OwedBy(r, i) = OwedBy(q, i)
  <2>1. /\ r \in RequestSet /\ r.op = "create" /\ r.at = "forget" /\ r.n = 1
        /\ r.ino = q.ino /\ r.node = q.node /\ r.rd = q.rd /\ r.wr = q.wr
    BY <1>1, <1>2 DEF RequestSet
  <2>2. CreateShape(q)
    BY <1>1, ShapeOf
  <2>3. CreateShape(r)
    BY <1>1, <2>1, <2>2 DEF CreateShape, Forgetting
  <2> QED
    BY <1>1, <2>1, <2>3 DEF Shaped, OwedBy, Answers
<1>6. Step(t, r)
  BY <1>1, <1>3, <1>5, GoesStep
<1>7. Pinning(t, r)
  BY <1>1, <1>5 DEF Pinning
<1> QED
  BY <1>1, <1>4, <1>5, <1>6, <1>7, Quiet DEF TypesOK, q

\* free_path lets the locks go and wakes forgets that wait.
LEMMA FreeKeeps ==
  ASSUME IInv, NEW t \in Threads, free_path(t)
  PROVE  IInv'
<1> DEFINE q == run[t]
<1>1. /\ TypesOK /\ UNCHANGED <<table, known, opened, forgets>>
      /\ q.at = "unlock" /\ q \in RequestSet /\ Shaped(q)
      /\ DOMAIN run = Threads
  BY DEF free_path, IInv, TypesOK
<1>2. PICK r : r = IF q.op = "lookup" /\ q.node # NoNode
                   THEN [q EXCEPT !.rd = {}, !.wr = {}, !.at = "answer"]
                   ELSE NoRequest
  OBVIOUS
<1>3. run' = Woken([run EXCEPT ![t] = r])
  BY <1>2 DEF free_path
<1>4. ~Answers(q) => Holds(q.ino)
  BY ThreadsOwe DEF IInv, PinnedKnown
<1> HIDE DEF q
<1>5. /\ r \in RequestSet /\ Shaped(r) /\ r.rd = {} /\ r.wr = {}
      /\ r.op \in {"lookup", "none"} /\ r.at # "asleep"
      /\ (~Answers(r) => Holds(r.ino))
      /\ \A i \in Ids : OwedBy(r, i) = OwedBy(q, i)
  <2>1. CASE q.op = "lookup" /\ q.node # NoNode
    <3>1. /\ r \in RequestSet /\ r.op = "lookup" /\ r.at = "answer" /\ r.n = q.n
          /\ r.ino = q.ino /\ r.node = q.node /\ r.rd = {} /\ r.wr = {}
      BY <1>1, <1>2, <2>1 DEF RequestSet
    <3>2. LookupShape(q) /\ q.node \in Ids
      BY <1>1, <2>1, ShapeOf DEF RequestSet
    <3>3. LookupShape(r)
      BY <1>1, <3>1, <3>2 DEF LookupShape, Forgetting
    <3>4. ~Answers(q)
      BY <1>1, <2>1 DEF Answers
    <3> QED
      BY <1>1, <1>4, <2>1, <3>1, <3>3, <3>4 DEF Shaped, OwedBy
  <2>2. CASE ~(q.op = "lookup" /\ q.node # NoNode)
    <3>1. r = NoRequest /\ r.rd = {} /\ r.wr = {} /\ r.op = "none" /\ r.at = "none"
      BY <1>2, <2>2 DEF NoRequest
    <3>2. \A i \in Ids : OwedBy(r, i) = 0
      BY <3>1 DEF OwedBy
    <3>3. \A i \in Ids : OwedBy(q, i) = 0
      BY <1>1, <2>2, NodeAssumption DEF OwedBy, NoNode, Ids
    <3> QED
      BY <3>1, <3>2, <3>3, NoneShape DEF Answers
  <2> QED
    BY <2>1, <2>2
<1>6. Step(t, r)
  <2> DEFINE rest == [run EXCEPT ![t] = r]
  <2>1. rest[t] = r /\ \A s \in Threads \ {t} : rest[s] = run[s]
    BY <1>1
  <2> HIDE DEF rest
  <2>2. /\ DOMAIN run' = Threads /\ run' = [s \in Threads |-> run'[s]]
        /\ \A s \in Threads : Alike(rest[s], run'[s])
        /\ rest[t].at # "asleep" => run'[t] = rest[t]
    BY <1>3 DEF Woken, Alike, rest
  <2> QED
    BY <1>5, <2>1, <2>2 DEF Step
<1>7. Pinning(t, r)
  BY <1>1, <1>5 DEF Pinning
<1> QED
  BY <1>1, <1>5, <1>6, <1>7, Quiet DEF TypesOK, q

\* The kernel takes an answer, and with it the lookup of the thread.
LEMMA AnswerKeeps ==
  ASSUME IInv, NEW t \in Threads, answer(t)
  PROVE  IInv'
<1> DEFINE q  == run[t]
           id == run[t].node
<1>1. /\ TypesOK /\ IsTable(table) /\ table' = table /\ forgets' = forgets
      /\ q.at = "answer" /\ q \in RequestSet /\ Shaped(q)
      /\ q.op \in {"lookup", "create", "open"}
      /\ known' = IF q.op = "open" THEN known ELSE [known EXCEPT ![id] = @ + 1]
      /\ opened' = IF q.op = "lookup" THEN opened ELSE [opened EXCEPT ![id] = @ + 1]
  BY ShapeOf DEF answer, IInv, TypesOK, TableOK
<1>2. PICK r : r = IF q.op = "lookup" THEN NoRequest
                   ELSE [q EXCEPT !.at = "unlock", !.node = NoNode]
  OBVIOUS
<1>3. Goes(t, r)
  BY <1>2 DEF answer, Done
<1>4. id \in Ids /\ id \in DOMAIN table
  <2>1. id \in Ids
    <3>1. CASE q.op = "lookup"
      BY <3>1, <1>1, ShapeOf DEF LookupShape, Forgetting
    <3>2. CASE q.op = "create"
      BY <3>2, <1>1, ShapeOf DEF CreateShape, Forgetting
    <3>3. CASE q.op = "open"
      BY <3>3, <1>1, ShapeOf DEF OpenShape
    <3> QED
      BY <3>1, <3>2, <3>3, <1>1
  <2> QED
    BY <2>1, RequestThere, NodeAssumption DEF Ids, NoNode
<1>5. Holds(q.ino)
  <2>1. ~Answers(q)
    BY <1>1 DEF Answers
  <2> QED
    BY <2>1, ThreadsOwe DEF IInv, PinnedKnown
<1>6. q.op = "create" => table[id].parent \in {q.ino, NoNode}
  BY <1>1 DEF IInv, ParentsOK
<1>7. q.op = "open" => id = q.ino
  BY <1>1, ShapeOf DEF OpenShape
<1>8. \A s \in Threads \ {t} : run[s].wr \cap q.wr = {}
  BY DEF IInv, ParentsOK
<1>9. q = run[t]
  OBVIOUS
<1> HIDE DEF q, id
<1>10. /\ r \in RequestSet /\ Shaped(r) /\ r.rd \subseteq q.rd /\ r.wr \subseteq q.wr
       /\ r.op \in {"none", "create", "open"} /\ Answers(r)
       /\ r.at \in {"none", "unlock"}
       /\ \A i \in Ids : OwedBy(r, i) = 0
  <2>1. CASE q.op = "lookup"
    <3>1. r = NoRequest /\ r.rd = {} /\ r.wr = {} /\ r.op = "none" /\ r.at = "none"
      BY <1>2, <2>1 DEF NoRequest
    <3> QED
      BY <3>1, NoneShape DEF OwedBy, Answers
  <2>2. CASE q.op # "lookup"
    <3>1. /\ r \in RequestSet /\ r.op = q.op /\ r.at = "unlock" /\ r.ino = q.ino
          /\ r.node = NoNode /\ r.rd = q.rd /\ r.wr = q.wr
      BY <1>1, <1>2, <2>2 DEF RequestSet
    <3>2. \A i \in Ids : OwedBy(r, i) = 0
      BY <3>1, NodeAssumption DEF OwedBy, NoNode, Ids
    <3>3. CASE q.op = "create"
      <4>1. CreateShape(q)
        BY <1>1, <3>3, ShapeOf
      <4>2. CreateShape(r)
        BY <1>1, <3>1, <4>1 DEF CreateShape
      <4> QED
        BY <3>1, <3>2, <3>3, <4>2 DEF Shaped, Answers
    <3>4. CASE q.op = "open"
      <4>1. OpenShape(q)
        BY <1>1, <3>4, ShapeOf
      <4>2. OpenShape(r)
        BY <1>1, <3>1, <4>1 DEF OpenShape
      <4> QED
        BY <3>1, <3>2, <3>4, <4>2 DEF Shaped, Answers
    <3> QED
      BY <1>1, <2>2, <3>3, <3>4
  <2> QED
    BY <2>1, <2>2
<1>11. Step(t, r)
  BY <1>1, <1>3, <1>10, GoesStep
<1>12. /\ known' \in [Ids -> Nat] /\ opened' \in [Ids -> Nat]
       /\ \A i \in Ids : /\ known[i] > 0 => known'[i] > 0
                         /\ known'[i] = known[i] + OwedBy(q, i)
       /\ q.op # "open" => known'[id] > 0
       /\ \A i \in Ids : opened'[i] > 0 =>
            opened[i] > 0 \/ (i = id /\ q.op # "lookup")
  <2>1. \A i \in Ids : OwedBy(q, i) =
          IF i = id /\ q.op # "open" THEN 1 ELSE 0
    BY <1>1 DEF OwedBy, q, id
  <2>2. known \in [Ids -> Nat] /\ opened \in [Ids -> Nat]
    BY <1>1 DEF TypesOK
  <2> QED
    BY <1>1, <1>4, <2>1, <2>2
<1>13. q.op # "lookup" => \A i \in Chain(table', id) : known'[i] > 0
  <2>1. q.ino \in Ids /\ Chain(table, id) \subseteq Ids
    <3>1. q.op # "lookup" => q.ino \in Ids
      BY <1>1, ShapeOf DEF CreateShape, OpenShape
    <3>2. q.op = "lookup" => q.ino \in Ids
      BY <1>1, ShapeOf DEF LookupShape, Forgetting
    <3> QED
      BY <1>1, <1>4, <3>1, <3>2, ChainInside
  <2>2. ASSUME q.op # "lookup", NEW i \in Chain(table, id) PROVE known'[i] > 0
    <3>1. CASE i \in Chain(table, q.ino)
      BY <3>1, <1>5, <1>12, <2>1, <2>2 DEF Holds
    <3>2. CASE q.op = "open"
      BY <3>2, <3>1, <1>7
    <3>3. CASE q.op = "create"
      <4>1. id # NoNode
        BY <1>4, NodeAssumption DEF Ids, NoNode
      <4>2. id # Root
        BY <2>2, ChainTop
      <4>3. i = id \/ i \in Chain(table, table[id].parent)
        BY <4>1, <4>2, <2>2, ChainStep
      <4>4. i = id \/ i \in Chain(table, q.ino)
        BY <4>3, <1>6, <3>3, ChainTop
      <4> QED
        BY <4>4, <3>1, <3>3, <1>12
    <3> QED
      BY <3>2, <3>3, <1>1, <2>2
  <2> QED
    BY <2>2, <1>1
<1>14. Pinning(t, r)
  BY <1>1, <1>4, <1>10, <1>12, <1>13 DEF Pinning, Holds
<1>15. ASSUME NEW i \in Ids
       PROVE  /\ InForgets(i)' = InForgets(i)
              /\ known'[i] + Cardinality(InForgets(i))' + OwedBy(r, i) =
                   known[i] + Cardinality(InForgets(i)) + OwedBy(q, i)
  <2>1. InForgets(i)' = InForgets(i)
    BY <1>1 DEF InForgets
  <2>2. known[i] \in Nat /\ Cardinality(InForgets(i)) \in Nat /\ OwedBy(q, i) \in Nat
    BY <1>1, CountsNat, OwedNat
  <2> QED
    BY <2>1, <2>2, <1>10, <1>12
<1> QED
  BY <1>1, <1>8, <1>9, <1>10, <1>11, <1>12, <1>14, <1>15, Still DEF TypesOK

-----------------------------------------------------------------------------
(* Forgetting.                                                             *)

\* Thread t is to carry out the forget q, whose lookups it has.
Takes(t, q) ==
  /\ q \in RequestSet /\ Shaped(q) /\ q.at = "forget" /\ q.rd \subseteq run[t].rd
  /\ known' = known /\ opened' = opened /\ IsForgets(forgets')
  /\ \A id \in Ids :
       Cardinality(InForgets(id))' + OwedBy(q, id) =
         Cardinality(InForgets(id)) + OwedBy(run[t], id)
  /\ q.node \in DOMAIN table /\ q.n <= table[q.node].nlookup
  /\ q.node = Root => q.n < table[q.node].nlookup

\* A forget has no name locked, and as many lookups as it says.
LEMMA TakesShape ==
  ASSUME NEW t, NEW q, Takes(t, q)
  PROVE  /\ q.op \in {"lookup", "create", "forget"} /\ q.wr = {}
         /\ q.node \in Ids /\ q.n \in Nat /\ q.n > 0
         /\ \A id \in Ids : OwedBy(q, id) = IF id = q.node THEN q.n ELSE 0
<1>1. q \in RequestSet /\ Shaped(q) /\ q.at = "forget"
  BY DEF Takes
<1>2. q.op \in {"lookup", "create", "forget"}
  BY <1>1, ShapeOf
<1>3. q.wr = {} /\ Forgetting(q)
  BY <1>1, <1>2, ShapeOf DEF LookupShape, CreateShape, ForgetShape
<1>4. q.n \in Nat
  BY <1>1 DEF RequestSet
<1> QED
  BY <1>1, <1>2, <1>3, <1>4 DEF Forgetting, OwedBy

\* It waits for a path lock.
LEMMA SleepKeeps ==
  ASSUME IInv, NEW t \in Threads, NEW q, Takes(t, q), table' = table,
         Goes(t, [q EXCEPT !.at = "asleep"])
  PROVE  IInv'
<1>1. PICK r : r = [q EXCEPT !.at = "asleep"]
  OBVIOUS
<1>2. /\ TypesOK /\ q \in RequestSet /\ Shaped(q) /\ q.at = "forget"
      /\ q.op \in {"lookup", "create", "forget"} /\ q.wr = {}
      /\ known' = known /\ opened' = opened /\ IsForgets(forgets')
      /\ q.rd \subseteq run[t].rd
  BY TakesShape DEF Takes, IInv
<1>3. /\ r \in RequestSet /\ r.op = q.op /\ r.at = "asleep" /\ r.ino = q.ino
      /\ r.node = q.node /\ r.n = q.n /\ r.rd = q.rd /\ r.wr = q.wr
  BY <1>1, <1>2 DEF RequestSet
<1>4. Shaped(r)
  <2>1. CASE q.op = "lookup"
    <3>1. LookupShape(q)
      BY <1>2, <2>1, ShapeOf
    <3>2. LookupShape(r)
      BY <1>2, <1>3, <3>1 DEF LookupShape, Forgetting
    <3> QED
      BY <3>2 DEF Shaped
  <2>2. CASE q.op = "create"
    <3>1. CreateShape(q)
      BY <1>2, <2>2, ShapeOf
    <3>2. CreateShape(r)
      BY <1>2, <1>3, <3>1 DEF CreateShape, Forgetting
    <3> QED
      BY <3>2 DEF Shaped
  <2>3. CASE q.op = "forget"
    <3>1. ForgetShape(q)
      BY <1>2, <2>3, ShapeOf
    <3>2. ForgetShape(r)
      BY <1>2, <1>3, <3>1 DEF ForgetShape, Forgetting
    <3> QED
      BY <3>2 DEF Shaped
  <2> QED
    BY <1>2, <2>1, <2>2, <2>3
<1>5. Step(t, r)
  BY <1>1, <1>2, <1>3, <1>4, GoesStep
<1>6. \A id \in Ids : OwedBy(r, id) = OwedBy(q, id)
  BY <1>2, <1>3 DEF OwedBy
<1>7. Pinning(t, r)
  BY <1>2, <1>3 DEF Pinning, Answers
<1>8. ASSUME NEW id \in Ids
      PROVE  known'[id] + Cardinality(InForgets(id))' + OwedBy(r, id) =
               known[id] + Cardinality(InForgets(id)) + OwedBy(run[t], id)
  <2>1. Cardinality(InForgets(id))' + OwedBy(q, id) =
          Cardinality(InForgets(id)) + OwedBy(run[t], id)
    BY DEF Takes
  <2>2. /\ known[id] \in Nat /\ Cardinality(InForgets(id)) \in Nat
        /\ OwedBy(run[t], id) \in Nat /\ OwedBy(q, id) \in Nat
    BY <1>2, CountsNat, OwedNat DEF TypesOK
  <2>3. Cardinality(InForgets(id))' \in Nat
    <3>1. InForgets(id)' = BagTokens(forgets', id)
      BY DEF InForgets, BagTokens, BagToSet
    <3> QED
      BY <3>1, <1>2, BagTokensFinite
  <2> QED
    BY <2>1, <2>2, <2>3, <1>2, <1>6
<1> QED
  BY <1>2, <1>3, <1>5, <1>7, <1>8, Still DEF TypesOK

\* It goes ahead: what others have locked or know is still there.
LEMMA ForgetKeeps ==
  ASSUME IInv, NEW t \in Threads, NEW q, Takes(t, q), ~MustWait(q.node, q.n),
         table' = Forgotten(table, q.node, q.n),
         Goes(t, IF q.op = "create"
                 THEN [q EXCEPT !.at = "unlock", !.node = NoNode]
                 ELSE NoRequest)
  PROVE  IInv'
<1>1. PICK r : r = IF q.op = "create"
                   THEN [q EXCEPT !.at = "unlock", !.node = NoNode]
                   ELSE NoRequest
  OBVIOUS
<1>2. /\ TypesOK /\ IsTable(table) /\ CountedBut(table, NoNode)
      /\ q \in RequestSet /\ Shaped(q) /\ q.at = "forget"
      /\ q.op \in {"lookup", "create", "forget"} /\ q.wr = {}
      /\ known' = known /\ opened' = opened /\ IsForgets(forgets')
      /\ q.rd \subseteq run[t].rd
  BY TakesShape DEF Takes, IInv, TableOK
<1>3. /\ q.node \in DOMAIN table /\ q.n \in Nat /\ q.n > 0
      /\ q.n <= table[q.node].nlookup
      /\ q.node = Root => q.n < table[q.node].nlookup
      /\ \A id \in Ids : OwedBy(q, id) = IF id = q.node THEN q.n ELSE 0
  BY TakesShape DEF Takes
<1>4. /\ IsTable(table') /\ CountedBut(table', NoNode)
      /\ DOMAIN table' \subseteq DOMAIN table
      /\ \A i \in DOMAIN table' :
           /\ table'[i].parent = table[i].parent /\ table'[i].name = table[i].name
           /\ table'[i].nlookup = table[i].nlookup - (IF i = q.node THEN q.n ELSE 0)
      /\ \A i \in DOMAIN table \ DOMAIN table' :
           table[i].nlookup = IF i = q.node THEN q.n ELSE 0
  BY <1>2, <1>3, Forgets
<1>5. /\ r \in RequestSet /\ Shaped(r) /\ r.rd \subseteq q.rd /\ r.wr = {}
      /\ r.op \in {"none", "create"} /\ r.at \in {"none", "unlock"} /\ Answers(r)
      /\ \A i \in Ids : OwedBy(r, i) = 0
  <2>1. CASE q.op # "create"
    <3>1. r = NoRequest /\ r.rd = {} /\ r.wr = {} /\ r.op = "none" /\ r.at = "none"
      BY <1>1, <2>1 DEF NoRequest
    <3> QED
      BY <3>1, NoneShape DEF OwedBy, Answers
  <2>2. CASE q.op = "create"
    <3>1. /\ r \in RequestSet /\ r.op = q.op /\ r.at = "unlock" /\ r.ino = q.ino
          /\ r.node = NoNode /\ r.rd = q.rd /\ r.wr = q.wr
      BY <1>1, <1>2, <2>2 DEF RequestSet
    <3>2. \A i \in Ids : OwedBy(r, i) = 0
      BY <3>1, NodeAssumption DEF OwedBy, NoNode, Ids
    <3>3. CreateShape(q)
      BY <1>2, <2>2, ShapeOf
    <3>4. CreateShape(r)
      BY <1>2, <3>1, <3>3 DEF CreateShape
    <3> QED
      BY <1>2, <2>2, <3>1, <3>2, <3>4 DEF Shaped, Answers
  <2> QED
    BY <2>1, <2>2
<1>6. Step(t, r)
  BY <1>1, <1>2, <1>5, GoesStep
<1>7. Accounts(t, r)
  <2>1. ASSUME NEW id \in Ids
        PROVE  Count(table', id) - known'[id] - Cardinality(InForgets(id))'
                   - OwedBy(r, id) =
                 Count(table, id) - known[id] - Cardinality(InForgets(id))
                   - OwedBy(run[t], id)
    <3>1. /\ known[id] \in Nat /\ Cardinality(InForgets(id)) \in Nat
          /\ OwedBy(run[t], id) \in Nat
      BY <1>2, CountsNat, OwedNat DEF TypesOK
    <3>2. Cardinality(InForgets(id))' \in Nat
      <4>1. InForgets(id)' = BagTokens(forgets', id)
        BY DEF InForgets, BagTokens, BagToSet
      <4> QED
        BY <4>1, <1>2, BagTokensFinite
    <3>3. \A i \in DOMAIN table : table[i].nlookup \in Nat
      BY <1>2 DEF IsTable, NodeSet
    <3>4. Count(table, id) \in Nat /\ Count(table', id) = Count(table, id) - OwedBy(q, id)
      BY <1>3, <1>4, <3>3 DEF Count
    <3>5. Cardinality(InForgets(id))' + OwedBy(q, id) =
            Cardinality(InForgets(id)) + OwedBy(run[t], id)
      BY DEF Takes
    <3>6. OwedBy(q, id) \in Nat
      BY <1>3
    <3> QED
      BY <3>1, <3>2, <3>4, <3>5, <3>6, <1>2, <1>5
  <2> QED
    BY <2>1, <1>2, <1>4 DEF Accounts, TypesOK
<1>8. Narrows
  BY <1>2, <1>4 DEF Narrows
<1>9. Locking(t, r)
  <2>1. ASSUME NEW s \in Threads, NEW i \in run[s].rd \cup run[s].wr
        PROVE  i \in DOMAIN table' /\ table'[i].nlookup > 0
    <3>1. i \in DOMAIN table /\ table[i].nlookup \in Nat /\ table[i].nlookup > 0
      BY <1>2 DEF IInv, LockedLive, IsTable, NodeSet
    <3>2. i = q.node => table[i].nlookup # q.n
      BY <2>1 DEF MustWait, Locked
    <3> QED
      BY <1>3, <1>4, <3>1, <3>2
  <2> QED
    BY <2>1, <1>2, <1>5 DEF Locking
<1>10. Pinning(t, r)
  BY <1>2, <1>5 DEF Pinning
<1>11. Parents(t, r)
  <2>1. ASSUME NEW s \in Threads, At(s, {"remove"}, "handler")
        PROVE  table'[run[s].node].parent = table[run[s].node].parent
    <3>1. run[s].op = "remove" /\ Shaped(run[s])
      BY <1>2, <2>1 DEF At, TypesOK
    <3>2. run[s].node \in Ids /\ known'[run[s].node] > 0
      BY <1>2, <3>1, ShapeOf DEF RemoveShape, IInv, PinnedKnown
    <3>3. run[s].node \in DOMAIN table'
      BY <1>6, <1>7, <3>2, StepAccounts
    <3> QED
      BY <3>3, <1>4
  <2> QED
    BY <2>1, <1>5 DEF Parents
<1>12. NamesUnique'
  BY <1>4 DEF IInv, NamesUnique
<1> QED
  BY <1>6, <1>7, <1>8, <1>9, <1>10, <1>11, <1>12, StepKeeps

\* forget_node either waits or goes ahead.
LEMMA ForgetNodeKeeps ==
  ASSUME IInv, NEW t \in Threads, NEW q, Takes(t, q), forget_node(t, q)
  PROVE  IInv'
<1>1. CASE MustWait(q.node, q.n)
  BY <1>1, SleepKeeps DEF forget_node
<1>2. CASE ~MustWait(q.node, q.n)
  BY <1>2, ForgetKeeps DEF forget_node
<1> QED
  BY <1>1, <1>2

\* A message brings its lookups to the thread that reads it.
LEMMA LibForgetKeeps ==
  ASSUME IInv, NEW t \in Threads, fuse_lib_forget(t)
  PROVE  IInv'
<1>1. TypesOK /\ IsTable(table) /\ Balanced /\ IsForgets(forgets) /\ ~Busy(t)
  BY DEF IInv, TableOK, TypesOK, fuse_lib_forget
<1>2. PICK m \in DOMAIN forgets :
        /\ forgets' = forgets (-) SetToBag({m})
        /\ forget_node(t, [NoRequest EXCEPT !.op = "forget", !.at = "forget",
                                            !.node = m[1], !.n = m[2]])
  BY DEF fuse_lib_forget, BagToSet
<1>3. PICK q : q = [NoRequest EXCEPT !.op = "forget", !.at = "forget",
                                     !.node = m[1], !.n = m[2]]
  OBVIOUS
<1>4. /\ IsForgets(forgets') /\ OneMore(forgets', forgets, m)
      /\ m \in Ids \X (Nat \ {0})
  BY <1>1, <1>2, BagRead
<1>5. m[1] \in Ids /\ m[2] \in Nat /\ m[2] > 0
  BY <1>4
<1>6. /\ q \in RequestSet /\ q.op = "forget" /\ q.at = "forget" /\ q.ino = NoNode
      /\ q.node = m[1] /\ q.n = m[2] /\ q.rd = {} /\ q.wr = {}
  BY <1>3, <1>5 DEF NoRequest, RequestSet
<1>7. Shaped(q)
  BY <1>5, <1>6 DEF Shaped, ForgetShape, Forgetting
<1>8. /\ m[1] \in DOMAIN table /\ m[2] <= table[m[1]].nlookup
      /\ m[1] = Root => m[2] < table[m[1]].nlookup
  BY <1>1, LookupsThere
<1>9. ASSUME NEW id \in Ids
      PROVE  Cardinality(InForgets(id))' + OwedBy(q, id) =
               Cardinality(InForgets(id)) + OwedBy(run[t], id)
  <2>1. InForgets(id)' = BagTokens(forgets', id) /\ InForgets(id) = BagTokens(forgets, id)
    BY DEF InForgets, BagTokens, BagToSet
  <2>2. Cardinality(BagTokens(forgets, id)) =
          Cardinality(BagTokens(forgets', id)) + (IF m[1] = id THEN m[2] ELSE 0)
    BY <1>1, <1>4, BagStep
  <2>3. OwedBy(q, id) = (IF m[1] = id THEN m[2] ELSE 0) /\ OwedBy(run[t], id) = 0
    BY <1>1, <1>6, Idle DEF OwedBy
  <2>4. Cardinality(BagTokens(forgets, id)) \in Nat
    BY <1>1, BagTokensFinite
  <2> QED
    BY <2>1, <2>2, <2>3, <2>4
<1>10. known' = known /\ opened' = opened
  BY <1>2 DEF forget_node
<1>11. Takes(t, q)
  BY <1>4, <1>6, <1>7, <1>8, <1>9, <1>10 DEF Takes
<1> QED
  BY <1>2, <1>3, <1>11, ForgetNodeKeeps

\* A thread has the lookups that it is to forget.
LEMMA ForgetAgainKeeps ==
  ASSUME IInv, NEW t \in Threads, forget_again(t)
  PROVE  IInv'
<1>1. PICK q : q = run[t]
  OBVIOUS
<1>2. /\ TypesOK /\ IsTable(table) /\ Balanced /\ IsForgets(forgets)
      /\ forgets' = forgets /\ q.at = "forget" /\ q \in RequestSet /\ Shaped(q)
      /\ forget_node(t, q) /\ known' = known /\ opened' = opened
  BY <1>1 DEF IInv, TableOK, TypesOK, forget_again, forget_node
<1>3. Forgetting(q)
  <2>1. q.op \in {"lookup", "create", "forget"}
    BY <1>2, ShapeOf
  <2> QED
    BY <2>1, <1>2, ShapeOf DEF LookupShape, CreateShape, ForgetShape
<1>4. q.node \in Ids /\ OwedBy(q, q.node) = q.n /\ q.n > 0
  BY <1>2, <1>3 DEF Forgetting, OwedBy
<1>5. /\ q.node \in DOMAIN table /\ q.n <= table[q.node].nlookup
      /\ q.node = Root => q.n < table[q.node].nlookup
  BY <1>1, <1>2, <1>4, LookupsThere
<1>6. \A id \in Ids : InForgets(id)' = InForgets(id)
  BY <1>2 DEF InForgets
<1>7. Takes(t, q)
  BY <1>1, <1>2, <1>5, <1>6 DEF Takes
<1> QED
  BY <1>2, <1>7, ForgetNodeKeeps

-----------------------------------------------------------------------------
(* Opening and closing.                                                    *)

\* The table with a node opened or closed: nobody's reference.
OpenedOnly ==
  /\ DOMAIN table' = DOMAIN table /\ table' = [i \in DOMAIN table |-> table'[i]]
  /\ \A i \in DOMAIN table :
       /\ table'[i] \in NodeSet /\ table'[i].parent = table[i].parent
       /\ table'[i].name = table[i].name /\ table'[i].refctr = table[i].refctr
       /\ table'[i].nlookup = table[i].nlookup

\* open_count is a field of its own.
LEMMA OpenCount ==
  ASSUME IsTable(table), NEW id \in DOMAIN table, NEW c \in Int,
         table' = [table EXCEPT ![id] = [table[id] EXCEPT !.open_count = c]]
  PROVE  OpenedOnly
<1>1. table \in [DOMAIN table -> NodeSet]
  BY DEF IsTable
<1>2. DOMAIN table' = DOMAIN table /\ table' = [i \in DOMAIN table |-> table'[i]]
  OBVIOUS
<1>3. ASSUME NEW i \in DOMAIN table
      PROVE  /\ table'[i] \in NodeSet /\ table'[i].parent = table[i].parent
             /\ table'[i].name = table[i].name /\ table'[i].refctr = table[i].refctr
             /\ table'[i].nlookup = table[i].nlookup
  <2>1. table[i] \in NodeSet
    BY <1>1
  <2>2. table'[i] = IF i = id THEN [table[i] EXCEPT !.open_count = c] ELSE table[i]
    OBVIOUS
  <2> QED
    BY <2>1, <2>2 DEF NodeSet
<1> QED
  BY <1>2, <1>3 DEF OpenedOnly

\* A step that changes no count but the open files.
LEMMA Steady ==
  ASSUME IInv, NEW t \in Threads, NEW r, Step(t, r), OpenedOnly,
         UNCHANGED <<known, opened, forgets>>,
         \A id \in Ids : OwedBy(r, id) = OwedBy(run[t], id),
         r.rd = run[t].rd, r.wr = run[t].wr, r.op # "remove",
         Answers(r) \/ Holds(r.ino),
         r.op = "create" /\ r.at \in {"opening", "answer"} =>
           r.node \in DOMAIN table /\ table[r.node].parent \in {r.ino, NoNode}
  PROVE  IInv'
<1>1. TypesOK /\ IsTable(table) /\ CountedBut(table, NoNode)
  BY DEF IInv, TableOK
<1>2. /\ DOMAIN table' = DOMAIN table
      /\ \A i \in DOMAIN table :
           /\ table'[i].parent = table[i].parent /\ table'[i].name = table[i].name
           /\ table'[i].nlookup = table[i].nlookup
           /\ table'[i].refctr = table[i].refctr
  BY DEF OpenedOnly
<1>2a. IsTable(table')
  <2>1. table' \in [DOMAIN table' -> NodeSet]
    BY DEF OpenedOnly
  <2> QED
    BY <2>1, <1>1, <1>2 DEF IsTable
<1>2b. CountedBut(table', NoNode)
  <2>1. \A i \in DOMAIN table : Below(table', i) = Below(table, i)
    BY <1>2 DEF Below
  <2> QED
    BY <2>1, <1>1, <1>2 DEF CountedBut
<1>3. Accounts(t, r)
  <2>1. \A id \in Ids : InForgets(id)' = InForgets(id)
    BY DEF InForgets
  <2>2. \A id \in Ids : Count(table', id) = Count(table, id)
    BY <1>2 DEF Count
  <2> QED
    BY <1>1, <1>2a, <1>2b, <2>1, <2>2 DEF Accounts, TypesOK
<1>4. Narrows
  BY <1>2 DEF Narrows
<1>5. Locking(t, r)
  BY <1>2 DEF Locking, IInv, LockedLive, ParentsOK
<1>6. Pinning(t, r)
  BY DEF Pinning
<1>7. Parents(t, r)
  <2>1. ASSUME NEW s \in Threads, At(s, {"remove"}, "handler")
        PROVE  run[s].node \in DOMAIN table
    <3>1. run[s].node \in Ids
      BY <1>1, <2>1, ShapeOf DEF RemoveShape, TypesOK, At
    <3> QED
      BY <3>1, RequestThere, NodeAssumption DEF NoNode, Ids
  <2> QED
    BY <2>1, <1>2 DEF Parents
<1>8. NamesUnique'
  BY <1>2 DEF IInv, NamesUnique
<1> QED
  BY <1>3, <1>4, <1>5, <1>6, <1>7, <1>8, StepKeeps

\* Opening leaves the lookups alone.
LEMMA OpeningKeeps ==
  ASSUME IInv, NEW t \in Threads, opening(t)
  PROVE  IInv'
<1>1. PICK q : q = run[t]
  OBVIOUS
<1>2. /\ TypesOK /\ IsTable(table) /\ q \in RequestSet /\ Shaped(q)
      /\ UNCHANGED <<known, opened, forgets>>
      /\ \/ q.op = "open" /\ q.at = "handler"
         \/ q.op = "create" /\ q.at = "opening"
  BY <1>1 DEF IInv, TableOK, TypesOK, opening, At
<1>3. q.node \in Ids
  BY <1>2, ShapeOf DEF OpenShape, CreateShape, Forgetting
<1>4. q.node \in DOMAIN table
  BY <1>1, <1>3, RequestThere, NodeAssumption DEF NoNode, Ids
<1>5. OpenedOnly
  <2>1. PICK c : c = table[q.node].open_count + 1
    OBVIOUS
  <2>2. c \in Int
    BY <1>2, <1>4, <2>1 DEF IsTable, NodeSet
  <2>3. table' = [table EXCEPT ![q.node] = [table[q.node] EXCEPT !.open_count = c]]
    BY <1>1, <2>1 DEF opening
  <2> QED
    BY <1>2, <1>4, <2>2, <2>3, OpenCount
<1>6. PICK r : r = [q EXCEPT !.at = "answer"]
  OBVIOUS
<1>7. /\ r \in RequestSet /\ r.op = q.op /\ r.at = "answer" /\ r.ino = q.ino
      /\ r.node = q.node /\ r.n = q.n /\ r.rd = q.rd /\ r.wr = q.wr
  BY <1>2, <1>6 DEF RequestSet
<1>8. Shaped(r)
  <2>1. CASE q.op = "open"
    <3>1. OpenShape(q)
      BY <1>2, <2>1, ShapeOf
    <3>2. OpenShape(r)
      BY <1>2, <1>7, <2>1, <3>1 DEF OpenShape
    <3> QED
      BY <3>2 DEF Shaped
  <2>2. CASE q.op = "create"
    <3>1. CreateShape(q)
      BY <1>2, <2>2, ShapeOf
    <3>2. CreateShape(r)
      BY <1>2, <1>7, <2>2, <3>1 DEF CreateShape, Forgetting
    <3> QED
      BY <3>2 DEF Shaped
  <2> QED
    BY <1>2, <2>1, <2>2
<1>9. Step(t, r)
  BY <1>1, <1>2, <1>6, <1>7, <1>8, GoesStep DEF opening, To
<1>10. \A id \in Ids : OwedBy(r, id) = OwedBy(q, id)
  BY <1>2, <1>7 DEF OwedBy
<1>11. Holds(q.ino)
  <2>1. ~Answers(q)
    BY <1>2 DEF Answers
  <2> QED
    BY <1>1, <2>1, ThreadsOwe DEF IInv, PinnedKnown
<1>12. q.op = "create" => table[q.node].parent \in {q.ino, NoNode}
  BY <1>1, <1>2 DEF IInv, ParentsOK
<1> QED
  BY <1>1, <1>2, <1>4, <1>5, <1>7, <1>9, <1>10, <1>11, <1>12, Steady

\* Closing does, and leaves a lookup of a create to be forgotten.
LEMMA ReleaseKeeps ==
  ASSUME IInv, NEW t \in Threads, fuse_do_release(t)
  PROVE  IInv'
<1>1. PICK q : q = run[t]
  OBVIOUS
<1>2. /\ TypesOK /\ IsTable(table) /\ q \in RequestSet /\ Shaped(q)
      /\ UNCHANGED <<known, opened, forgets>>
      /\ q.at = "unopen" /\ q.op \in {"create", "open", "release"}
  BY <1>1, ShapeOf DEF IInv, TableOK, TypesOK, fuse_do_release
<1>3. q.node \in Ids
  BY <1>2, ShapeOf DEF OpenShape, CreateShape, ReleaseShape, Forgetting
<1>4. q.node \in DOMAIN table
  BY <1>1, <1>3, RequestThere, NodeAssumption DEF NoNode, Ids
<1>5. OpenedOnly
  <2>1. PICK c : c = table[q.node].open_count - 1
    OBVIOUS
  <2>2. c \in Int
    BY <1>2, <1>4, <2>1 DEF IsTable, NodeSet
  <2>3. table' = [table EXCEPT ![q.node] = [table[q.node] EXCEPT !.open_count = c]]
    BY <1>1, <2>1 DEF fuse_do_release
  <2> QED
    BY <1>2, <1>4, <2>2, <2>3, OpenCount
<1>6. PICK r : r = IF q.op = "create" THEN [q EXCEPT !.at = "forget", !.n = 1]
                   ELSE [q EXCEPT !.at = "unlock"]
  OBVIOUS
<1>7. /\ r \in RequestSet /\ r.op = q.op /\ r.ino = q.ino
      /\ r.node = q.node /\ r.rd = q.rd /\ r.wr = q.wr
      /\ q.op = "create" => r.at = "forget" /\ r.n = 1
      /\ q.op # "create" => r.at = "unlock"
  BY <1>2, <1>6 DEF RequestSet
<1>8. Shaped(r)
  <2>1. CASE q.op = "open"
    <3>1. OpenShape(q)
      BY <1>2, <2>1, ShapeOf
    <3>2. OpenShape(r)
      BY <1>2, <1>7, <2>1, <3>1 DEF OpenShape
    <3> QED
      BY <3>2 DEF Shaped
  <2>2. CASE q.op = "create"
    <3>1. CreateShape(q)
      BY <1>2, <2>2, ShapeOf
    <3>2. CreateShape(r)
      BY <1>2, <1>3, <1>7, <2>2, <3>1 DEF CreateShape, Forgetting
    <3> QED
      BY <3>2 DEF Shaped
  <2>3. CASE q.op = "release"
    <3>1. ReleaseShape(q)
      BY <1>2, <2>3, ShapeOf
    <3>2. ReleaseShape(r)
      BY <1>2, <1>7, <2>3, <3>1 DEF ReleaseShape
    <3> QED
      BY <3>2 DEF Shaped
  <2> QED
    BY <1>2, <2>1, <2>2, <2>3
<1>9. Step(t, r)
  <2>1. Goes(t, r)
    BY <1>1, <1>6 DEF fuse_do_release
  <2> QED
    BY <2>1, <1>2, <1>7, <1>8, GoesStep
<1>10. \A id \in Ids : OwedBy(r, id) = OwedBy(q, id)
  BY <1>2, <1>7 DEF OwedBy
<1>11. Answers(r) \/ Holds(r.ino)
  <2>1. CASE q.op = "release"
    <3>1. ~Answers(q)
      BY <1>2, <2>1 DEF Answers
    <3> QED
      BY <1>1, <1>7, <3>1, ThreadsOwe DEF IInv, PinnedKnown
  <2>2. CASE q.op # "release"
    BY <1>2, <1>7, <2>2 DEF Answers
  <2> QED
    BY <2>1, <2>2
<1> QED
  BY <1>1, <1>2, <1>4, <1>5, <1>7, <1>9, <1>10, <1>11, Steady

-----------------------------------------------------------------------------
(* Removing, evicting.                                                     *)

\* unhash_name takes the name of the victim and of nobody else.
LEMMA RemoveKeeps ==
  ASSUME IInv, NEW t \in Threads, remove_node(t)
  PROVE  IInv'
<1>1. PICK q : q = run[t]
  OBVIOUS
<1>2. /\ TypesOK /\ IsTable(table) /\ CountedBut(table, NoNode)
      /\ q \in RequestSet /\ Shaped(q)
      /\ UNCHANGED <<known, opened, forgets>> /\ q.at = "handler" /\ q.op = "remove"
      /\ table' = unhash_name(table, q.node)
  BY <1>1 DEF IInv, TableOK, TypesOK, remove_node, At
<1>3. RemoveShape(q)
  BY <1>2, ShapeOf
<1>4. /\ q.node \in Ids /\ q.ino \in Ids /\ q.wr = {q.node}
      /\ known[q.node] > 0 /\ table[q.node].parent = q.ino
  BY <1>1, <1>2, <1>3 DEF RemoveShape, IInv, PinnedKnown, ParentsOK, At
<1>5. q.node \in DOMAIN table /\ table[q.node].parent # NoNode
  BY <1>1, <1>4, RequestThere, NodeAssumption DEF NoNode, Ids
<1>6. /\ IsTable(table') /\ CountedBut(table', NoNode)
      /\ DOMAIN table' \subseteq DOMAIN table
      /\ \A i \in DOMAIN table' :
           /\ IF i = q.node THEN table'[i].parent = NoNode /\ table'[i].name = NoName
              ELSE table'[i].parent = table[i].parent /\ table'[i].name = table[i].name
           /\ table'[i].nlookup = table[i].nlookup
      /\ \A i \in DOMAIN table \ DOMAIN table' : table[i].nlookup = 0
  BY <1>2, <1>5, Unhash
<1>7. PICK r : r = [q EXCEPT !.at = "unlock"]
  OBVIOUS
<1>8. /\ r \in RequestSet /\ r.op = "remove" /\ r.at = "unlock" /\ r.ino = q.ino
      /\ r.node = q.node /\ r.rd = q.rd /\ r.wr = q.wr
  BY <1>2, <1>7 DEF RequestSet
<1>9. Shaped(r)
  <2>1. RemoveShape(r)
    BY <1>3, <1>8 DEF RemoveShape
  <2> QED
    BY <2>1 DEF Shaped
<1>10. Step(t, r)
  BY <1>1, <1>2, <1>7, <1>8, <1>9, GoesStep DEF remove_node, To
<1>11. Accounts(t, r)
  <2>1. \A id \in Ids : InForgets(id)' = InForgets(id)
    BY <1>2 DEF InForgets
  <2>2. \A id \in Ids : Count(table', id) = Count(table, id)
    BY <1>6 DEF Count
  <2>3. \A id \in Ids : OwedBy(r, id) = 0 /\ OwedBy(q, id) = 0
    BY <1>2, <1>8 DEF OwedBy
  <2> QED
    BY <1>1, <1>2, <1>6, <2>1, <2>2, <2>3 DEF Accounts, TypesOK
<1>12. Narrows
  BY <1>2, <1>6 DEF Narrows
<1>13. Locking(t, r)
  <2>1. ASSUME NEW s \in Threads, NEW i \in run[s].rd \cup run[s].wr
        PROVE  i \in DOMAIN table' /\ table'[i].nlookup > 0
    <3>1. i \in DOMAIN table /\ table[i].nlookup > 0
      BY DEF IInv, LockedLive
    <3> QED
      BY <1>6, <3>1
  <2> QED
    BY <2>1, <1>1, <1>8 DEF Locking, IInv, ParentsOK
<1>14. Pinning(t, r)
  <2>1. ~Answers(q)
    BY <1>2 DEF Answers
  <2>2. Holds(q.ino)
    BY <1>1, <2>1, ThreadsOwe DEF IInv, PinnedKnown
  <2> QED
    BY <2>2, <1>2, <1>4, <1>8 DEF Pinning
<1>15. Parents(t, r)
  <2>1. ASSUME NEW s \in Threads \ {t}, At(s, {"remove"}, "handler")
        PROVE  table'[run[s].node].parent = table[run[s].node].parent
    <3>1. run[s].op = "remove" /\ Shaped(run[s])
      BY <1>2, <2>1 DEF At, TypesOK
    <3>2. run[s].node \in Ids /\ known'[run[s].node] > 0 /\ run[s].wr = {run[s].node}
      BY <1>2, <3>1, ShapeOf DEF RemoveShape, IInv, PinnedKnown
    <3>3. run[s].node \in DOMAIN table'
      BY <1>10, <1>11, <3>2, StepAccounts
    <3>4. run[s].node # q.node
      BY <1>1, <1>4, <3>2 DEF IInv, ParentsOK
    <3> QED
      BY <3>3, <3>4, <1>6
  <2> QED
    BY <2>1, <1>8 DEF Parents
<1>16. NamesUnique'
  BY <1>6 DEF IInv, NamesUnique
<1> QED
  BY <1>10, <1>11, <1>12, <1>13, <1>14, <1>15, <1>16, StepKeeps

\* The kernel drops only what nothing has pinned.
LEMMA EvictKeeps ==
  ASSUME IInv, NEW id \in Ids, evict(id)
  PROVE  IInv'
<1>1. /\ TypesOK /\ TableOK /\ Balanced /\ LockedLive /\ PinnedKnown /\ ParentsOK
      /\ NamesUnique /\ IsTable(table)
  BY DEF IInv, TableOK
<1>2. /\ known[id] > 0 /\ id \notin Pinned
      /\ forgets' = forgets (+) SetToBag({<<id, known[id]>>})
      /\ known' = [known EXCEPT ![id] = 0]
      /\ table' = table /\ run' = run /\ opened' = opened
  BY DEF evict
<1>3. PICK m : m = <<id, known[id]>>
  OBVIOUS
<1>4. m \in Ids \X (Nat \ {0}) /\ m[1] = id /\ m[2] = known[id]
  BY <1>1, <1>2, <1>3 DEF TypesOK
<1>5. IsForgets(forgets) /\ IsForgets(forgets') /\ OneMore(forgets, forgets', m)
  BY <1>1, <1>2, <1>3, <1>4, BagSend DEF TypesOK
<1>6. TypesOK'
  BY <1>1, <1>2, <1>5 DEF TypesOK
<1>7. known'[id] = 0 /\ \A i \in Ids \ {id} : known'[i] = known[i]
  BY <1>1, <1>2 DEF TypesOK
<1>8. Balanced'
  <2>1. ASSUME NEW i \in Ids
        PROVE  Count(table', i) =
                 (IF i = Root THEN 1 ELSE 0) + known'[i]
                   + Cardinality(InForgets(i))' + Cardinality(InThreads(i))'
    <3>1. InForgets(i) = BagTokens(forgets, i) /\ InForgets(i)' = BagTokens(forgets', i)
      BY DEF InForgets, BagTokens, BagToSet
    <3>2. Cardinality(InForgets(i))' =
            Cardinality(InForgets(i)) + (IF id = i THEN known[id] ELSE 0)
      BY <1>4, <1>5, <3>1, BagStep
    <3>3. InThreads(i)' = InThreads(i)
      BY <1>2 DEF InThreads, Owed
    <3>4. /\ known[i] \in Nat /\ Cardinality(InForgets(i)) \in Nat
          /\ Cardinality(InThreads(i)) \in Nat
      BY <1>1, CountsNat
    <3>5. Count(table, i) =
            (IF i = Root THEN 1 ELSE 0)
              + known[i] + Cardinality(InForgets(i)) + Cardinality(InThreads(i))
      BY <1>1 DEF Balanced
    <3> QED
      BY <1>2, <1>7, <3>2, <3>3, <3>4, <3>5
  <2> QED
    BY <2>1 DEF Balanced
<1>9. ASSUME NEW i, i \in Ids \cup {NoNode}, Holds(i),
             i # NoNode => Chain(table, i) \subseteq Pinned
      PROVE  \A j \in Chain(table', i) : known'[j] > 0
  <2>1. i \in DOMAIN table \cup {NoNode}
    BY <1>1, <1>9, HeldThere
  <2>2. Chain(table, i) \subseteq Ids
    BY <1>1, <2>1, ChainInside
  <2>3. CASE i = NoNode
    BY <2>3, <1>2, ChainTop
  <2>4. CASE i # NoNode
    BY <2>4, <2>2, <1>2, <1>7, <1>9 DEF Holds
  <2> QED
    BY <2>3, <2>4
<1>10. PinnedKnown'
  <2>1. ASSUME NEW t \in Threads, ~Answered(t)
        PROVE  \A j \in Chain(table', run[t].ino) : known'[j] > 0
    <3>1. run[t].ino \in Ids \cup {NoNode} /\ Holds(run[t].ino)
      BY <1>1, <2>1 DEF TypesOK, RequestSet, PinnedKnown
    <3>2. run[t].ino # NoNode => Chain(table, run[t].ino) \subseteq Pinned
      BY <2>1 DEF Pinned
    <3> QED
      BY <3>1, <3>2, <1>9
  <2>2. ASSUME NEW t \in Threads, run[t].op = "remove"
        PROVE  known'[run[t].node] > 0
    <3>1. run[t].node \in Pinned
      <4>1. t \in {s \in Threads : run[s].op = "remove"}
        BY <2>2
      <4> QED
        BY <4>1, Zenon DEF Pinned
    <3>2. run[t].node \in Ids /\ known[run[t].node] > 0
      BY <1>1, <2>2, ShapeOf DEF TypesOK, RemoveShape, PinnedKnown
    <3> QED
      BY <1>2, <1>7, <3>1, <3>2
  <2>3. ASSUME NEW i \in Ids, opened[i] > 0
        PROVE  i \in DOMAIN table /\ \A j \in Chain(table', i) : known'[j] > 0
    <3>1. i \in DOMAIN table /\ Holds(i) /\ i # NoNode
      BY <1>1, <2>3, NodeAssumption DEF PinnedKnown, Ids, NoNode
    <3>2. Chain(table, i) \subseteq Pinned
      BY <2>3, <3>1 DEF Pinned
    <3> QED
      BY <3>1, <3>2, <1>9
  <2>4. \A t \in Threads : Answered(t)' <=> Answered(t)
    BY <1>2, ThreadsOwe
  <2> QED
    BY <2>1, <2>2, <2>3, <2>4, <1>2 DEF PinnedKnown, Holds
<1>11. TableOK' /\ LockedLive' /\ ParentsOK' /\ NamesUnique'
  BY <1>1, <1>2 DEF TableOK, LockedLive, ParentsOK, NamesUnique, At
<1> QED
  BY <1>6, <1>8, <1>10, <1>11 DEF IInv

-----------------------------------------------------------------------------
(* Looking up.                                                             *)

\* Node id, found or new, has a lookup more.
Found(id, parent, name) ==
  /\ id \in Ids /\ DOMAIN table' = DOMAIN table \cup {id}
  /\ IsTable(table') /\ CountedBut(table', NoNode)
  /\ \A i \in DOMAIN table :
       /\ table'[i].parent = table[i].parent /\ table'[i].name = table[i].name
       /\ table'[i].nlookup = table[i].nlookup + (IF i = id THEN 1 ELSE 0)
  /\ table'[id].parent = parent /\ table'[id].name = name
  /\ id \notin DOMAIN table =>
       table'[id].nlookup = 1 /\ lookup_node(table, parent, name) = {}

\* inc_nlookup, field by field.
LEMMA OneMoreLookup ==
  ASSUME NEW node \in NodeSet, NEW new, new = inc_nlookup(node)
  PROVE  /\ new \in NodeSet /\ new.parent = node.parent /\ new.name = node.name
         /\ new.nlookup = node.nlookup + 1
         /\ new.refctr = node.refctr + (IF node.nlookup = 0 THEN 1 ELSE 0)
<1>1. PICK c : c = node.nlookup + 1
  OBVIOUS
<1>2. PICK d : d = node.refctr + (IF node.nlookup = 0 THEN 1 ELSE 0)
  OBVIOUS
<1>3. c \in Nat /\ d \in Nat /\ node.refctr \in Nat
  BY <1>1, <1>2 DEF NodeSet
<1>4. d = IF node.nlookup = 0 THEN node.refctr + 1 ELSE node.refctr
  BY <1>2, <1>3
<1>5. new = [node EXCEPT !.nlookup = c, !.refctr = d]
  BY <1>1, <1>4 DEF inc_nlookup
<1>6. /\ new \in NodeSet /\ new.parent = node.parent /\ new.name = node.name
      /\ new.nlookup = c /\ new.refctr = d
  BY <1>3, <1>5 DEF NodeSet
<1> QED
  BY <1>1, <1>2, <1>6

\* find_node, if the name has a node.
LEMMA FindOld ==
  ASSUME IsTable(table), CountedBut(table, NoNode), NEW parent, NEW name,
         NEW id \in lookup_node(table, parent, name),
         table' = [table EXCEPT ![id] = inc_nlookup(table[id])]
  PROVE  Found(id, parent, name)
<1>1. /\ id \in DOMAIN table /\ id \in Ids
      /\ table[id].parent = parent /\ table[id].name = name
      /\ table \in [DOMAIN table -> NodeSet]
  BY DEF lookup_node, IsTable
<1>2. DOMAIN table' = DOMAIN table /\ table' = [i \in DOMAIN table |-> table'[i]]
  OBVIOUS
<1>3. ASSUME NEW i \in DOMAIN table
      PROVE  /\ table'[i] \in NodeSet /\ table'[i].parent = table[i].parent
             /\ table'[i].name = table[i].name
             /\ table'[i].nlookup = table[i].nlookup + (IF i = id THEN 1 ELSE 0)
             /\ table'[i].refctr =
                  table[i].refctr + (IF i = id /\ table[i].nlookup = 0 THEN 1 ELSE 0)
  <2>1. table[i] \in NodeSet
    BY <1>1
  <2>2. CASE i = id
    <3>1. table'[i] = inc_nlookup(table[i])
      BY <2>2
    <3> QED
      BY <2>1, <2>2, <3>1, OneMoreLookup
  <2>3. CASE i # id
    <3>1. table'[i] = table[i]
      BY <2>3
    <3> QED
      BY <2>1, <2>3, <3>1 DEF NodeSet
  <2> QED
    BY <2>2, <2>3
<1>4. table' \in [DOMAIN table' -> NodeSet]
  BY <1>2, <1>3
<1>5. \A i \in DOMAIN table : table[i].nlookup \in Nat /\ table[i].refctr \in Nat
  BY <1>1 DEF NodeSet
<1>6. IsTable(table')
  BY <1>2, <1>3, <1>4, <1>5 DEF IsTable
<1>7. CountedBut(table', NoNode)
  <2>1. ASSUME NEW i \in DOMAIN table
        PROVE  /\ table'[i].refctr = Cardinality(Below(table', i))
                    + (IF table'[i].nlookup > 0 THEN 1 ELSE 0)
                    + (IF i = NoNode THEN 1 ELSE 0)
               /\ table'[i].refctr > 0
    <3>1. Below(table', i) = Below(table, i)
      BY <1>2, <1>3 DEF Below
    <3>2. Cardinality(Below(table, i)) \in Nat
      BY BelowFinite
    <3>3. /\ table[i].refctr = Cardinality(Below(table, i))
               + (IF table[i].nlookup > 0 THEN 1 ELSE 0)
               + (IF i = NoNode THEN 1 ELSE 0)
          /\ table[i].refctr > 0
      BY DEF CountedBut
    <3> QED
      BY <1>3, <1>5, <3>1, <3>2, <3>3
  <2> QED
    BY <2>1, <1>2 DEF CountedBut
<1> QED
  BY <1>1, <1>2, <1>3, <1>6, <1>7 DEF Found

\* find_node, if it has none: the directory has a child more.
LEMMA FindFresh ==
  ASSUME IsTable(table), CountedBut(table, NoNode), NEW parent \in DOMAIN table,
         NEW name \in Names, NEW id \in Ids \ DOMAIN table,
         lookup_node(table, parent, name) = {},
         table' = [hash_name(table, id, parent, name) EXCEPT ![id] = inc_nlookup(@)]
  PROVE  Found(id, parent, name)
<1>1. table \in [DOMAIN table -> NodeSet] /\ DOMAIN table \subseteq Ids
  BY DEF IsTable
<1> DEFINE tab == hash_name(table, id, parent, name)
<1>2. /\ DOMAIN tab = DOMAIN table \cup {id}
      /\ tab[id] = Node(parent, name)
      /\ \A i \in DOMAIN table :
           tab[i] = IF i = parent THEN [table[i] EXCEPT !.refctr = @ + 1] ELSE table[i]
  BY DEF hash_name
<1> HIDE DEF tab
<1>3. /\ DOMAIN table' = DOMAIN table \cup {id}
      /\ table' = [i \in DOMAIN table \cup {id} |-> table'[i]]
      /\ \A i \in DOMAIN table : table'[i] = tab[i]
      /\ table'[id] = inc_nlookup(Node(parent, name))
  <2>1. table' = [tab EXCEPT ![id] = inc_nlookup(tab[id])]
    BY DEF tab
  <2> QED
    BY <2>1, <1>2
<1>4. /\ table'[id] \in NodeSet /\ table'[id].parent = parent
      /\ table'[id].name = name /\ table'[id].nlookup = 1 /\ table'[id].refctr = 1
  <2>1. PICK node : node = Node(parent, name)
    OBVIOUS
  <2>2. /\ node \in NodeSet /\ node.parent = parent /\ node.name = name
        /\ node.nlookup = 0 /\ node.refctr = 0
    BY <1>1, <2>1 DEF Node, NodeSet
  <2> QED
    BY <1>3, <2>1, <2>2, OneMoreLookup
<1>5. ASSUME NEW i \in DOMAIN table
      PROVE  /\ table'[i] \in NodeSet /\ table'[i].parent = table[i].parent
             /\ table'[i].name = table[i].name
             /\ table'[i].nlookup = table[i].nlookup
             /\ table'[i].refctr = table[i].refctr + (IF i = parent THEN 1 ELSE 0)
  <2>1. table[i] \in NodeSet
    BY <1>1
  <2>2. CASE i = parent
    <3>1. table'[i] = [table[i] EXCEPT !.refctr = @ + 1]
      BY <2>2, <1>2, <1>3
    <3> QED
      BY <2>1, <2>2, <3>1 DEF NodeSet
  <2>3. CASE i # parent
    <3>1. table'[i] = table[i]
      BY <2>3, <1>2, <1>3
    <3> QED
      BY <2>1, <2>3, <3>1 DEF NodeSet
  <2> QED
    BY <2>2, <2>3
<1>6. table' \in [DOMAIN table' -> NodeSet]
  BY <1>3, <1>4, <1>5
<1>7. IsTable(table')
  BY <1>1, <1>3, <1>4, <1>5, <1>6 DEF IsTable
<1>8. \A i \in DOMAIN table : table[i].nlookup \in Nat /\ table[i].refctr \in Nat
  BY <1>1 DEF NodeSet
<1>9. id # NoNode /\ NoNode \notin DOMAIN table
  BY <1>1, NodeAssumption DEF Ids, NoNode
<1>10. CountedBut(table', NoNode)
  <2>1. ASSUME NEW i \in DOMAIN table
        PROVE  /\ table'[i].refctr = Cardinality(Below(table', i))
                    + (IF table'[i].nlookup > 0 THEN 1 ELSE 0)
                    + (IF i = NoNode THEN 1 ELSE 0)
               /\ table'[i].refctr > 0
    <3>1. Below(table', i) = IF i = parent THEN Below(table, i) \cup {id}
                             ELSE Below(table, i)
      BY <1>3, <1>4, <1>5 DEF Below
    <3>2. IsFiniteSet(Below(table, i)) /\ Cardinality(Below(table, i)) \in Nat
      BY BelowFinite
    <3>3. Cardinality(Below(table, i) \cup {id}) = Cardinality(Below(table, i)) + 1
      <4>1. id \notin Below(table, i)
        BY DEF Below
      <4> QED
        BY <3>2, <4>1, FS_AddElement
    <3>4. /\ table[i].refctr = Cardinality(Below(table, i))
               + (IF table[i].nlookup > 0 THEN 1 ELSE 0)
               + (IF i = NoNode THEN 1 ELSE 0)
          /\ table[i].refctr > 0
      BY DEF CountedBut
    <3>5. Cardinality(Below(table', i)) =
            Cardinality(Below(table, i)) + (IF i = parent THEN 1 ELSE 0)
      BY <3>1, <3>2, <3>3
    <3> QED
      BY <1>5, <1>8, <3>2, <3>4, <3>5
  <2>2. /\ table'[id].refctr = Cardinality(Below(table', id))
             + (IF table'[id].nlookup > 0 THEN 1 ELSE 0)
             + (IF id = NoNode THEN 1 ELSE 0)
        /\ table'[id].refctr > 0
    <3>1. \A i \in DOMAIN table : table[i].parent # id
      BY <1>9 DEF IsTable
    <3>2. Below(table', id) = {}
      BY <1>3, <1>4, <1>5, <3>1 DEF Below
    <3> QED
      <4>1. Cardinality(Below(table', id)) = 0
        BY <3>2, FS_EmptySet
      <4> QED
        BY <1>4, <1>9, <4>1
  <2> QED
    BY <2>1, <2>2, <1>3 DEF CountedBut
<1> QED
  BY <1>3, <1>4, <1>5, <1>7, <1>8, <1>10 DEF Found

\* An id that is handed out is free.
LEMMA NextIdFree ==
  ASSUME Ids \ DOMAIN table # {}
  PROVE  next_id \in Ids \ DOMAIN table
<1> DEFINE free  == Ids \ DOMAIN table
           above == {i \in free : i > ctr}
<1>1. free \in SUBSET Nat /\ above \in SUBSET Nat /\ above \subseteq free
  BY NodeAssumption DEF Ids
<1>2. free # {} /\ next_id = IF above # {} THEN Min(above) ELSE Min(free)
  BY DEF next_id
<1> HIDE DEF free, above
<1>3. next_id \in free
  BY <1>1, <1>2, Lowest
<1> QED
  BY <1>3 DEF free

\* The thread has the lookup that find_node made.
LEMMA LookupKeeps ==
  ASSUME IInv, NEW t \in Threads, lookup_path(t)
  PROVE  IInv'
<1>1. PICK q : q = run[t]
  OBVIOUS
<1>2. /\ TypesOK /\ IsTable(table) /\ CountedBut(table, NoNode)
      /\ q \in RequestSet /\ Shaped(q) /\ UNCHANGED <<known, opened, forgets>>
      /\ q.op \in {"lookup", "create"} /\ q.at = "handler"
      /\ find_node(t, q.ino, q.name)
  BY <1>1 DEF IInv, TableOK, TypesOK, lookup_path, At
<1>3. q.ino \in Ids /\ q.name \in Names /\ q.node = NoNode /\ q.wr = {}
  BY <1>2, ShapeOf DEF LookupShape, CreateShape, Forgetting
<1>4. q.ino \in DOMAIN table
  BY <1>1, <1>3, RequestThere, NodeAssumption DEF NoNode, Ids
<1>5. PICK id : /\ Found(id, q.ino, q.name)
                /\ Goes(t, [q EXCEPT !.node = id,
                     !.at = IF q.op = "create" THEN "opening" ELSE "unlock"])
  <2> DEFINE found == lookup_node(table, q.ino, q.name)
  <2>1. CASE found = {}
    <3>1. PICK id : id = next_id
      OBVIOUS
    <3>2. id \in Ids \ DOMAIN table
      BY <1>2, <2>1, <3>1, NextIdFree DEF find_node
    <3>3. table' = [hash_name(table, id, q.ino, q.name) EXCEPT ![id] = inc_nlookup(@)]
      BY <1>2, <2>1, <3>1 DEF find_node
    <3>4. Found(id, q.ino, q.name)
      BY <1>2, <1>3, <1>4, <2>1, <3>2, <3>3, FindFresh
    <3>5. Goes(t, [q EXCEPT !.node = id,
                     !.at = IF q.op = "create" THEN "opening" ELSE "unlock"])
      BY <1>1, <1>2, <2>1, <3>1 DEF find_node
    <3> QED
      BY <3>4, <3>5
  <2>2. CASE found # {}
    <3>1. PICK id : id = Min(found)
      OBVIOUS
    <3>2. id \in found
      <4>1. found \in SUBSET Nat
        BY <1>2, NodeAssumption DEF lookup_node, IsTable, Ids
      <4> QED
        BY <4>1, <2>2, <3>1, Lowest
    <3>3. table' = [table EXCEPT ![id] = inc_nlookup(table[id])]
      BY <1>2, <2>2, <3>1 DEF find_node
    <3>4. Found(id, q.ino, q.name)
      BY <1>2, <3>2, <3>3, FindOld
    <3>5. Goes(t, [q EXCEPT !.node = id,
                     !.at = IF q.op = "create" THEN "opening" ELSE "unlock"])
      BY <1>1, <1>2, <2>2, <3>1 DEF find_node
    <3> QED
      BY <3>4, <3>5
  <2> QED
    BY <2>1, <2>2
<1>6. PICK r : r = [q EXCEPT !.node = id,
                      !.at = IF q.op = "create" THEN "opening" ELSE "unlock"]
  OBVIOUS
<1>7. id \in Ids
  BY <1>5 DEF Found
<1>8. /\ r \in RequestSet /\ r.op = q.op /\ r.ino = q.ino /\ r.node = id
      /\ r.at = (IF q.op = "create" THEN "opening" ELSE "unlock")
      /\ r.rd = q.rd /\ r.wr = q.wr
  BY <1>2, <1>6, <1>7 DEF RequestSet
<1>9. Shaped(r)
  <2>1. CASE q.op = "lookup"
    <3>1. LookupShape(r)
      BY <1>3, <1>8, <2>1 DEF LookupShape
    <3> QED
      BY <3>1 DEF Shaped
  <2>2. CASE q.op = "create"
    <3>1. CreateShape(q)
      BY <1>2, <2>2, ShapeOf
    <3>2. CreateShape(r)
      BY <1>7, <1>8, <2>2, <3>1 DEF CreateShape
    <3> QED
      BY <3>2 DEF Shaped
  <2> QED
    BY <1>2, <2>1, <2>2
<1>10. Step(t, r)
  BY <1>2, <1>5, <1>6, <1>8, <1>9, GoesStep
<1>11. /\ DOMAIN table' = DOMAIN table \cup {id}
       /\ IsTable(table') /\ CountedBut(table', NoNode)
       /\ \A i \in DOMAIN table :
            /\ table'[i].parent = table[i].parent /\ table'[i].name = table[i].name
            /\ table'[i].nlookup = table[i].nlookup + (IF i = id THEN 1 ELSE 0)
       /\ table'[id].parent = q.ino /\ table'[id].name = q.name
       /\ id \notin DOMAIN table =>
            table'[id].nlookup = 1 /\ lookup_node(table, q.ino, q.name) = {}
  BY <1>5 DEF Found
<1>12. \A i \in DOMAIN table : table[i].nlookup \in Nat
  BY <1>2 DEF IsTable, NodeSet
<1>13. Accounts(t, r)
  <2>1. ASSUME NEW i \in Ids
        PROVE  Count(table', i) - known'[i] - Cardinality(InForgets(i))' - OwedBy(r, i) =
                 Count(table, i) - known[i] - Cardinality(InForgets(i))
                   - OwedBy(run[t], i)
    <3>1. InForgets(i)' = InForgets(i) /\ known'[i] = known[i]
      BY <1>2 DEF InForgets
    <3>2. OwedBy(run[t], i) = 0
      BY <1>1, <1>3, NodeAssumption DEF OwedBy, Ids, NoNode
    <3>3. OwedBy(r, i) = IF i = id THEN 1 ELSE 0
      BY <1>2, <1>8 DEF OwedBy
    <3>4. /\ Count(table, i) \in Nat
          /\ Count(table', i) = Count(table, i) + (IF i = id THEN 1 ELSE 0)
      BY <1>11, <1>12 DEF Count
    <3>5. known[i] \in Nat /\ Cardinality(InForgets(i)) \in Nat
      BY <1>2, CountsNat
    <3> QED
      BY <3>1, <3>2, <3>3, <3>4, <3>5
  <2> QED
    BY <2>1, <1>2, <1>11 DEF Accounts, TypesOK
<1>14. Narrows
  BY <1>2, <1>11 DEF Narrows
<1>15. Locking(t, r)
  <2>1. ASSUME NEW s \in Threads, NEW i \in run[s].rd \cup run[s].wr
        PROVE  i \in DOMAIN table' /\ table'[i].nlookup > 0
    <3>1. i \in DOMAIN table /\ table[i].nlookup > 0
      BY DEF IInv, LockedLive
    <3> QED
      BY <1>11, <1>12, <3>1
  <2> QED
    BY <2>1, <1>1, <1>3, <1>8 DEF Locking
<1>16. Pinning(t, r)
  <2>1. ~Answers(q)
    BY <1>2 DEF Answers
  <2>2. Holds(q.ino)
    BY <1>1, <2>1, ThreadsOwe DEF IInv, PinnedKnown
  <2> QED
    BY <2>2, <1>2, <1>8 DEF Pinning
<1>17. Parents(t, r)
  <2>1. ASSUME NEW s \in Threads, At(s, {"remove"}, "handler")
        PROVE  table'[run[s].node].parent = table[run[s].node].parent
    <3>1. run[s].node \in Ids
      BY <1>2, <2>1, ShapeOf DEF RemoveShape, TypesOK, At
    <3>2. run[s].node \in DOMAIN table
      BY <3>1, RequestThere, NodeAssumption DEF NoNode, Ids
    <3> QED
      BY <3>2, <1>11
  <2> QED
    BY <2>1, <1>2, <1>8, <1>11 DEF Parents
<1>18. NamesUnique'
  <2>1. ASSUME NEW i \in DOMAIN table', NEW j \in DOMAIN table',
               table'[i].name # NoName, table'[i].name = table'[j].name,
               table'[i].parent = table'[j].parent
        PROVE  i = j
    <3>1. CASE i \in DOMAIN table /\ j \in DOMAIN table
      BY <3>1, <2>1, <1>11 DEF IInv, NamesUnique
    <3>2. CASE i \notin DOMAIN table /\ j \in DOMAIN table
      <4>1. i = id
        BY <3>2, <1>11
      <4>2. j \in lookup_node(table, q.ino, q.name)
        BY <3>2, <4>1, <2>1, <1>11 DEF lookup_node
      <4> QED
        BY <3>2, <4>1, <4>2, <1>11
    <3>3. CASE i \in DOMAIN table /\ j \notin DOMAIN table
      <4>1. j = id
        BY <3>3, <1>11
      <4>2. i \in lookup_node(table, q.ino, q.name)
        BY <3>3, <4>1, <2>1, <1>11 DEF lookup_node
      <4> QED
        BY <3>3, <4>1, <4>2, <1>11
    <3> QED
      BY <3>1, <3>2, <3>3, <1>11
  <2> QED
    BY <2>1 DEF NamesUnique
<1> QED
  BY <1>10, <1>13, <1>14, <1>15, <1>16, <1>17, <1>18, StepKeeps

-----------------------------------------------------------------------------
(* The theorems.                                                           *)

\* fuse_new.
LEMMA InitInv ==
  ASSUME Init
  PROVE  IInv
<1>1. PICK node : node = inc_nlookup(Node(NoNode, NoName))
  OBVIOUS
<1>2. /\ node \in NodeSet /\ node.parent = NoNode /\ node.name = NoName
      /\ node.nlookup = 1 /\ node.refctr = 1
  <2>1. PICK plain : plain = Node(NoNode, NoName)
    OBVIOUS
  <2>2. /\ plain \in NodeSet /\ plain.parent = NoNode /\ plain.name = NoName
        /\ plain.nlookup = 0 /\ plain.refctr = 0
    BY <2>1 DEF Node, NodeSet
  <2> QED
    BY <1>1, <2>1, <2>2, OneMoreLookup
<1>3. table = [i \in {Root} |-> node] /\ Root \in Ids /\ Root # NoNode
  BY <1>1, NodeAssumption DEF Init, Ids, Root, NoNode
<1>4. DOMAIN table = {Root} /\ table[Root] = node /\ table \in [{Root} -> NodeSet]
  BY <1>2, <1>3
<1>5. \A t \in Threads : run[t] = NoRequest
  BY DEF Init
<1>6. TypesOK
  <2>1. IsForgets(EmptyBag)
    <3>1. DOMAIN EmptyBag = {} /\ EmptyBag \in [{} -> Nat \ {0}]
      BY DEF EmptyBag, SetToBag
    <3> QED
      BY <3>1, FS_EmptySet DEF IsForgets
  <2>2. run \in [Threads -> RequestSet]
    BY NoneShape DEF Init
  <2>3. known \in [Ids -> Nat] /\ opened \in [Ids -> Nat]
    BY DEF Init
  <2> QED
    BY <1>5, <2>1, <2>2, <2>3, NoneShape DEF Init, TypesOK
<1>7. TableOK
  <2>1. IsTable(table)
    BY <1>2, <1>3, <1>4 DEF IsTable
  <2>2. Below(table, Root) = {}
    BY <1>2, <1>3, <1>4 DEF Below
  <2>3. Cardinality(Below(table, Root)) = 0
    BY <2>2, FS_EmptySet
  <2>4. CountedBut(table, NoNode)
    BY <1>2, <1>3, <1>4, <2>3 DEF CountedBut
  <2> QED
    BY <2>1, <2>4 DEF TableOK
<1>8. Balanced
  <2>1. ASSUME NEW id \in Ids
        PROVE  Count(table, id) =
                 (IF id = Root THEN 1 ELSE 0)
                   + known[id] + Cardinality(InForgets(id)) + Cardinality(InThreads(id))
    <3>1. InForgets(id) = {}
      BY DEF Init, InForgets, BagToSet, EmptyBag, SetToBag
    <3>2. \A t \in Threads : Owed(t, id) = 0
      BY <1>5 DEF Owed, NoRequest
    <3>3. InThreads(id) = {}
      BY <3>2 DEF InThreads
    <3>4. known[id] = 0
      BY DEF Init
    <3>5. Count(table, id) = IF id = Root THEN 1 ELSE 0
      BY <1>2, <1>4 DEF Count
    <3>6. Cardinality(InForgets(id)) = 0 /\ Cardinality(InThreads(id)) = 0
      BY <3>1, <3>3, FS_EmptySet
    <3> QED
      BY <3>4, <3>5, <3>6
  <2> QED
    BY <2>1 DEF Balanced
<1>9. LockedLive /\ PinnedKnown /\ ParentsOK
  <2>1. \A t \in Threads : /\ run[t].rd = {} /\ run[t].wr = {}
                           /\ run[t].op = "none" /\ run[t].at = "none"
    BY <1>5 DEF NoRequest
  <2>2. \A i \in Ids : opened[i] = 0
    BY DEF Init
  <2> QED
    BY <2>1, <2>2 DEF LockedLive, PinnedKnown, ParentsOK, Answered, At
<1>10. NamesUnique
  BY <1>4 DEF NamesUnique
<1> QED
  BY <1>6, <1>7, <1>8, <1>9, <1>10 DEF IInv

\* One step per action.
LEMMA NextInv ==
  ASSUME IInv, [Next]_vars
  PROVE  IInv'
<1>1. CASE \E id \in Ids : evict(id)
  BY <1>1, EvictKeeps
<1>2. ASSUME NEW t \in Threads, Serve(t) PROVE IInv'
  BY <1>2, FailedKeeps, LookupKeeps, RemoveKeeps, OpeningKeeps, AnswerKeeps,
     InterruptedKeeps, NotRegularKeeps, ReleaseKeeps, FreeKeeps, ForgetAgainKeeps DEF Serve
<1>3. ASSUME NEW t \in Threads, fuse_lib_forget(t) PROVE IInv'
  BY <1>3, LibForgetKeeps
<1>4. ASSUME NEW t \in Threads, NEW id \in Ids, begin_release(t, id) PROVE IInv'
  BY <1>4, BeginReleaseKeeps
<1>5. ASSUME NEW t \in Threads, NEW id \in Ids, begin(t, "open", id, NoName)
      PROVE  IInv'
  BY <1>5, BeginKeeps
<1>6. ASSUME NEW t \in Threads, NEW id \in Ids, NEW name \in Names,
             begin_remove(t, id, name)
      PROVE  IInv'
  BY <1>6, BeginRemoveKeeps
<1>7. ASSUME NEW t \in Threads, NEW id \in Ids, NEW name \in Names,
             NEW op \in {"lookup", "create"}, begin(t, op, id, name)
      PROVE  IInv'
  BY <1>7, BeginKeeps
<1>8. CASE UNCHANGED vars
  <2>1. /\ table' = table /\ run' = run /\ known' = known /\ opened' = opened
        /\ forgets' = forgets
    BY <1>8 DEF vars
  <2>2. TypesOK' /\ TableOK' /\ LockedLive' /\ ParentsOK' /\ NamesUnique'
    BY <2>1 DEF IInv, TypesOK, TableOK, LockedLive, ParentsOK, NamesUnique, At
  <2>3. PinnedKnown'
    BY <2>1 DEF IInv, PinnedKnown, Holds, Answered
  <2>4. Balanced'
    <3>1. \A id : InForgets(id)' = InForgets(id) /\ InThreads(id)' = InThreads(id)
      BY <2>1 DEF InForgets, InThreads, Owed
    <3> QED
      BY <2>1, <3>1 DEF IInv, Balanced
  <2> QED
    BY <2>2, <2>3, <2>4 DEF IInv
<1> QED
  BY <1>1, <1>2, <1>3, <1>4, <1>5, <1>6, <1>7, <1>8 DEF Next

\* The invariant holds of every behaviour.
LEMMA Invariance == Spec => []IInv
<1>1. Init => IInv
  BY InitInv
<1>2. IInv /\ [Next]_vars => IInv'
  BY NextInv
<1> QED
  BY <1>1, <1>2, PTL DEF Spec

\* get_node never aborts on an id that the kernel or a thread still has, and
\* delete_node never finds a lock, in any schedule of any number of threads.
THEOREM NodesStayThere == Spec => []NodesThere
<1>1. IInv => NodesThere
  BY Consequences
<1> QED
  BY <1>1, Invariance, PTL

\* A node's references are its children's and that of its lookups, however
\* far unref_node goes up the tree: nothing leaks, nothing goes too early.
THEOREM ReferencesCount == Spec => []RefCounts
<1>1. IInv => RefCounts
  BY Consequences
<1> QED
  BY <1>1, Invariance, PTL

\* No lookup is lost or counted twice between find_node, answers that are
\* taken or interrupted, and forgets that arrive late or have to sleep.
THEOREM LookupsStayBalanced == Spec => []LookupsBalance
<1>1. IInv => LookupsBalance
  BY Consequences
<1> QED
  BY <1>1, Invariance, PTL

\* find_node never gives a name below a directory to two nodes.
THEOREM NamesStayUnique == Spec => []NamesUnique
<1>1. IInv => NamesUnique
  BY Consequences
<1> QED
  BY <1>1, Invariance, PTL
=============================================================================
