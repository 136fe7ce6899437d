---------------------------- MODULE DataTheorems ----------------------------
(***************************************************************************)
(* Facts about the data that the handlers work on: the strings of          *)
(* ByteStrings, and the table of TgStorage, whose operations leave the     *)
(* entries of all other paths alone while no path occurs twice.            *)
(***************************************************************************)
EXTENDS TgStorage, SequenceTheorems, WellFoundedInduction, TLAPS

-----------------------------------------------------------------------------
(* Strings.                                                                *)

\* A function on 1 .. n is a sequence of length n.
LEMMA FunctionIsSequence ==
  ASSUME NEW S, NEW n \in Nat, NEW f \in [1 .. n -> S]
  PROVE  f \in Seq(S) /\ Len(f) = n
OBVIOUS

\* What Inserted returns.
LEMMA InsertedString ==
  ASSUME NEW old \in Contents, NEW pos \in Nat, NEW data \in Seq(Bytes)
  PROVE  /\ Inserted(old, pos, data) \in Contents
         /\ Len(Inserted(old, pos, data)) = Larger(Len(old), pos + Len(data))
         /\ \A k \in 1 .. Larger(Len(old), pos + Len(data)) :
              Inserted(old, pos, data)[k] =
                IF k > pos /\ k <= pos + Len(data) THEN data[k - pos]
                ELSE IF k <= Len(old) THEN old[k] ELSE Junk
<1> DEFINE n == Larger(Len(old), pos + Len(data))
<1>1. n \in Nat
  BY DEF Larger, Contents
<1>2. ASSUME NEW k \in 1 .. n
      PROVE  (IF k > pos /\ k <= pos + Len(data) THEN data[k - pos]
              ELSE IF k <= Len(old) THEN old[k] ELSE Junk) \in Bytes \cup {Junk}
  BY DEF Contents
<1>3. Inserted(old, pos, data) \in [1 .. n -> Bytes \cup {Junk}]
  BY <1>2 DEF Inserted
<1>4. Inserted(old, pos, data) \in Contents /\ Len(Inserted(old, pos, data)) = n
  BY <1>1, <1>3, FunctionIsSequence DEF Contents
<1>5. \A k \in 1 .. n :
        Inserted(old, pos, data)[k] =
          IF k > pos /\ k <= pos + Len(data) THEN data[k - pos]
          ELSE IF k <= Len(old) THEN old[k] ELSE Junk
  BY DEF Inserted
<1> QED
  BY <1>4, <1>5

\* Inserting at the end is appending.
LEMMA InsertAtEnd ==
  ASSUME NEW old \in Contents, NEW data \in Seq(Bytes)
  PROVE  Inserted(old, Len(old), data) = old \o data
<1> DEFINE new == Inserted(old, Len(old), data)
           S   == Bytes \cup {Junk}
<1>1. old \in Seq(S) /\ data \in Seq(S) /\ Len(old) \in Nat /\ Len(data) \in Nat
  BY DEF Contents
<1> HIDE DEF S
<1>i. /\ new \in Contents
      /\ Len(new) = Larger(Len(old), Len(old) + Len(data))
      /\ \A k \in 1 .. Larger(Len(old), Len(old) + Len(data)) :
           new[k] = IF k > Len(old) /\ k <= Len(old) + Len(data)
                    THEN data[k - Len(old)]
                    ELSE IF k <= Len(old) THEN old[k] ELSE Junk
  BY <1>1, InsertedString
<1>2. new \in Seq(S) /\ Len(new) = Len(old) + Len(data)
  BY <1>1, <1>i DEF Larger, Contents, S
<1> HIDE DEF new
<1>j. /\ Len(old \o data) = Len(old) + Len(data)
      /\ \A k \in 1 .. Len(old) + Len(data) :
           (old \o data)[k] = IF k <= Len(old) THEN old[k] ELSE data[k - Len(old)]
  BY <1>1, ConcatProperties
<1>3. ASSUME NEW k \in 1 .. Len(new) PROVE new[k] = (old \o data)[k]
  BY <1>1, <1>2, <1>i, <1>j DEF Larger
<1>4. old \o data \in Seq(S) /\ Len(old \o data) = Len(new)
  BY <1>1, <1>2, ConcatProperties
<1>5. new = old \o data
  BY <1>2, <1>3, <1>4, SeqEqual
<1> QED
  BY <1>5 DEF new

\* A part of a string is a string.
LEMMA PrefixString ==
  ASSUME NEW s \in Contents, NEW n \in 0 .. Len(s)
  PROVE  SubSeq(s, 1, n) \in Contents
<1>1. \A k \in 1 .. n : s[k] \in Bytes \cup {Junk}
  BY DEF Contents
<1> QED
  BY <1>1, SubSeqProperties DEF Contents

-----------------------------------------------------------------------------
(* Tables.                                                                 *)

\* No two entries of the table have the same path.
DistinctPaths(t) ==
  \A i, j \in 1 .. Len(t.files) : t.files[i].path = t.files[j].path => i = j

\* Path q has an entry; and which.
In(t, q)      == tg_storage_find_by_path(t, q) # 0
EntryAt(t, q) == t.files[tg_storage_find_by_path(t, q)]

\* Path q has the same entry, or none, in tables t and u.
SameEntry(t, u, q) ==
  /\ In(u, q) <=> In(t, q)
  /\ In(t, q) => EntryAt(u, q) = EntryAt(t, q)

\* A storage record with its two fields.
LEMMA StorageShape ==
  ASSUME NEW t \in Storages
  PROVE  /\ t.files \in Seq(TgFiles)
         /\ t.cap \in Nat
         /\ Len(t.files) \in Nat
         /\ \A i \in 1 .. Len(t.files) : t.files[i] \in TgFiles
BY DEF Storages

\* A set of naturals has a lowest element.
LEMMA LowestNatural ==
  ASSUME NEW P \in SUBSET Nat, P # {}
  PROVE  Min(P) \in P /\ \A k \in P : Min(P) <= k
<1>1. PICK x \in P : \A y \in P : ~(<<y, x>> \in OpToRel(<, Nat))
  BY NatLessThanWellFounded, WFMin, P \subseteq Nat, Zenon
<1>2. \A y \in P : ~(y < x)
  BY <1>1, P \subseteq Nat, Zenon DEF OpToRel
<1>3. \A y \in P : x <= y
  BY <1>2
<1> QED
  BY <1>3 DEF Min

\* The lowest position of a set of positions.
LEMMA FirstOfLowest ==
  ASSUME NEW P \in SUBSET (Nat \ {0})
  PROVE  /\ P = {} => FirstOf(P) = 0
         /\ P # {} => /\ FirstOf(P) \in P
                      /\ \A k \in P : FirstOf(P) <= k
BY LowestNatural DEF FirstOf

\* tg_storage_find_by_path returns a position of the path, or none has it.
LEMMA FindByPath ==
  ASSUME NEW t \in Storages, NEW q,
         NEW i, i = tg_storage_find_by_path(t, q)
  PROVE  /\ i \in 0 .. Len(t.files)
         /\ i # 0 => t.files[i].path = q
         /\ i = 0 => \A k \in 1 .. Len(t.files) : t.files[k].path # q
<1> DEFINE P == {k \in 1 .. Len(t.files) : t.files[k].path = q}
<1>1. P \in SUBSET (Nat \ {0}) /\ Len(t.files) \in Nat
  BY StorageShape
<1>2. i = FirstOf(P)
  BY DEF tg_storage_find_by_path
<1>3. /\ P = {} => i = 0
      /\ P # {} => i \in P
  BY <1>1, <1>2, FirstOfLowest
<1>4. CASE P = {}
  BY <1>1, <1>3, <1>4
<1>5. CASE P # {}
  BY <1>1, <1>3, <1>5
<1> QED
  BY <1>4, <1>5

\* In a table of distinct paths it returns the only position.
LEMMA FindUnique ==
  ASSUME NEW t \in Storages, DistinctPaths(t),
         NEW k \in 1 .. Len(t.files)
  PROVE  tg_storage_find_by_path(t, t.files[k].path) = k
<1> DEFINE i == tg_storage_find_by_path(t, t.files[k].path)
<1>1. /\ i \in 0 .. Len(t.files)
      /\ i # 0 => t.files[i].path = t.files[k].path
      /\ i = 0 => \A n \in 1 .. Len(t.files) : t.files[n].path # t.files[k].path
  BY FindByPath
<1>2. Len(t.files) \in Nat
  BY StorageShape
<1> QED
  BY <1>1, <1>2 DEF DistinctPaths

\* tg_storage_push adds one entry at the end, inside the allocation.
LEMMA PushTable ==
  ASSUME NEW t \in Storages, NEW f \in TgFiles,
         NEW u, u = tg_storage_push(t, f)
  PROVE  /\ u \in Storages
         /\ Len(u.files) = Len(t.files) + 1
         /\ u.files[Len(t.files) + 1] = f
         /\ \A k \in 1 .. Len(t.files) : u.files[k] = t.files[k]
         /\ Len(t.files) <= t.cap => Len(u.files) <= u.cap
<1>1. t.files \in Seq(TgFiles) /\ t.cap \in Nat /\ Len(t.files) \in Nat
  BY StorageShape
<1>2. /\ Append(t.files, f) \in Seq(TgFiles)
      /\ Len(Append(t.files, f)) = Len(t.files) + 1
      /\ Append(t.files, f)[Len(t.files) + 1] = f
      /\ \A k \in 1 .. Len(t.files) : Append(t.files, f)[k] = t.files[k]
  BY <1>1
<1> QED
  BY <1>1, <1>2 DEF tg_storage_push, Storages

\* The last entry moves to the freed slot, if it is not the freed slot.
LEMMA SwapOutTable ==
  ASSUME NEW s \in Seq(TgFiles), NEW i \in 1 .. Len(s)
  PROVE  /\ SwapOut(s, i) \in Seq(TgFiles)
         /\ Len(SwapOut(s, i)) = Len(s) - 1
         /\ \A k \in 1 .. Len(s) - 1 :
              SwapOut(s, i)[k] = IF k = i THEN s[Len(s)] ELSE s[k]
<1>1. Len(s) \in Nat /\ Len(s) - 1 \in Nat
  OBVIOUS
<1>2. SwapOut(s, i) \in [1 .. Len(s) - 1 -> TgFiles]
  BY <1>1 DEF SwapOut
<1> QED
  BY <1>1, <1>2, FunctionIsSequence DEF SwapOut

\* tg_storage_remove_by_path of a path that is there.
LEMMA RemoveTable ==
  ASSUME NEW t \in Storages, NEW q,
         NEW i, i = tg_storage_find_by_path(t, q), i # 0,
         NEW u, u = tg_storage_remove_by_path(t, q)
  PROVE  /\ u \in Storages
         /\ u.cap = t.cap
         /\ i \in 1 .. Len(t.files)
         /\ Len(u.files) = Len(t.files) - 1
         /\ \A k \in 1 .. Len(u.files) :
              u.files[k] = IF k = i THEN t.files[Len(t.files)] ELSE t.files[k]
<1>1. i \in 1 .. Len(t.files) /\ t.files \in Seq(TgFiles) /\ t.cap \in Nat
  BY FindByPath, StorageShape
<1>2. u = [t EXCEPT !.files = SwapOut(t.files, i)]
  BY DEF tg_storage_remove_by_path
<1>3. /\ SwapOut(t.files, i) \in Seq(TgFiles)
      /\ Len(SwapOut(t.files, i)) = Len(t.files) - 1
      /\ \A k \in 1 .. Len(t.files) - 1 :
           SwapOut(t.files, i)[k] = IF k = i THEN t.files[Len(t.files)]
                                    ELSE t.files[k]
  BY <1>1, SwapOutTable
<1>4. u \in Storages /\ u.cap = t.cap /\ u.files = SwapOut(t.files, i)
  BY <1>2, <1>3 DEF Storages
<1> QED
  BY <1>1, <1>3, <1>4

-----------------------------------------------------------------------------
(* Tables of distinct paths.                                               *)

\* The entry of a path is the one at whatever position holds the path.
LEMMA EntryOfPath ==
  ASSUME NEW t \in Storages, DistinctPaths(t), NEW k \in 1 .. Len(t.files),
         NEW q, t.files[k].path = q
  PROVE  In(t, q) /\ EntryAt(t, q) = t.files[k]
<1>1. tg_storage_find_by_path(t, q) = k /\ k # 0
  BY FindUnique
<1> QED
  BY <1>1 DEF In, EntryAt

\* And the path of an entry that is there is the one asked for.
LEMMA EntryPosition ==
  ASSUME NEW t \in Storages, NEW q, In(t, q)
  PROVE  /\ EntryAt(t, q) \in TgFiles
         /\ EntryAt(t, q).path = q
         /\ \E k \in 1 .. Len(t.files) :
              EntryAt(t, q) = t.files[k] /\ tg_storage_find_by_path(t, q) = k
<1> DEFINE k == tg_storage_find_by_path(t, q)
<1>1. /\ k \in 0 .. Len(t.files) /\ k # 0
      /\ t.files[k].path = q
  BY FindByPath DEF In
<1>2. k \in 1 .. Len(t.files) /\ t.files[k] \in TgFiles
  BY <1>1, StorageShape
<1> QED
  BY <1>1, <1>2 DEF EntryAt

\* A push of a new path adds its entry and touches no other.
LEMMA PushEntry ==
  ASSUME NEW t \in Storages, DistinctPaths(t), NEW f \in TgFiles,
         ~In(t, f.path),
         NEW u, u = tg_storage_push(t, f)
  PROVE  /\ DistinctPaths(u)
         /\ In(u, f.path) /\ EntryAt(u, f.path) = f
         /\ \A q : q # f.path => SameEntry(t, u, q)
<1>1. /\ u \in Storages
      /\ Len(u.files) = Len(t.files) + 1
      /\ u.files[Len(t.files) + 1] = f
      /\ \A k \in 1 .. Len(t.files) : u.files[k] = t.files[k]
  BY PushTable
<1>a. Len(t.files) \in Nat
  BY StorageShape
<1>2. \A k \in 1 .. Len(t.files) : t.files[k].path # f.path
  BY FindByPath DEF In
<1>3. DistinctPaths(u)
  <2> SUFFICES ASSUME NEW i \in 1 .. Len(u.files), NEW j \in 1 .. Len(u.files),
                      u.files[i].path = u.files[j].path
               PROVE  i = j
    BY DEF DistinctPaths
  <2>1. CASE i \in 1 .. Len(t.files) /\ j \in 1 .. Len(t.files)
    <3>1. u.files[i] = t.files[i] /\ u.files[j] = t.files[j]
      BY <1>1, <2>1
    <3> QED
      BY <2>1, <3>1 DEF DistinctPaths
  <2>2. \A k \in 1 .. Len(u.files) :
          u.files[k].path = f.path => k = Len(t.files) + 1
    <3> TAKE k \in 1 .. Len(u.files)
    <3>1. k = Len(t.files) + 1 \/ k \in 1 .. Len(t.files)
      BY <1>1, <1>a
    <3>2. CASE k \in 1 .. Len(t.files)
      <4>1. u.files[k] = t.files[k] /\ t.files[k].path # f.path
        BY <1>1, <1>2, <3>2
      <4> QED
        BY <4>1
    <3> QED
      BY <3>1, <3>2
  <2>3. CASE i = Len(t.files) + 1
    <3>1. u.files[i].path = f.path
      BY <1>1, <2>3
    <3> QED
      BY <2>2, <2>3, <3>1
  <2>4. CASE j = Len(t.files) + 1
    <3>1. u.files[j].path = f.path
      BY <1>1, <2>4
    <3> QED
      BY <2>2, <2>4, <3>1
  <2> QED
    BY <1>1, <1>a, <2>1, <2>3, <2>4
<1>4. In(u, f.path) /\ EntryAt(u, f.path) = f
  <2>1. Len(t.files) + 1 \in 1 .. Len(u.files)
    BY <1>1, <1>a
  <2> QED
    BY <1>1, <1>a, <1>3, <2>1, EntryOfPath
<1>5. ASSUME NEW q, q # f.path PROVE SameEntry(t, u, q)
  <2>1. ASSUME In(t, q) PROVE In(u, q) /\ EntryAt(u, q) = EntryAt(t, q)
    <3>1. PICK k \in 1 .. Len(t.files) : EntryAt(t, q) = t.files[k]
      BY <2>1, EntryPosition
    <3>2. k \in 1 .. Len(u.files) /\ u.files[k] = t.files[k] /\ t.files[k].path = q
      BY <1>1, <1>a, <2>1, <3>1, EntryPosition
    <3> QED
      BY <1>1, <1>a, <1>3, <3>1, <3>2, EntryOfPath
  <2>2. ASSUME In(u, q) PROVE In(t, q)
    <3>1. PICK k \in 1 .. Len(u.files) : u.files[k].path = q
      BY <1>1, <1>a, <2>2, EntryPosition
    <3>2. k \in 1 .. Len(t.files) /\ t.files[k].path = q
      BY <1>1, <1>a, <1>5, <3>1
    <3> QED
      BY <3>2, EntryOfPath
  <2> QED
    BY <2>1, <2>2 DEF SameEntry
<1> QED
  BY <1>3, <1>4, <1>5

\* A removal takes the entry of its path and touches no other, although it
\* moves the last one.
LEMMA RemoveEntry ==
  ASSUME NEW t \in Storages, DistinctPaths(t), NEW p, In(t, p),
         NEW u, u = tg_storage_remove_by_path(t, p)
  PROVE  /\ DistinctPaths(u)
         /\ ~In(u, p)
         /\ \A q : q # p => SameEntry(t, u, q)
<1> DEFINE i == tg_storage_find_by_path(t, p)
           n == Len(t.files)
<1>1. /\ u \in Storages
      /\ i \in 1 .. n
      /\ Len(u.files) = n - 1
      /\ \A k \in 1 .. Len(u.files) :
           u.files[k] = IF k = i THEN t.files[n] ELSE t.files[k]
      /\ n \in Nat
      /\ t.files[i].path = p
  BY RemoveTable, FindByPath, StorageShape DEF In
<1> HIDE DEF i, n
<1>n. n = Len(t.files)
  BY DEF n
<1>d. \A j, k \in 1 .. n : t.files[j].path = t.files[k].path => j = k
  BY <1>n DEF DistinctPaths
<1>2. \A k \in 1 .. n : t.files[k].path = p => k = i
  BY <1>1, <1>d
<1>3. DistinctPaths(u)
  <2> SUFFICES ASSUME NEW j \in 1 .. Len(u.files), NEW k \in 1 .. Len(u.files),
                      u.files[j].path = u.files[k].path
               PROVE  j = k
    BY DEF DistinctPaths
  <2>1. CASE j = i
    BY <1>1, <1>d, <2>1
  <2>2. CASE k = i
    BY <1>1, <1>d, <2>2
  <2>3. CASE j # i /\ k # i
    BY <1>1, <1>d, <2>3
  <2> QED
    BY <2>1, <2>2, <2>3
<1>4. \A k \in 1 .. Len(u.files) : u.files[k].path # p
  BY <1>1, <1>2
<1>5. ~In(u, p)
  BY <1>1, <1>4, EntryPosition
<1>6. ASSUME NEW q, q # p PROVE SameEntry(t, u, q)
  <2>1. ASSUME In(t, q) PROVE In(u, q) /\ EntryAt(u, q) = EntryAt(t, q)
    <3>1. PICK k \in 1 .. n : EntryAt(t, q) = t.files[k]
      BY <1>n, <2>1, EntryPosition
    <3>2. t.files[k].path = q /\ k # i
      BY <1>1, <1>6, <2>1, <3>1, EntryPosition
    <3>3. PICK m \in 1 .. Len(u.files) : u.files[m] = t.files[k]
      <4>1. CASE k = n
        BY <1>1, <3>2, <4>1
      <4>2. CASE k # n
        BY <1>1, <3>2, <4>2
      <4> QED
        BY <4>1, <4>2
    <3> QED
      BY <1>1, <1>3, <3>1, <3>2, <3>3, EntryOfPath
  <2>2. ASSUME In(u, q) PROVE In(t, q)
    <3>1. PICK k \in 1 .. Len(u.files) : u.files[k].path = q
      BY <1>1, <2>2, EntryPosition
    <3>2. PICK m \in 1 .. n : t.files[m].path = q
      <4>1. CASE k = i
        BY <1>1, <3>1, <4>1
      <4>2. CASE k # i
        BY <1>1, <3>1, <4>2
      <4> QED
        BY <4>1, <4>2
    <3> QED
      BY <1>n, <3>2, EntryOfPath
  <2> QED
    BY <2>1, <2>2 DEF SameEntry
<1> QED
  BY <1>3, <1>5, <1>6

\* An assignment to the fields of an entry, other than its path.
LEMMA UpdateEntry ==
  ASSUME NEW t \in Storages, DistinctPaths(t), NEW p, In(t, p),
         NEW e \in TgFiles, e.path = p,
         NEW u,
         u = [t EXCEPT !.files[tg_storage_find_by_path(t, p)] = e]
  PROVE  /\ u \in Storages
         /\ DistinctPaths(u)
         /\ In(u, p) /\ EntryAt(u, p) = e
         /\ \A q : q # p => SameEntry(t, u, q)
         /\ u.cap = t.cap
         /\ Len(u.files) = Len(t.files)
         /\ \A k \in 1 .. Len(t.files) :
              u.files[k] = IF k = tg_storage_find_by_path(t, p) THEN e
                           ELSE t.files[k]
<1> DEFINE i == tg_storage_find_by_path(t, p)
<1>1. /\ i \in 1 .. Len(t.files) /\ t.files[i].path = p
      /\ t.files \in Seq(TgFiles) /\ t.cap \in Nat /\ Len(t.files) \in Nat
  BY FindByPath, StorageShape DEF In
<1>2. u = [t EXCEPT !.files = [t.files EXCEPT ![i] = e]]
  BY DEF Storages
<1> HIDE DEF i
<1>3. /\ [t.files EXCEPT ![i] = e] \in Seq(TgFiles)
      /\ Len([t.files EXCEPT ![i] = e]) = Len(t.files)
      /\ \A k \in 1 .. Len(t.files) :
           [t.files EXCEPT ![i] = e][k] = IF k = i THEN e ELSE t.files[k]
  BY <1>1, ExceptSeq
<1>4. u \in Storages /\ u.cap = t.cap /\ u.files = [t.files EXCEPT ![i] = e]
  BY <1>2, <1>3 DEF Storages
<1>5. /\ Len(u.files) = Len(t.files)
      /\ \A k \in 1 .. Len(t.files) :
           u.files[k] = IF k = i THEN e ELSE t.files[k]
  BY <1>3, <1>4
<1>6. \A k \in 1 .. Len(t.files) : u.files[k].path = t.files[k].path
  BY <1>1, <1>5
<1>7. DistinctPaths(u)
  BY <1>5, <1>6 DEF DistinctPaths
<1>u. u \in Storages
  BY <1>4
<1>8. In(u, p) /\ EntryAt(u, p) = e
  <2>1. i \in 1 .. Len(u.files) /\ u.files[i] = e
    BY <1>1, <1>5
  <2> QED
    BY <1>u, <1>7, <2>1, EntryOfPath
<1>9. ASSUME NEW q, q # p PROVE SameEntry(t, u, q)
  <2>1. ASSUME In(t, q) PROVE In(u, q) /\ EntryAt(u, q) = EntryAt(t, q)
    <3>1. PICK k \in 1 .. Len(t.files) : EntryAt(t, q) = t.files[k]
      BY <2>1, EntryPosition
    <3>2. /\ k \in 1 .. Len(u.files) /\ t.files[k].path = q
          /\ u.files[k] = t.files[k]
      BY <1>1, <1>5, <1>9, <2>1, <3>1, EntryPosition
    <3> QED
      BY <1>u, <1>7, <3>1, <3>2, EntryOfPath
  <2>2. ASSUME In(u, q) PROVE In(t, q)
    <3>1. PICK k \in 1 .. Len(u.files) : u.files[k].path = q
      BY ONLY <1>u, <2>2, EntryPosition
    <3>2. k \in 1 .. Len(t.files) /\ t.files[k].path = q
      BY <1>5, <1>6, <3>1
    <3> QED
      BY <3>2, EntryOfPath
  <2> QED
    BY <2>1, <2>2 DEF SameEntry
<1> QED
  BY <1>4, <1>5, <1>7, <1>8, <1>9 DEF i
=============================================================================
