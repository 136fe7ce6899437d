-------------------------- MODULE WorkerPoolProofs --------------------------
(***************************************************************************)
(* For any number of workers, any limits and any order of requests, errors *)
(* and signals: the pool counts its threads right, joins only what is its  *)
(* own, and keeps one thread for the next request while it may.            *)
(***************************************************************************)
EXTENDS WorkerPool, SequenceTheorems, FiniteSetTheorems, TLAPS

-----------------------------------------------------------------------------
(* The invariant.                                                          *)

States == {"none", "top", "reading", "got", "serving", "returned"}
Places == {"test", "enter", "asleep", "close", "join", "returned"}

\* The types of what the pool counts with.
PoolTypes ==
  /\ worker \in [Workers -> States]
  /\ isforget \in [Workers -> BOOLEAN]
  /\ list \in Seq(Workers)
  /\ numworker \in Int /\ numavail \in Int
  /\ exit \in BOOLEAN /\ exited \in BOOLEAN /\ failed \in BOOLEAN
  /\ main \in Places
  /\ joining \in Workers \cup {NoWorker}

\* The list holds each thread that runs once.
ListOK ==
  /\ \A i, j \in 1 .. Len(list) : list[i] = list[j] => i = j
  /\ \A w \in Workers : worker[w] # "none" <=>
                          \E i \in 1 .. Len(list) : list[i] = w

\* How far the end of the loop has come.  A worker only returns, and the main
\* thread only goes on to close, once the session has ended.
EndOK ==
  /\ exit <=> main \in {"join", "returned"}
  /\ main \in {"close", "join", "returned"} => exited
  /\ cancelled # {} => exit
  /\ \A w \in Workers : worker[w] = "returned" => exited
  /\ joining # NoWorker => main = "join" /\ worker[joining] # "none"

\* The counters, as long as the loop runs.
CountsOK ==
  ~exit => /\ numworker = Len(list) /\ numworker <= MaxThreads
           /\ numavail = numworker - Cardinality(Engaged)

\* Below the limit one more worker is there than are busy.
SpareOK ==
  MaxIdle # 0 /\ ~exited /\ ~failed /\ numworker < MaxThreads => numavail > 0

IInv == PoolTypes /\ ListOK /\ EndOK /\ CountsOK /\ SpareOK

-----------------------------------------------------------------------------
(* The list and the counters.                                              *)

\* The busy workers are finitely many.
LEMMA EngagedFinite ==
  /\ Running \in SUBSET Workers /\ IsFiniteSet(Running)
  /\ Engaged \in SUBSET Running /\ IsFiniteSet(Engaged)
  /\ Cardinality(Engaged) \in Nat
<1>1. Running \in SUBSET Workers /\ Engaged \in SUBSET Running
  BY DEF Running, Engaged
<1>2. IsFiniteSet(Running)
  BY <1>1, FS_Subset, PoolAssumption
<1>3. IsFiniteSet(Engaged)
  BY <1>1, <1>2, FS_Subset
<1> QED
  BY <1>1, <1>2, <1>3, FS_CardinalityType

\* The list has as many elements as there are threads.
LEMMA RunningCount ==
  ASSUME PoolTypes, ListOK
  PROVE  Range(list) = Running /\ Cardinality(Running) = Len(list)
<1>1. list \in Seq(Workers) /\ Len(list) \in Nat /\ DOMAIN list = 1 .. Len(list)
  BY DEF PoolTypes
<1>2. \A w \in Workers : w \in Running <=> \E i \in 1 .. Len(list) : list[i] = w
  BY DEF ListOK, Running
<1>3. Range(list) = Running
  BY <1>1, <1>2, EngagedFinite DEF Range
<1>4. list \in [1 .. Len(list) -> Running]
  BY <1>1, <1>2
<1>5. list \in Bijection(1 .. Len(list), Running)
  BY <1>2, <1>4, EngagedFinite
     DEF ListOK, Bijection, Injection, Surjection, IsInjective
<1>6. ExistsBijection(1 .. Len(list), Running)
  BY <1>5 DEF ExistsBijection
<1>7. IsFiniteSet(1 .. Len(list)) /\ Cardinality(1 .. Len(list)) = Len(list)
  BY <1>1, FS_Interval
<1> QED
  BY <1>3, <1>6, <1>7, FS_Bijection

\* No more workers are busy than there are.
LEMMA EngagedCount ==
  ASSUME PoolTypes, ListOK
  PROVE  /\ Cardinality(Engaged) <= Len(list)
         /\ Cardinality(Engaged) = Len(list) => Engaged = Running
<1>1. Cardinality(Running) = Len(list)
  BY RunningCount
<1> QED
  BY <1>1, EngagedFinite, FS_Subset

\* A function on 1 .. n is a sequence.
LEMMA FunctionSequence ==
  ASSUME NEW S, NEW n \in Nat, NEW f \in [1 .. n -> S]
  PROVE  f \in Seq(S) /\ Len(f) = n
<1>1. f \in Seq(S)
  BY SeqDef
<1>2. DOMAIN f = 1 .. Len(f) /\ Len(f) \in Nat
  BY <1>1, LenProperties
<1> QED
  BY <1>1, <1>2

\* list_del_worker takes out the one element of its thread.
LEMMA DeletedList ==
  ASSUME PoolTypes, ListOK, NEW w \in Workers, worker[w] # "none",
         NEW q, q = Delete(w)
  PROVE  /\ q \in Seq(Workers) /\ Len(q) = Len(list) - 1 /\ Len(list) \in Nat
         /\ \A i, j \in 1 .. Len(q) : q[i] = q[j] => i = j
         /\ \A v \in Workers :
              (\E i \in 1 .. Len(q) : q[i] = v) <=> v # w /\ worker[v] # "none"
<1>1. list \in Seq(Workers) /\ Len(list) \in Nat
  BY DEF PoolTypes
<1>2. \A i, j \in 1 .. Len(list) : list[i] = list[j] => i = j
  BY DEF ListOK
<1>3. PICK a \in 1 .. Len(list) : list[a] = w
  BY DEF ListOK
<1>4. a = CHOOSE i \in 1 .. Len(list) : list[i] = w
  BY <1>2, <1>3
<1>5. q = [i \in 1 .. Len(list) - 1 |-> list[IF i < a THEN i ELSE i + 1]]
  BY <1>4 DEF Delete
<1>6. /\ q \in Seq(Workers) /\ Len(q) = Len(list) - 1
      /\ \A i \in 1 .. Len(list) - 1 : q[i] = list[IF i < a THEN i ELSE i + 1]
  <2>1. Len(list) - 1 \in Nat /\ q \in [1 .. Len(list) - 1 -> Workers]
    BY <1>1, <1>5
  <2>2. q \in Seq(Workers) /\ Len(q) = Len(list) - 1
    BY <2>1, FunctionSequence
  <2>3. ASSUME NEW i \in 1 .. Len(list) - 1
        PROVE  q[i] = list[IF i < a THEN i ELSE i + 1]
    BY <1>5
  <2> QED
    BY <2>2, <2>3
<1>7. \A i, j \in 1 .. Len(q) : q[i] = q[j] => i = j
  BY <1>1, <1>2, <1>6
<1>8. ASSUME NEW v \in Workers
      PROVE  (\E i \in 1 .. Len(q) : q[i] = v) <=> v # w /\ worker[v] # "none"
  <2>1. ASSUME NEW i \in 1 .. Len(q), q[i] = v
        PROVE  v # w /\ worker[v] # "none"
    <3> DEFINE k == IF i < a THEN i ELSE i + 1
    <3>1. i \in 1 .. Len(list) - 1
      BY <1>6
    <3>2. k \in 1 .. Len(list) /\ k # a
      BY <1>1, <3>1
    <3>3. list[k] = v
      BY <1>6, <2>1, <3>1
    <3> QED
      BY <1>2, <1>3, <3>2, <3>3 DEF ListOK
  <2>2. ASSUME v # w, worker[v] # "none"
        PROVE  \E i \in 1 .. Len(q) : q[i] = v
    <3>1. PICK k \in 1 .. Len(list) : list[k] = v
      BY <2>2 DEF ListOK
    <3> DEFINE i == IF k < a THEN k ELSE k - 1
    <3>2. k # a
      BY <1>3, <2>2, <3>1
    <3>3. i \in 1 .. Len(q) /\ q[i] = list[k]
      BY <1>1, <1>6, <3>2
    <3> QED
      BY <3>1, <3>3
  <2> QED
    BY <2>1, <2>2
<1> QED
  BY <1>1, <1>6, <1>7, <1>8

-----------------------------------------------------------------------------
(* Consequences.                                                           *)

\* What the invariant says.
LEMMA Consequences ==
  ASSUME IInv
  PROVE  PoolCounts /\ JoinsOwn /\ SomeoneReads
<1>1. PoolCounts
  BY RunningCount DEF IInv, EndOK, CountsOK, PoolCounts
<1>2. JoinsOwn
  BY DEF IInv, PoolTypes, EndOK, JoinsOwn, Running
<1>3. SomeoneReads
  <2> SUFFICES ASSUME MaxIdle # 0, ~exited, ~failed, numworker < MaxThreads,
                      \A w \in Running : worker[w] = "serving" => ~isforget[w]
               PROVE  \E w \in Running : worker[w] \in {"top", "reading", "got"}
    BY DEF SomeoneReads
  <2>1. numavail > 0 /\ ~exit
    BY DEF IInv, SpareOK, EndOK
  <2>2. Cardinality(Engaged) # Len(list)
    BY <2>1, EngagedFinite DEF IInv, PoolTypes, CountsOK
  <2>3. Engaged # Running
    BY <2>2, RunningCount DEF IInv
  <2>4. PICK w \in Running : w \notin Engaged
    BY <2>3, EngagedFinite
  <2>5. worker[w] \in States \ {"none", "returned", "serving"}
    BY <2>4 DEF IInv, PoolTypes, EndOK, Running, Engaged
  <2> QED
    BY <2>5 DEF States
<1> QED
  BY <1>1, <1>2, <1>3

\* The invariant holds at the start.
LEMMA InitInv == Init => IInv
<1> SUFFICES ASSUME Init PROVE IInv
  OBVIOUS
<1>1. PICK w \in Workers : /\ list = <<w>>
                           /\ worker = [v \in Workers |-> IF v = w THEN "top"
                                                          ELSE "none"]
  BY DEF Init
<1>2. PoolTypes
  <2>1. list \in Seq(Workers) /\ worker \in [Workers -> States]
    BY <1>1 DEF States
  <2>2. isforget \in [Workers -> BOOLEAN]
    BY DEF Init
  <2>3. main \in Places /\ joining \in Workers \cup {NoWorker}
    BY DEF Init, Places
  <2>4. numworker \in Int /\ numavail \in Int
    BY DEF Init
  <2>5. exit \in BOOLEAN /\ exited \in BOOLEAN /\ failed \in BOOLEAN
    BY Zenon DEF Init
  <2> QED
    BY <2>1, <2>2, <2>3, <2>4, <2>5, Zenon DEF PoolTypes
<1>3. Len(list) = 1 /\ list[1] = w
  BY <1>1
<1>4. ListOK
  BY <1>1, <1>3 DEF ListOK
<1>5. EndOK
  BY <1>1 DEF Init, EndOK
<1>6. Engaged = {}
  BY <1>1 DEF Engaged, Running
<1>7. CountsOK /\ SpareOK
  BY <1>3, <1>6, FS_EmptySet, PoolAssumption DEF Init, CountsOK, SpareOK
<1> QED
  BY <1>2, <1>4, <1>5, <1>7 DEF IInv

-----------------------------------------------------------------------------
(* The steps of a worker.                                                  *)

\* A worker that is not busy moves on to where it is not busy either.
LEMMA MoveStep ==
  ASSUME IInv, NEW w \in Workers, NEW x \in States \ {"none", "serving"},
         worker[w] \notin {"none", "serving"},
         worker' = [worker EXCEPT ![w] = x],
         isforget' \in [Workers -> BOOLEAN],
         \A v \in Workers \ {w} : isforget'[v] = isforget[v],
         exited' \in BOOLEAN, exited => exited', x = "returned" => exited',
         UNCHANGED <<list, counters, mainVars>>
  PROVE  IInv'
<1>1. worker \in [Workers -> States] /\ worker' \in [Workers -> States]
  BY DEF IInv, PoolTypes
<1>2. UNCHANGED <<list, numworker, numavail, failed, exit, cancelled, main, joining>>
  BY DEF counters, mainVars
<1>3. \A v \in Workers : worker'[v] = IF v = w THEN x ELSE worker[v]
  BY <1>1
<1>4. PoolTypes'
  BY <1>1, <1>2 DEF IInv, PoolTypes
<1>5. ListOK'
  BY <1>2, <1>3 DEF IInv, ListOK
<1>6. EndOK'
  BY <1>2, <1>3 DEF IInv, EndOK, PoolTypes
<1>7. Engaged' = Engaged
  BY <1>3 DEF Engaged, Running
<1>8. CountsOK' /\ SpareOK'
  BY <1>2, <1>7 DEF IInv, CountsOK, SpareOK
<1> QED
  BY <1>4, <1>5, <1>6, <1>8 DEF IInv

\* A worker that leaves.
LEMMA LeaveStep ==
  ASSUME IInv, NEW w \in Workers, worker[w] \in {"top", "reading"}, Leave(w),
         exited' = TRUE
  PROVE  IInv'
<1>1. /\ worker' = [worker EXCEPT ![w] = "returned"]
      /\ UNCHANGED <<isforget, list, counters, mainVars>>
  BY DEF Leave
<1>2. "returned" \in States \ {"none", "serving"}
  BY DEF States
<1>3. isforget' \in [Workers -> BOOLEAN]
  BY <1>1 DEF IInv, PoolTypes
<1> QED
  BY <1>1, <1>2, <1>3, MoveStep

\* What a worker does outside its handler, without the counters.
LEMMA IdleStep ==
  ASSUME IInv, NEW w \in Workers,
         \/ top(w) \/ leave(w) \/ interrupted(w) \/ readError(w) \/ cancel(w)
         \/ \E forget \in BOOLEAN : receive(w, forget)
  PROVE  IInv'
<1>1. /\ isforget \in [Workers -> BOOLEAN] /\ exited \in BOOLEAN
      /\ {"top", "reading", "got", "returned"} \subseteq States \ {"none", "serving"}
  BY DEF IInv, PoolTypes, States
<1>2. CASE top(w)
  <2>1. /\ worker[w] = "top" /\ worker' = [worker EXCEPT ![w] = "reading"]
        /\ UNCHANGED <<exited, isforget, list, counters, mainVars>>
    BY <1>2 DEF top, session
  <2> QED
    BY <1>1, <2>1, MoveStep
<1>3. CASE leave(w)
  BY <1>1, <1>3, LeaveStep DEF leave
<1>4. CASE interrupted(w)
  <2>1. /\ worker[w] = "reading" /\ worker' = [worker EXCEPT ![w] = "top"]
        /\ UNCHANGED <<exited, isforget, list, counters, mainVars>>
    BY <1>4 DEF interrupted, session
  <2> QED
    BY <1>1, <2>1, MoveStep
<1>5. CASE readError(w)
  BY <1>5, LeaveStep DEF readError
<1>6. CASE cancel(w)
  <2>1. /\ worker[w] = "reading" /\ worker' = [worker EXCEPT ![w] = "returned"]
        /\ w \in cancelled
        /\ UNCHANGED <<exited, isforget, list, counters, mainVars>>
    BY <1>6 DEF cancel, session
  <2>2. exited
    BY <2>1 DEF IInv, EndOK
  <2> QED
    BY <1>1, <2>1, <2>2, MoveStep
<1>7. ASSUME NEW forget \in BOOLEAN, receive(w, forget) PROVE IInv'
  <2>1. CASE exited
    BY <1>7, <2>1, LeaveStep DEF receive
  <2>2. CASE ~exited
    <3>1. /\ worker[w] = "reading" /\ worker' = [worker EXCEPT ![w] = "got"]
          /\ isforget' = [isforget EXCEPT ![w] = forget]
          /\ UNCHANGED <<exited, list, counters, mainVars>>
      BY <1>7, <2>2 DEF receive, session
    <3>2. isforget' \in [Workers -> BOOLEAN]
      BY <1>1, <3>1
    <3>3. \A v \in Workers \ {w} : isforget'[v] = isforget[v]
      BY <1>1, <3>1
    <3> QED
      BY <1>1, <3>1, <3>2, <3>3, MoveStep
  <2> QED
    BY <2>1, <2>2
<1> QED
  BY <1>2, <1>3, <1>4, <1>5, <1>6, <1>7

\* From the request to its handler, with a new thread if none is left to read.
LEMMA TakeStep ==
  ASSUME IInv, NEW w \in Workers, take(w)
  PROVE  IInv'
<1> DEFINE n == Available(w, -1)
<1>1. /\ worker[w] = "got" /\ UNCHANGED <<exited, exit, cancelled, main, joining>>
  BY DEF take, session, mainVars
<1>2. /\ worker \in [Workers -> States] /\ isforget \in [Workers -> BOOLEAN]
      /\ list \in Seq(Workers) /\ Len(list) \in Nat
      /\ numworker \in Int /\ numavail \in Int
      /\ exit \in BOOLEAN /\ exited \in BOOLEAN /\ failed \in BOOLEAN
  BY DEF IInv, PoolTypes
<1>3. n = IF isforget[w] THEN numavail ELSE numavail - 1
  BY <1>2 DEF Available
<1>n. n = Available(w, -1)
  OBVIOUS
<1> HIDE DEF n
<1>4. CASE exit
  <2>1. /\ worker' = [worker EXCEPT ![w] = "returned"] /\ exited
        /\ UNCHANGED <<isforget, list, counters, mainVars>>
    BY <1>4, <1>n DEF take, IInv, EndOK, session
  <2>2. "returned" \in States \ {"none", "serving"}
    BY DEF States
  <2> QED
    BY <1>1, <1>2, <2>1, <2>2, MoveStep
<1>5. CASE ~exit /\ worker' = [worker EXCEPT ![w] = "serving"]
                 /\ numavail' = n /\ UNCHANGED <<isforget, list, numworker>>
                 /\ failed' \in BOOLEAN /\ (failed => failed')
                 /\ (n = 0 /\ numworker < MaxThreads => failed')
  <2>1. \A v \in Workers : worker'[v] = IF v = w THEN "serving" ELSE worker[v]
    BY <1>2, <1>5
  <2>2. PoolTypes'
    <3>1. worker' \in [Workers -> States] /\ numavail' \in Int
      BY <1>2, <1>3, <1>5 DEF States
    <3> QED
      BY <1>1, <1>5, <3>1 DEF IInv, PoolTypes
  <2>3. ListOK'
    BY <1>1, <1>5, <2>1 DEF IInv, ListOK
  <2>4. EndOK'
    BY <1>1, <1>5, <2>1 DEF IInv, EndOK, PoolTypes
  <2>5. Engaged' = IF isforget[w] THEN Engaged ELSE Engaged \cup {w}
    BY <1>1, <1>5, <2>1 DEF Engaged, Running
  <2>6. Cardinality(Engaged') =
          IF isforget[w] THEN Cardinality(Engaged) ELSE Cardinality(Engaged) + 1
    <3>1. w \notin Engaged
      BY <1>1 DEF Engaged
    <3> QED
      BY <2>5, <3>1, EngagedFinite, FS_AddElement
  <2>7. CountsOK'
    BY <1>1, <1>2, <1>3, <1>5, <2>6, EngagedFinite DEF IInv, CountsOK
  <2>8. SpareOK'
    BY <1>1, <1>2, <1>3, <1>5 DEF IInv, SpareOK
  <2> QED
    BY <2>2, <2>3, <2>4, <2>7, <2>8 DEF IInv
<1>6. ASSUME ~exit, n = 0, numworker < MaxThreads,
             NEW v \in Workers, worker[v] = "none",
             worker' = [worker EXCEPT ![w] = "serving", ![v] = "top"],
             isforget' = [isforget EXCEPT ![v] = FALSE],
             list' = Append(list, v), numavail' = n + 1,
             numworker' = numworker + 1, UNCHANGED failed
      PROVE  IInv'
  <2>1. v # w
    BY <1>1, <1>6
  <2>2. /\ \A u \in Workers : worker'[u] = IF u = v THEN "top"
                                           ELSE IF u = w THEN "serving"
                                           ELSE worker[u]
        /\ \A u \in Workers : isforget'[u] = IF u = v THEN FALSE ELSE isforget[u]
    BY <1>2, <1>6, <2>1
  <2>3. PoolTypes'
    <3>1. worker' \in [Workers -> States]
      BY <1>2, <1>6 DEF States
    <3>2. isforget' \in [Workers -> BOOLEAN]
      BY <1>2, <1>6
    <3>3. list' \in Seq(Workers)
      BY <1>2, <1>6
    <3>4. numworker' \in Int /\ numavail' \in Int
      BY <1>2, <1>6
    <3> QED
      BY <1>1, <1>6, <3>1, <3>2, <3>3, <3>4 DEF IInv, PoolTypes
  <2>4. /\ Len(list') = Len(list) + 1 /\ list'[Len(list) + 1] = v
        /\ \A i \in 1 .. Len(list) : list'[i] = list[i]
    BY <1>2, <1>6
  <2>5. ListOK'
    <3>1. \A i \in 1 .. Len(list) : list[i] # v
      BY <1>6 DEF IInv, ListOK
    <3>2. \A i, j \in 1 .. Len(list') : list'[i] = list'[j] => i = j
      <4> SUFFICES ASSUME NEW i \in 1 .. Len(list'), NEW j \in 1 .. Len(list'),
                          list'[i] = list'[j]
                   PROVE  i = j
        OBVIOUS
      <4>1. /\ i \in 1 .. Len(list) \/ i = Len(list) + 1
            /\ j \in 1 .. Len(list) \/ j = Len(list) + 1
        BY <1>2, <2>4
      <4> QED
        BY <2>4, <3>1, <4>1 DEF IInv, ListOK
    <3>3. ASSUME NEW u \in Workers
          PROVE  worker'[u] # "none" <=> \E i \in 1 .. Len(list') : list'[i] = u
      <4>1. CASE u = v
        BY <1>2, <2>2, <2>4, <4>1
      <4>2. CASE u # v
        <5>1. worker'[u] # "none" <=> worker[u] # "none"
          BY <1>1, <2>2, <4>2
        <5>2. (\E i \in 1 .. Len(list') : list'[i] = u) <=>
                \E i \in 1 .. Len(list) : list[i] = u
          BY <1>2, <2>4, <4>2
        <5> QED
          BY <5>1, <5>2 DEF IInv, ListOK
      <4> QED
        BY <4>1, <4>2
    <3> QED
      BY <3>2, <3>3 DEF ListOK
  <2>6. EndOK'
    BY <1>1, <1>6, <2>2 DEF IInv, EndOK, PoolTypes
  <2>7. Engaged' = IF isforget[w] THEN Engaged ELSE Engaged \cup {w}
    <3>1. ASSUME NEW u \in Workers
          PROVE  u \in Engaged' <=> u \in Engaged \/ (u = w /\ ~isforget[w])
      <4>1. u \in Engaged' <=> worker'[u] = "serving" /\ ~isforget'[u]
        BY DEF Engaged, Running
      <4>2. u \in Engaged <=> worker[u] = "serving" /\ ~isforget[u]
        BY DEF Engaged, Running
      <4>3. CASE u = v
        BY <1>6, <2>1, <2>2, <4>1, <4>2, <4>3
      <4>4. CASE u = w
        BY <1>1, <2>1, <2>2, <4>1, <4>2, <4>4
      <4>5. CASE u # v /\ u # w
        BY <2>2, <4>1, <4>2, <4>5
      <4> QED
        BY <4>3, <4>4, <4>5
    <3>2. Engaged' \subseteq Workers /\ Engaged \subseteq Workers
      BY DEF Engaged, Running
    <3> QED
      BY <3>1, <3>2
  <2>8. Cardinality(Engaged') =
          IF isforget[w] THEN Cardinality(Engaged) ELSE Cardinality(Engaged) + 1
    <3>1. w \notin Engaged
      BY <1>1 DEF Engaged
    <3> QED
      BY <2>7, <3>1, EngagedFinite, FS_AddElement
  <2>9. CountsOK'
    <3>1. numworker' = Len(list') /\ numworker' <= MaxThreads
      BY <1>2, <1>6, <2>4, PoolAssumption DEF IInv, CountsOK
    <3>2. numavail' = numworker' - Cardinality(Engaged')
      BY <1>2, <1>3, <1>6, <2>8, EngagedFinite DEF IInv, CountsOK
    <3> QED
      BY <3>1, <3>2 DEF CountsOK
  <2>10. SpareOK'
    BY <1>6 DEF SpareOK
  <2> QED
    BY <2>3, <2>5, <2>6, <2>9, <2>10 DEF IInv
<1>7. CASE ~exit /\ n = 0 /\ numworker < MaxThreads
  <2>1. fuse_loop_start_thread(w, n)
    BY <1>7, <1>n DEF take
  <2>2. CASE \E v \in Workers :
               /\ worker[v] = "none"
               /\ worker' = [worker EXCEPT ![w] = "serving", ![v] = "top"]
               /\ isforget' = [isforget EXCEPT ![v] = FALSE]
               /\ list' = Append(list, v)
               /\ numavail' = n + 1
               /\ numworker' = numworker + 1
               /\ UNCHANGED failed
    BY <1>6, <1>7, <2>2
  <2>3. CASE /\ worker' = [worker EXCEPT ![w] = "serving"]
             /\ numavail' = n
             /\ failed' = TRUE
             /\ UNCHANGED <<isforget, list, numworker>>
    BY <1>5, <1>7, <2>3
  <2> QED
    BY <2>1, <2>2, <2>3 DEF fuse_loop_start_thread
<1>8. CASE ~exit /\ ~(n = 0 /\ numworker < MaxThreads)
  <2>1. /\ worker' = [worker EXCEPT ![w] = "serving"]
        /\ numavail' = n
        /\ UNCHANGED <<isforget, list, numworker, failed>>
    BY <1>8, <1>n DEF take
  <2> QED
    BY <1>2, <1>5, <1>8, <2>1
<1> QED
  BY <1>2, <1>4, <1>7, <1>8

\* The end of a request; the worker may be one too many.
LEMMA ServedStep ==
  ASSUME IInv, NEW w \in Workers, served(w)
  PROVE  IInv'
<1> DEFINE n == Available(w, 1)
<1>1. /\ worker[w] = "serving"
      /\ UNCHANGED <<exited, exit, cancelled, main, joining, isforget>>
  BY DEF served, session, mainVars
<1>2. /\ worker \in [Workers -> States] /\ isforget \in [Workers -> BOOLEAN]
      /\ list \in Seq(Workers) /\ Len(list) \in Nat
      /\ numworker \in Int /\ numavail \in Int
      /\ exit \in BOOLEAN /\ exited \in BOOLEAN /\ failed \in BOOLEAN
  BY DEF IInv, PoolTypes
<1>3. n = IF isforget[w] THEN numavail ELSE numavail + 1
  BY <1>2 DEF Available
<1>n. n = Available(w, 1)
  OBVIOUS
<1> HIDE DEF n
<1>4. ASSUME NEW x \in {"none", "top", "returned"},
             worker' = [worker EXCEPT ![w] = x]
      PROVE  /\ worker' \in [Workers -> States]
             /\ \A v \in Workers : worker'[v] = IF v = w THEN x ELSE worker[v]
             /\ Cardinality(Engaged') =
                  IF isforget[w] THEN Cardinality(Engaged)
                  ELSE Cardinality(Engaged) - 1
  <2>1. worker' \in [Workers -> States]
    BY <1>2, <1>4 DEF States
  <2>2. \A v \in Workers : worker'[v] = IF v = w THEN x ELSE worker[v]
    BY <1>2, <1>4
  <2>3. Engaged' = IF isforget[w] THEN Engaged ELSE Engaged \ {w}
    BY <1>1, <2>2 DEF Engaged, Running
  <2>4. ~isforget[w] => w \in Engaged
    BY <1>1 DEF Engaged, Running
  <2> QED
    BY <2>1, <2>2, <2>3, <2>4, EngagedFinite, FS_RemoveElement
<1>5. CASE Spare(n) /\ Drops
  <2>1. /\ list' = Delete(w) /\ numavail' = n - 1 /\ numworker' = numworker - 1
        /\ worker' = [worker EXCEPT ![w] = "none"] /\ failed' = failed
    BY <1>5, <1>n DEF served, Drop
  <2>2. PICK q : q = Delete(w)
    OBVIOUS
  <2>3. list' = q
    BY <2>1, <2>2
  <2>4. /\ q \in Seq(Workers) /\ Len(q) = Len(list) - 1
        /\ \A i, j \in 1 .. Len(q) : q[i] = q[j] => i = j
        /\ \A v \in Workers :
             (\E i \in 1 .. Len(q) : q[i] = v) <=> v # w /\ worker[v] # "none"
    BY <1>1, <2>2, DeletedList DEF IInv
  <2>5. /\ \A v \in Workers : worker'[v] = IF v = w THEN "none" ELSE worker[v]
        /\ worker' \in [Workers -> States]
        /\ Cardinality(Engaged') =
             IF isforget[w] THEN Cardinality(Engaged) ELSE Cardinality(Engaged) - 1
    BY <1>4, <2>1
  <2>6. PoolTypes'
    <3>1. numworker' \in Int /\ numavail' \in Int
      BY <1>2, <1>3, <2>1
    <3> QED
      BY <1>1, <2>1, <2>3, <2>4, <2>5, <3>1 DEF IInv, PoolTypes
  <2>7. ListOK'
    BY <2>3, <2>4, <2>5 DEF ListOK
  <2>8. joining = NoWorker
    BY <1>5 DEF Drops, IInv, EndOK
  <2>9. EndOK'
    BY <1>1, <2>5, <2>8 DEF IInv, EndOK
  <2>10. CountsOK'
    <3> SUFFICES ASSUME ~exit
                 PROVE  /\ numworker' = Len(list') /\ numworker' <= MaxThreads
                        /\ numavail' = numworker' - Cardinality(Engaged')
      BY <1>1 DEF CountsOK
    <3>1. numworker = Len(list) /\ numworker <= MaxThreads
      BY DEF IInv, CountsOK
    <3>2. numavail = numworker - Cardinality(Engaged)
      BY DEF IInv, CountsOK
    <3>3. numworker' = Len(list') /\ numworker' <= MaxThreads
      BY <1>2, <2>1, <2>3, <2>4, <3>1, PoolAssumption
    <3>4. numavail' = numworker' - Cardinality(Engaged')
      BY <1>2, <1>3, <2>1, <2>5, <3>2, EngagedFinite
    <3> QED
      BY <3>3, <3>4
  <2>11. SpareOK'
    <3>1. MaxIdle # 0 => n - 1 > 0
      BY <1>2, <1>3, <1>5, PoolAssumption DEF Spare
    <3> QED
      BY <2>1, <3>1 DEF SpareOK
  <2> QED
    BY <2>6, <2>7, <2>9, <2>10, <2>11 DEF IInv
<1>6. CASE ~(Spare(n) /\ Drops)
  <2>1. PICK x \in {"top", "returned"} :
          /\ worker' = [worker EXCEPT ![w] = x]
          /\ x = "returned" => Spare(n)
    BY <1>6, <1>n DEF served
  <2>2. numavail' = n /\ UNCHANGED <<list, numworker, failed>>
    BY <1>6, <1>n DEF served
  <2>3. /\ \A v \in Workers : worker'[v] = IF v = w THEN x ELSE worker[v]
        /\ worker' \in [Workers -> States]
        /\ Cardinality(Engaged') =
             IF isforget[w] THEN Cardinality(Engaged) ELSE Cardinality(Engaged) - 1
    BY <1>4, <2>1
  <2>4. PoolTypes'
    <3>1. numavail' \in Int
      BY <1>2, <1>3, <2>2
    <3> QED
      BY <1>1, <2>2, <2>3, <3>1 DEF IInv, PoolTypes
  <2>5. ListOK'
    BY <1>1, <2>2, <2>3 DEF IInv, ListOK
  <2>6. EndOK'
    <3>1. x = "returned" => exited
      BY <1>2, <1>6, <2>1 DEF Drops, IInv, EndOK
    <3> QED
      BY <1>1, <2>3, <3>1 DEF IInv, EndOK, PoolTypes
  <2>7. CountsOK'
    BY <1>1, <1>2, <1>3, <2>2, <2>3, EngagedFinite DEF IInv, CountsOK
  <2>8. SpareOK'
    BY <1>1, <1>2, <1>3, <2>2 DEF IInv, SpareOK
  <2> QED
    BY <2>4, <2>5, <2>6, <2>7, <2>8 DEF IInv
<1> QED
  BY <1>5, <1>6

-----------------------------------------------------------------------------
(* The steps of the main thread and of the environment.                    *)

\* The main thread moves, or the session ends; the pool does not change.
LEMMA MainStep ==
  ASSUME IInv, exited' \in BOOLEAN, exited => exited', main' \in Places,
         exit' <=> main' \in {"join", "returned"}, exit' \in BOOLEAN,
         main' \in {"close", "join", "returned"} => exited',
         cancelled' # {} => exit',
         exit => exit',
         joining' = joining, joining # NoWorker => main' = main,
         UNCHANGED <<worker, isforget, list, counters>>
  PROVE  IInv'
<1>1. UNCHANGED <<worker, isforget, list, numworker, numavail, failed>>
  BY DEF counters
<1>2. PoolTypes'
  BY <1>1 DEF IInv, PoolTypes
<1>3. ListOK'
  BY <1>1 DEF IInv, ListOK
<1>4. EndOK'
  BY <1>1 DEF IInv, EndOK
<1>5. Engaged' = Engaged
  BY <1>1 DEF Engaged, Running
<1>6. CountsOK' /\ SpareOK'
  BY <1>1, <1>5 DEF IInv, CountsOK, SpareOK
<1> QED
  BY <1>2, <1>3, <1>4, <1>6 DEF IInv

\* The worker to be joined is one of the list.
LEMMA JoinStep ==
  ASSUME IInv, join
  PROVE  IInv'
<1>1. /\ main = "join" /\ list # << >> /\ joining' = Head(list)
      /\ UNCHANGED <<exited, numworker, numavail, failed, exit, cancelled, main,
                     worker, isforget, list>>
  BY DEF join, session, counters
<1>2. list \in Seq(Workers) /\ Len(list) \in Nat
  BY DEF IInv, PoolTypes
<1>3. Len(list) >= 1 /\ Head(list) = list[1] /\ list[1] \in Workers
  BY <1>1, <1>2
<1>4. worker[list[1]] # "none"
  BY <1>3 DEF IInv, ListOK
<1>5. PoolTypes'
  BY <1>1, <1>3 DEF IInv, PoolTypes
<1>6. ListOK'
  BY <1>1 DEF IInv, ListOK
<1>7. EndOK'
  BY <1>1, <1>3, <1>4 DEF IInv, EndOK
<1>8. Engaged' = Engaged
  BY <1>1 DEF Engaged, Running
<1>9. CountsOK' /\ SpareOK'
  BY <1>1, <1>8 DEF IInv, CountsOK, SpareOK
<1> QED
  BY <1>5, <1>6, <1>7, <1>9 DEF IInv

\* It has returned, and goes from the list.
LEMMA JoinedStep ==
  ASSUME IInv, joined
  PROVE  IInv'
<1>1. /\ main = "join" /\ joining # NoWorker /\ worker[joining] = "returned"
      /\ worker' = [worker EXCEPT ![joining] = "none"]
      /\ list' = Delete(joining) /\ joining' = NoWorker
      /\ UNCHANGED <<exited, numworker, numavail, failed, exit, cancelled, main,
                     isforget>>
  BY DEF joined, session, counters
<1>2. PICK w \in Workers : w = joining
  BY <1>1 DEF IInv, PoolTypes
<1>3. PICK q : q = Delete(w)
  OBVIOUS
<1>4. list' = q
  BY <1>1, <1>2, <1>3
<1>5. /\ q \in Seq(Workers)
      /\ \A i, j \in 1 .. Len(q) : q[i] = q[j] => i = j
      /\ \A v \in Workers :
           (\E i \in 1 .. Len(q) : q[i] = v) <=> v # w /\ worker[v] # "none"
  BY <1>1, <1>2, <1>3, DeletedList DEF IInv
<1>6. /\ worker' \in [Workers -> States]
      /\ \A v \in Workers : worker'[v] = IF v = w THEN "none" ELSE worker[v]
  BY <1>1, <1>2 DEF IInv, PoolTypes, States
<1>7. PoolTypes'
  BY <1>1, <1>4, <1>5, <1>6 DEF IInv, PoolTypes
<1>8. ListOK'
  BY <1>4, <1>5, <1>6 DEF ListOK
<1>9. EndOK'
  BY <1>1, <1>6 DEF IInv, EndOK
<1>10. exit /\ exited
  BY <1>1 DEF IInv, EndOK
<1>11. CountsOK' /\ SpareOK'
  BY <1>1, <1>10 DEF CountsOK, SpareOK
<1> QED
  BY <1>7, <1>8, <1>9, <1>11 DEF IInv

\* Every step keeps the invariant.
LEMMA NextStep == IInv /\ [Next]_vars => IInv'
<1> SUFFICES ASSUME IInv, [Next]_vars PROVE IInv'
  OBVIOUS
<1>1. /\ exited \in BOOLEAN /\ exit \in BOOLEAN /\ main \in Places
      /\ exit <=> main \in {"join", "returned"}
      /\ main \in {"close", "join", "returned"} => exited
      /\ cancelled # {} => exit
      /\ joining # NoWorker => main = "join"
  BY DEF IInv, PoolTypes, EndOK
<1>2. CASE UNCHANGED vars
  <2>1. UNCHANGED <<exited, exit, main, cancelled, joining, worker, isforget,
                    list, counters>>
    BY <1>2 DEF vars, session, mainVars
  <2> QED
    BY <1>1, <2>1, MainStep
<1>3. CASE test
  <2>1. /\ main = "test" /\ main' \in {"close", "enter"}
        /\ main' = "close" => exited
        /\ UNCHANGED <<exited, exit, cancelled, joining, worker, isforget, list,
                       counters>>
    BY <1>3 DEF test, MainAt, session
  <2> QED
    BY <1>1, <2>1, MainStep DEF Places
<1>4. CASE enter \/ wake
  <2>1. /\ main \in {"enter", "asleep"} /\ main' \in {"asleep", "test"}
        /\ UNCHANGED <<exited, exit, cancelled, joining, worker, isforget, list,
                       counters>>
    BY <1>4 DEF enter, wake, MainAt, session
  <2> QED
    BY <1>1, <2>1, MainStep DEF Places
<1>5. CASE close
  <2>1. /\ main = "close" /\ main' = "join" /\ exit' = TRUE
        /\ UNCHANGED <<exited, joining, worker, isforget, list, counters>>
    BY <1>5 DEF close, MainAt, session
  <2> QED
    BY <1>1, <2>1, MainStep DEF Places
<1>6. CASE return
  <2>1. /\ main = "join" /\ main' = "returned" /\ joining = NoWorker
        /\ UNCHANGED <<exited, exit, cancelled, joining, worker, isforget, list,
                       counters>>
    BY <1>6 DEF return, MainAt, session
  <2> QED
    BY <1>1, <2>1, MainStep DEF Places
<1>7. CASE umount
  <2>1. UNCHANGED <<exited, exit, main, cancelled, joining, worker, isforget,
                    list, counters>>
    BY <1>7 DEF umount, mainVars
  <2> QED
    BY <1>1, <2>1, MainStep
<1>8. CASE exit_handler
  <2>1. /\ exited' = TRUE /\ main' = IF main = "asleep" THEN "test" ELSE main
        /\ UNCHANGED <<exit, cancelled, joining, worker, isforget, list, counters>>
    BY <1>8 DEF exit_handler
  <2> QED
    BY <1>1, <2>1, MainStep DEF Places
<1>9. CASE join
  BY <1>9, JoinStep
<1>10. CASE joined
  BY <1>10, JoinedStep
<1>11. ASSUME NEW w \in Workers, take(w) PROVE IInv'
  BY <1>11, TakeStep
<1>12. ASSUME NEW w \in Workers, served(w) PROVE IInv'
  BY <1>12, ServedStep
<1>13. ASSUME NEW w \in Workers,
              \/ top(w) \/ leave(w) \/ interrupted(w) \/ readError(w) \/ cancel(w)
              \/ \E forget \in BOOLEAN : receive(w, forget)
       PROVE  IInv'
  BY <1>13, IdleStep
<1> QED
  BY <1>2, <1>3, <1>4, <1>5, <1>6, <1>7, <1>8, <1>9, <1>10, <1>11, <1>12, <1>13
     DEF Next, Main, Proceed

-----------------------------------------------------------------------------
(* The theorems.                                                           *)

\* The invariant holds always.
LEMMA Invariance == Spec => []IInv
BY InitInv, NextStep, PTL DEF Spec

\* The list is exactly the threads that run, and while the loop runs the
\* counters are exact and the limit is kept.
THEOREM PoolCountsRight == Spec => []PoolCounts
BY Invariance, Consequences, PTL

\* The main thread never joins a worker that has detached itself.
THEOREM JoinsOnlyOwn == Spec => []JoinsOwn
BY Invariance, Consequences, PTL

\* Below the limit a worker is left to read the next request, for every
\* number of idle workers but none.
THEOREM ReaderLeft == Spec => []SomeoneReads
BY Invariance, Consequences, PTL
=============================================================================
