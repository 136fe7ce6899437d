----------------------------- MODULE WorkerPool -----------------------------
(***************************************************************************)
(* The worker threads that run the handlers unless -s is given             *)
(* (fuse-3.17.2/lib/fuse_loop_mt.c): how workers are started and dropped,  *)
(* and how the loop ends when the file system is unmounted or a signal     *)
(* arrives.  Sections under mt->lock are one action each.                  *)
(*                                                                         *)
(* Left out: allocation failures, cloned channels, and the first thread    *)
(* failing to start, with which the loop returns at once.                  *)
(***************************************************************************)
EXTENDS Integers, Sequences, FiniteSets, Functions

CONSTANTS
  Workers,     \* names for worker threads
  NoWorker,    \* not one of them
  MaxThreads,  \* mt->max_threads, 10 by default
  MaxIdle      \* mt->max_idle, -1 by default: idle workers are kept

ASSUME PoolAssumption ==
  /\ IsFiniteSet(Workers) /\ NoWorker \notin Workers
  /\ MaxThreads \in 1 .. Cardinality(Workers)
  /\ MaxIdle \in Nat \cup {-1}

VARIABLES
  mounted,    \* the kernel still holds the connection
  exited,     \* se->exited
  signalled,  \* a signal has arrived (history)
  failed,     \* some thread could not be started (history)
  worker,     \* where each thread is in fuse_do_work, "none" if it does not run
  isforget,   \* of the request that the worker handles
  list,       \* the list of workers that starts at mt->main
  numworker, numavail,
  exit,       \* mt->exit
  cancelled,  \* the threads that pthread_cancel was called on
  finish,     \* the semaphore
  main,       \* where the main thread is in fuse_session_loop_mt
  joining     \* the worker it waits for, NoWorker if none

session  == <<mounted, exited, signalled>>
counters == <<numworker, numavail, failed>>
mainVars == <<exit, cancelled, main, joining>>
vars == <<session, counters, mainVars, worker, isforget, list, finish>>

\* list_del_worker.
Delete(w) ==
  LET at == CHOOSE i \in 1 .. Len(list) : list[i] = w
  IN  [i \in 1 .. Len(list) - 1 |-> list[IF i < at THEN i ELSE i + 1]]

-----------------------------------------------------------------------------
(* fuse_do_work.                                                           *)

\* The test of the loop.
top(w) ==
  /\ worker[w] = "top" /\ ~exited
  /\ worker' = [worker EXCEPT ![w] = "reading"]
  /\ UNCHANGED <<session, counters, mainVars, isforget, list, finish>>

\* Mutant: the main thread is not told.
LeaveSilently(w) ==
  /\ worker' = [worker EXCEPT ![w] = "returned"]
  /\ UNCHANGED <<finish, mounted, signalled, counters, mainVars, isforget, list>>

\* The loop is left and the main thread told.
Leave(w) ==
  /\ worker' = [worker EXCEPT ![w] = "returned"]
  /\ finish' = finish + 1
  /\ UNCHANGED <<mounted, signalled, counters, mainVars, isforget, list>>

leave(w) ==
  /\ worker[w] = "top" /\ exited
  /\ Leave(w)
  /\ UNCHANGED exited

\* A request arrives; what is read after the session has ended is dropped.
receive(w, forget) ==
  /\ worker[w] = "reading" /\ mounted
  /\ IF exited THEN Leave(w) /\ UNCHANGED exited
     ELSE /\ worker' = [worker EXCEPT ![w] = "got"]
          /\ isforget' = [isforget EXCEPT ![w] = forget]
          /\ UNCHANGED <<session, counters, mainVars, list, finish>>

\* read returns -EINTR.
interrupted(w) ==
  /\ worker[w] = "reading" /\ mounted /\ ~exited
  /\ worker' = [worker EXCEPT ![w] = "top"]
  /\ UNCHANGED <<session, counters, mainVars, isforget, list, finish>>

\* ENODEV once the file system is unmounted, or another error at any time.
readError(w) ==
  /\ worker[w] = "reading"
  /\ exited' = TRUE
  /\ Leave(w)

\* pthread_cancel takes effect in read only.
cancel(w) ==
  /\ worker[w] = "reading" /\ w \in cancelled
  /\ worker' = [worker EXCEPT ![w] = "returned"]
  /\ UNCHANGED <<session, counters, mainVars, isforget, list, finish>>

\* Mutant: the end of a forget counts as a worker more.
AvailableForget(w, k) == IF k < 0 /\ isforget[w] THEN numavail ELSE numavail + k

\* mt->numavail with one more or one less; a worker with a forget stays free.
Available(w, k) == IF isforget[w] THEN numavail ELSE numavail + k

\* fuse_loop_start_thread, for the worker w that has left n available; it may
\* fail, and nobody asks.
fuse_loop_start_thread(w, n) ==
  \/ \E v \in Workers :
       /\ worker[v] = "none"
       /\ worker' = [worker EXCEPT ![w] = "serving", ![v] = "top"]
       /\ isforget' = [isforget EXCEPT ![v] = FALSE]
       /\ list' = Append(list, v)
       /\ numavail' = n + 1
       /\ numworker' = numworker + 1
       /\ UNCHANGED failed
  \/ /\ worker' = [worker EXCEPT ![w] = "serving"]
     /\ numavail' = n
     /\ failed' = TRUE
     /\ UNCHANGED <<isforget, list, numworker>>

\* From the request to its handler.
take(w) ==
  LET n == Available(w, -1) IN
  /\ worker[w] = "got"
  /\ IF exit
     THEN /\ worker' = [worker EXCEPT ![w] = "returned"]
          /\ UNCHANGED <<counters, isforget, list>>
     ELSE IF n = 0 /\ numworker < MaxThreads
     THEN fuse_loop_start_thread(w, n)
     ELSE /\ worker' = [worker EXCEPT ![w] = "serving"]
          /\ numavail' = n
          /\ UNCHANGED <<isforget, list, numworker, failed>>
  /\ UNCHANGED <<session, mainVars, finish>>

\* The worker goes for good.
Drop(w, n) ==
  /\ list' = Delete(w)
  /\ numavail' = n - 1
  /\ numworker' = numworker - 1
  /\ worker' = [worker EXCEPT ![w] = "none"]
  /\ UNCHANGED failed

\* Mutant: one idle worker too few.
SpareEarly(n) == MaxIdle # -1 /\ n >= MaxIdle /\ numworker > 1

\* More workers are free than should be.
Spare(n) == MaxIdle # -1 /\ n > MaxIdle /\ numworker > 1

\* Mutant: a worker leaves the list while the main thread walks it.
DropsAlways == TRUE

\* The main thread does not join workers yet.
Drops == ~exit

\* The handler has returned; a worker too many drops itself.
served(w) ==
  LET n == Available(w, 1) IN
  /\ worker[w] = "serving"
  /\ IF Spare(n) /\ Drops
     THEN Drop(w, n)
     ELSE /\ worker' = [worker EXCEPT ![w] = IF Spare(n) THEN "returned" ELSE "top"]
          /\ numavail' = n
          /\ UNCHANGED <<list, numworker, failed>>
  /\ UNCHANGED <<session, mainVars, isforget, finish>>

-----------------------------------------------------------------------------
(* The main thread in fuse_session_loop_mt.                                *)

MainAt(from, to) == main = from /\ main' = to

\* while (!fuse_session_exited(se)) sem_wait(&mt.finish), in three steps.
test ==
  /\ \/ exited /\ MainAt("test", "close")
     \/ ~exited /\ MainAt("test", "enter")
  /\ UNCHANGED <<session, counters, exit, cancelled, joining, worker, isforget,
                 list, finish>>

enter ==
  /\ MainAt("enter", "asleep")
  /\ UNCHANGED <<session, counters, exit, cancelled, joining, worker, isforget,
                 list, finish>>

wake ==
  /\ MainAt("asleep", "test") /\ finish > 0
  /\ finish' = finish - 1
  /\ UNCHANGED <<session, counters, exit, cancelled, joining, worker, isforget,
                 list>>

\* All workers are cancelled and told, in one critical section.
close ==
  /\ MainAt("close", "join")
  /\ cancelled' = Range(list)
  /\ exit' = TRUE
  /\ UNCHANGED <<session, counters, joining, worker, isforget, list, finish>>

\* fuse_join_worker: the first of the list, until its thread has returned.
join ==
  /\ main = "join" /\ joining = NoWorker /\ list # << >>
  /\ joining' = Head(list)
  /\ UNCHANGED <<session, counters, exit, cancelled, main, worker, isforget,
                 list, finish>>

joined ==
  /\ main = "join" /\ joining # NoWorker
  /\ worker[joining] = "returned"
  /\ worker' = [worker EXCEPT ![joining] = "none"]
  /\ list' = Delete(joining)
  /\ joining' = NoWorker
  /\ UNCHANGED <<session, counters, exit, cancelled, main, isforget, finish>>

return ==
  /\ MainAt("join", "returned") /\ joining = NoWorker /\ list = << >>
  /\ UNCHANGED <<session, counters, exit, cancelled, joining, worker, isforget,
                 list, finish>>

-----------------------------------------------------------------------------
(* The environment.                                                        *)

umount ==
  /\ mounted /\ mounted' = FALSE
  /\ UNCHANGED <<exited, signalled, counters, mainVars, worker, isforget, list,
                 finish>>

\* exit_handler: workers block the signal, so the main thread gets it, and
\* sem_wait returns if it is there.
exit_handler ==
  /\ ~signalled /\ main # "returned"
  /\ exited' = TRUE /\ signalled' = TRUE
  /\ main' = IF main = "asleep" THEN "test" ELSE main
  /\ UNCHANGED <<mounted, counters, exit, cancelled, joining, worker, isforget,
                 list, finish>>

-----------------------------------------------------------------------------
\* One worker has been started.
Init ==
  /\ mounted = TRUE /\ exited = FALSE /\ signalled = FALSE /\ failed = FALSE
  /\ \E w \in Workers :
       /\ list = <<w>>
       /\ worker = [v \in Workers |-> IF v = w THEN "top" ELSE "none"]
  /\ isforget = [w \in Workers |-> FALSE]
  /\ numworker = 1 /\ numavail = 1
  /\ exit = FALSE /\ cancelled = {} /\ finish = 0
  /\ main = "test" /\ joining = NoWorker

\* What a worker does without waiting for users or the kernel.
Proceed(w) ==
  \/ top(w)
  \/ leave(w)
  \/ cancel(w)
  \/ take(w)
  \/ served(w)
  \/ ~mounted /\ readError(w)

Main == test \/ enter \/ wake \/ close \/ join \/ joined \/ return

Next ==
  \/ Main
  \/ umount
  \/ exit_handler
  \/ \E w \in Workers :
       \/ Proceed(w)
       \/ mounted /\ readError(w)
       \/ interrupted(w)
       \/ \E forget \in BOOLEAN : receive(w, forget)

\* Threads keep running, handlers return, and a disconnected or cancelled
\* read returns; requests and signals need not come.
Fairness == WF_vars(Main) /\ \A w \in Workers : WF_vars(Proceed(w))

Spec == Init /\ [][Next]_vars /\ Fairness

-----------------------------------------------------------------------------
(* Properties.                                                             *)

Running == {w \in Workers : worker[w] # "none"}
Engaged == {w \in Running : worker[w] = "serving" /\ ~isforget[w]}

\* The list holds exactly the threads there are, so none outlives the loop
\* whose stack they share; while the loop runs the counters tell how many
\* there are, never more than allowed, and how many are free.
PoolCounts ==
  /\ Range(list) = Running /\ Cardinality(Running) = Len(list)
  /\ main # "join" /\ main # "returned" =>
       /\ numworker = Len(list) /\ numworker <= MaxThreads
       /\ numavail = numworker - Cardinality(Engaged)

\* The worker that the main thread waits for is still its to join: it has not
\* detached and freed itself meanwhile.
JoinsOwn == joining # NoWorker => joining \in Running

\* Below the limit some worker is free to read the next request, unless a
\* thread could not be started or the free one has a forget.  With no idle
\* worker allowed this would fail: a worker that drops itself then may be the
\* only one that is not busy.
SomeoneReads ==
  /\ MaxIdle # 0 /\ ~exited /\ ~failed /\ numworker < MaxThreads
  /\ \A w \in Running : worker[w] = "serving" => ~isforget[w]
  => \E w \in Running : worker[w] \in {"top", "reading", "got"}

\* When the file system is unmounted the loop ends, with all its threads.
UnmountEnds == ~mounted ~> main = "returned"

\* A signal that arrives after the main thread has tested the flag and before
\* it sleeps does not wake it.  The loop ends all the same as soon as some
\* worker comes back to the top of its own loop, after a request, say.
SignalEnds ==
  (signalled /\ \E w \in Workers : worker[w] = "top") ~> main = "returned"
=============================================================================
