------------------------------ MODULE TreeLock ------------------------------
(***************************************************************************)
(* What libfuse's path locks promise the handlers that run between         *)
(* get_path and free_path on several threads: a request that works on a    *)
(* path has that path and the directories above it for reading, one that   *)
(* removes a name has the name for writing, and nobody else has it.        *)
(***************************************************************************)
CONSTANTS Threads, Nodes

VARIABLES
  rd,   \* the nodes each thread has for reading
  wr    \* the nodes each thread has for writing

vars == <<rd, wr>>

None == [t \in Threads |-> {}]

\* The locks R for reading and W for writing suit those that others hold.
Compatible(t, R, W) ==
  \A s \in Threads \ {t} : /\ W \cap (rd[s] \cup wr[s]) = {}
                           /\ R \cap wr[s] = {}

Grant(t, R, W) ==
  /\ rd[t] = {} /\ wr[t] = {}
  /\ Compatible(t, R, W)
  /\ rd' = [rd EXCEPT ![t] = R]
  /\ wr' = [wr EXCEPT ![t] = W]

\* All locks of a request go at once.
Release(t) ==
  /\ rd' = [rd EXCEPT ![t] = {}]
  /\ wr' = [wr EXCEPT ![t] = {}]

Init == rd = None /\ wr = None

Next ==
  \E t \in Threads :
    \/ Release(t)
    \/ \E R, W \in SUBSET Nodes : Grant(t, R, W)

Spec == Init /\ [][Next]_vars
=============================================================================
