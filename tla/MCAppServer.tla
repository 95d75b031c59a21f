----------------------------- MODULE MCAppServer -----------------------------
(* Small instances of AppServer. *)
EXTENDS AppServer

CONSTANTS c1, c2, n1, k1, t1, t2

\* Over a pool of one worker, two turns of one thread that name models with a
\* kill of it, and two turns of different threads with a kill of the first's.
\* Over a pool of two, two turns of one thread may both start its worker.
Threading(second) ==
    [c \in {c1, c2, n1, k1} |-> CASE c \in {c1, k1} -> t1 [] c = n1 -> t2 [] c = c2 -> second]
SomeScenarios ==
    {[thread |-> Threading(t1), naming |-> {c1, c2}, max |-> 1],
     [thread |-> Threading(t2), naming |-> {}, max |-> 1],
     [thread |-> Threading(t1), naming |-> {}, max |-> 2]}

\* The new thread is left out where the pool has two workers.
PoolSpec == Init /\ [][Next /\ (max = 2 => pc'[n1] = "new")]_vars /\ Fairness
=============================================================================
