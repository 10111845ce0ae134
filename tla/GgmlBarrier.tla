------------------------------ MODULE GgmlBarrier ------------------------------
(***************************************************************************)
(* ggml_barrier of ggml-cpu.c: the reusable barrier at which the threads   *)
(* of a pool meet after every node of a graph.  Threads 0..nThreadsCur-1   *)
(* take part.  trips is a history variable: how many barriers a thread has *)
(* gone through since its pool was made.  Memory is sequentially           *)
(* consistent, which the full fences at both ends of the code are for.     *)
(***************************************************************************)
EXTENDS Integers, FiniteSets

CONSTANT MaxThreads       \* threads a pool may have

ASSUME MaxThreadsAssumption == MaxThreads \in Nat \ {0}

VARIABLES nThreadsCur,    \* n_threads_cur
          nBarrier,       \* n_barrier: threads that have arrived
          nBarrierPassed, \* n_barrier_passed: how often the barrier has opened
          gate,           \* how far each thread is inside ggml_barrier
          seen,           \* its n_passed
          trips

barrierVars == <<nThreadsCur, nBarrier, nBarrierPassed, gate, seen, trips>>

Threads == 0..(MaxThreads - 1)
Team == 0..(nThreadsCur - 1)

Gates == {"out", "loaded", "waiting", "last", "reset"}

BarrierTypeOK ==
  /\ nThreadsCur \in 1..MaxThreads
  /\ nBarrier \in 0..MaxThreads
  /\ nBarrierPassed \in Nat
  /\ gate \in [Threads -> Gates]
  /\ seen \in [Threads -> Nat]
  /\ trips \in [Threads -> Nat]

\* A pool as ggml_threadpool_new_impl leaves it, for n threads.
NewBarrier(n) ==
  /\ nThreadsCur' = n
  /\ nBarrier' = 0 /\ nBarrierPassed' = 0
  /\ gate' = [t \in Threads |-> "out"]
  /\ seen' = [t \in Threads |-> 0]
  /\ trips' = [t \in Threads |-> 0]

BarrierInit ==
  /\ nThreadsCur = 1
  /\ nBarrier = 0 /\ nBarrierPassed = 0
  /\ gate = [t \in Threads |-> "out"]
  /\ seen = [t \in Threads |-> 0]
  /\ trips = [t \in Threads |-> 0]

-------------------------------------------------------------------------------
(***************************************************************************)
(* Plausible bugs, each substituted for the action of like name.           *)
(***************************************************************************)

\* Lets go one thread too early.
IsLast_Early == nBarrier = nThreadsCur - 2

\* Leaves n_barrier as it is.
ResetCount_Forgotten(t) ==
  /\ gate[t] = "last"
  /\ gate' = [gate EXCEPT ![t] = "reset"]
  /\ UNCHANGED <<nThreadsCur, nBarrier, nBarrierPassed, seen, trips>>

-------------------------------------------------------------------------------
\* A team of one does not wait.
Skip(t) ==
  /\ nThreadsCur = 1
  /\ trips' = [trips EXCEPT ![t] = @ + 1]
  /\ UNCHANGED <<nThreadsCur, nBarrier, nBarrierPassed, gate, seen>>

\* n_passed is read before the thread is counted.
LoadPassed(t) ==
  /\ nThreadsCur # 1
  /\ gate[t] = "out"
  /\ gate' = [gate EXCEPT ![t] = "loaded"]
  /\ seen' = [seen EXCEPT ![t] = nBarrierPassed]
  /\ UNCHANGED <<nThreadsCur, nBarrier, nBarrierPassed, trips>>

IsLast == nBarrier = nThreadsCur - 1

\* The atomic increment of n_barrier tells the last thread from the others.
Arrive(t) ==
  /\ gate[t] = "loaded"
  /\ nBarrier' = nBarrier + 1
  /\ gate' = [gate EXCEPT ![t] = IF IsLast THEN "last" ELSE "waiting"]
  /\ UNCHANGED <<nThreadsCur, nBarrierPassed, seen, trips>>

ResetCount(t) ==
  /\ gate[t] = "last"
  /\ nBarrier' = 0
  /\ gate' = [gate EXCEPT ![t] = "reset"]
  /\ UNCHANGED <<nThreadsCur, nBarrierPassed, seen, trips>>

Through(t) ==
  /\ gate' = [gate EXCEPT ![t] = "out"]
  /\ trips' = [trips EXCEPT ![t] = @ + 1]

OpenBarrier(t) ==
  /\ gate[t] = "reset"
  /\ nBarrierPassed' = nBarrierPassed + 1
  /\ Through(t)
  /\ UNCHANGED <<nThreadsCur, nBarrier, seen>>

\* The spinning loop ends.
SeeItOpen(t) ==
  /\ gate[t] = "waiting"
  /\ nBarrierPassed # seen[t]
  /\ Through(t)
  /\ UNCHANGED <<nThreadsCur, nBarrier, nBarrierPassed, seen>>

\* The steps inside ggml_barrier, and those that return from it.
Inside(t) == LoadPassed(t) \/ Arrive(t) \/ ResetCount(t)
Return(t) == Skip(t) \/ OpenBarrier(t) \/ SeeItOpen(t)

-------------------------------------------------------------------------------
\* How often a thread has been counted at the barrier.
Arrivals(t) == trips[t] + IF gate[t] \in {"waiting", "last", "reset"} THEN 1 ELSE 0

\* No thread goes through a barrier that another has yet to reach: what one
\* thread computes after a barrier, it computes after what the others have
\* computed before it (ggml_barrier, ggml-cpu.c:529-565).
BarrierSafe == \A t, u \in Team : trips[t] <= Arrivals(u)
===============================================================================
