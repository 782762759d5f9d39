----------------------------- MODULE MCShmLock ------------------------------
(* Instances of ShmLock for TLC.                                           *)
EXTENDS ShmLock

\* Threads 1 and 2 share machine 0; each other thread has its own machine.
SharedFirst == [t \in Threads |-> IF t <= 2 THEN 0 ELSE t - 2]
=============================================================================
