---------------------------- MODULE MCMPMCQueue -----------------------------
(***************************************************************************)
(* Model of MPMCQueue for TLC: threads 1 and 2 share a machine, thread 3   *)
(* runs on another one.                                                    *)
(***************************************************************************)
EXTENDS MPMCQueue

TwoMachines == [t \in Threads |-> IF t = 3 THEN "B" ELSE "A"]
=============================================================================
