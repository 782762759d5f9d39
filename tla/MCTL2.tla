------------------------------- MODULE MCTL2 -------------------------------
(***************************************************************************)
(* Instances of TL2: two threads sharing two words, and a heap block p     *)
(* that only t1 frees.                                                     *)
(***************************************************************************)
EXTENDS TL2
CONSTANTS t1, t2, x, y, p, lx, ly, lp

MCPSLOCK == [a \in Addr |-> CASE a = x -> lx [] a = y -> ly [] a = p -> lp]

MCReach == [t \in Thread |-> {x, y}]

MCBlocks == [t \in Thread |-> IF t = t1 THEN {p} ELSE {}]

\* The words after the block, which txSterilize visits too because it counts
\* Length bytes as words (End = Addr + Length), are no transaction's here.
MCSweepBlock == [a \in Addr |-> {PSLOCK[a]}]

\* What the theorems about TL2 assume of a program that frees memory.
ASSUME FreesApart
=============================================================================
