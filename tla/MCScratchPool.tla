----------------------------- MODULE MCScratchPool -----------------------------
(***************************************************************************)
(* The goroutines are interchangeable: nothing in ScratchPool chooses      *)
(* among them.                                                             *)
(***************************************************************************)
EXTENDS ScratchPool, TLC

Goroutines == Permutations(Goroutine)
===============================================================================
