------------------------------ MODULE MCLruList ------------------------------
(***************************************************************************)
(* Small instance of LruList: elements and goroutines are model values and *)
(* interchangeable.                                                        *)
(***************************************************************************)
EXTENDS LruList, TLC

Symmetry == Permutations(Elem) \cup Permutations(Goroutine)
===============================================================================
