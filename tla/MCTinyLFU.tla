------------------------------- MODULE MCTinyLFU -------------------------------
(***************************************************************************)
(* Small instances of TinyLFU.  Keys a and b share a column of row 1 in    *)
(* even generations and of row 2 in odd ones, and one bit of every         *)
(* doorkeeper, where b's two bits are the same.                            *)
(***************************************************************************)
EXTENDS TinyLFU, TLC

MCKey == {"a", "b"}
MCColumn == {0, 1}
MCBit == {0, 1}
MCColumnOf(g, r, k) == IF k = "a" \/ (g + r) % 2 = 1 THEN 0 ELSE 1
MCBitOf(g, i, k) == IF k = "a" THEN i % 2 ELSE 0
Symmetry == Permutations(Call)
===============================================================================
