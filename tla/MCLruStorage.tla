----------------------------- MODULE MCLruStorage -----------------------------
(***************************************************************************)
(* Small instances of LruStorage: resources a, b, c; a and b collide where *)
(* the instance says so.                                                   *)
(***************************************************************************)
EXTENDS LruStorage, TLC

MCColliding == ("a" :> 1) @@ ("b" :> 1) @@ ("c" :> 2)
MCSame == ("a" :> 1) @@ ("b" :> 1)
MCTwo == ("a" :> 1) @@ ("b" :> 2)

MCOne == <<1>>          \* a single version
MCEven == <<1, 1>>      \* versions 1 and 2 weigh the same
MCShrink == <<2, 1>>
MCSharp == <<1, 2>>     \* versions told apart
Symmetry == Permutations(Handler)
===============================================================================
