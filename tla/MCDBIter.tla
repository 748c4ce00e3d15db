------------------------------ MODULE MCDBIter ------------------------------
(***************************************************************************)
(* A small instance of DBIter: three keys that differ in length and bytes  *)
(* (the largest byte is 3), histories of four updates in which every       *)
(* update may be a deletion, blocks of one or two entries.                 *)
(***************************************************************************)
EXTENDS DBIter

Ka == <<0, 2>>
Kb == <<2>>
Kc == <<3, 0>>
MCKeys == {Ka, Kb, Kc}
MCPatterns == {<<Kb, Ka, Kc, Kb>>}
MCHistories == {[i \in 1..4 |-> <<p[i], types[i]>>] :
                   p \in MCPatterns, types \in [1..4 -> {kDeletion, kValue}]}
MCHash(key) == IF Len(key) = 1 THEN 37 ELSE 85 + 61 * key[1]
MCCompressed(n) == IF n > 6 THEN n - 2 ELSE n
=============================================================================
