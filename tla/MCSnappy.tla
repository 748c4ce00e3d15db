------------------------------ MODULE MCSnappy ------------------------------
(***************************************************************************)
(* The blocks of the Snappy run: up to three pieces, chosen so that there  *)
(* are matches at a distance of 1, of 2 and of more than 255, matches too  *)
(* long for one copy, literals that need a length of their own, stretches  *)
(* in which the scan skips bytes, and blocks of two fragments.             *)
(***************************************************************************)
EXTENDS Snappy

CONSTANT MaxPieces

Same == [i \in 1..70 |-> 7]
Pairs == [i \in 1..9 |-> IF i % 2 = 0 THEN 8 ELSE 9]
Up == [i \in 1..130 |-> i]
Down == [i \in 1..126 |-> 256 - i]
Five == <<3, 4, 5, 6, 7>>

Pieces == {Same, Pairs, Up, Down, Five}

Blocks == {FlattenSeq(s) : s \in UNION {[1..n -> Pieces] : n \in 0..MaxPieces}}

=============================================================================
