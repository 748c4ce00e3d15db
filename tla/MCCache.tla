------------------------------ MODULE MCCache ------------------------------
(***************************************************************************)
(* Small instances of Cache for TLC.                                       *)
(***************************************************************************)
EXTENDS Cache, TLC

CONSTANTS t1, t2

MCHash   == [f \in Files |-> 2 * f + 1]         \* collide in short tables
MCCharge == [f \in Files |-> IF f = 2 THEN 2 ELSE 1]

MCPieces == [f \in Files |-> CASE f = 1 -> <<<<1, 2, 3>>>>
                               [] f = 2 -> <<<<4>>, <<5, 6>>, <<>>, <<7, 8>>>>
                               [] OTHER -> <<<<>>>>]

MCSymmetry == Permutations(Threads)
=============================================================================
