----------------------------- MODULE MCMemTable -----------------------------
(***************************************************************************)
(* Small instances of MemTable for TLC.                                    *)
(***************************************************************************)
EXTENDS MemTable

CONSTANT r1

MCLength == [k \in Keys |-> IF k = 1 THEN 1 ELSE 3]
=============================================================================
