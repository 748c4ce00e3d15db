----------------------------- MODULE MCRecovery -----------------------------
(***************************************************************************)
(* Small instances of Recovery and Repair for TLC.                         *)
(***************************************************************************)
EXTENDS Repair

PutOne == Put(EmptyBatch, 1, 0)
DelOne == AppendBatch(EmptyBatch, Delete(EmptyBatch, 1))

MCReadDir == <<"CURRENT", "MANIFEST", "log", "ldb", "dbtmp", "LOCK">>

MCRequests == {<<PutOne, TRUE>>, <<DelOne, FALSE>>}
=============================================================================
