------------------------------ MODULE MCDBImpl ------------------------------
(***************************************************************************)
(* Small instances of DBImpl for TLC.                                      *)
(***************************************************************************)
EXTENDS DBImpl, TLC

CONSTANTS w1, w2, w3, c1, c2

Put     == [n |-> 1, sync |-> FALSE, null |-> FALSE]
PutSync == [n |-> 1, sync |-> TRUE, null |-> FALSE]
Put2    == [n |-> 2, sync |-> FALSE, null |-> FALSE]
Flush   == [n |-> 0, sync |-> FALSE, null |-> TRUE]

MCGroups == {Put, Put2, PutSync, Flush}
MCBrief  == {PutSync, Flush}
MCCalls  == {Put, PutSync, Flush}

Load(f) == [t \in Writers \cup Compactors |-> IF t \in DOMAIN f THEN f[t] ELSE <<>>]
Once(r) == <<{r}>>
Compact == <<{}>>

\* One call of each writer.
MCGroupLoads == {[t \in Writers |-> <<MCGroups>>]}

\* Three calls beside a manual compaction.
MCWorkLoads  == {Load(w1 :> <<MCBrief, MCBrief, MCBrief>> @@ c1 :> Compact)}

\* Two callers of TEST_CompactRange when there is a table; a memtable switch
\* while a compaction runs; a writer and TEST_CompactMemTable at the level-0
\* stop limit; a group of two behind a leader.
MCReturnLoads ==
    {Load(w1 :> Once(PutSync) \o Once(Flush) @@ c1 :> Compact @@ c2 :> Compact),
     Load(w1 :> Once(Put) \o Once(Put) \o Once(Put)),
     Load(w1 :> Once(PutSync) \o Once(PutSync) @@ w2 :> Once(Flush)),
     Load(w1 :> Once(PutSync) @@ w2 :> Once(PutSync) @@ w3 :> Once(Flush))}

MCSymmetry == Permutations(Writers)
=============================================================================
