----------------------------- MODULE WriteBatch -----------------------------
(***************************************************************************)
(* WriteBatch: a header with the sequence number and the count, followed   *)
(* by the updates.  The same bytes are the payload of a log record, so     *)
(* that recovery iterates over what the writer put there.  A tag or a      *)
(* length-prefixed slice is one token, as are the two fields of the        *)
(* header.                                                                 *)
(***************************************************************************)
EXTENDS Integers, Sequences, SequencesExt

kTypeDeletion == "del"
kTypeValue    == "val"

kHeader == 2
EmptyBatch == <<0, 0>>                    \* WriteBatch::Clear

Sequence(rep) == rep[1]
Count(rep)    == rep[2]
SetSequence(rep, seq) == [rep EXCEPT ![1] = seq]
SetCount(rep, n)      == [rep EXCEPT ![2] = n]

Put(rep, key, value) == SetCount(rep, Count(rep) + 1) \o <<kTypeValue, key, value>>
Delete(rep, key)     == SetCount(rep, Count(rep) + 1) \o <<kTypeDeletion, key>>

(* WriteBatchInternal::Append: the updates of src after those of dst.      *)
AppendBatch(dst, src) ==
    SetCount(dst, Count(dst) + Count(src)) \o SubSeq(src, kHeader + 1, Len(src))

(* WriteBatch::Iterate over MemTableInserter: the entries that were added  *)
(* before the end or before the first error, numbered from the sequence    *)
(* number of the batch.                                                    *)
Width(tag) == CASE tag = kTypeValue -> 3 [] tag = kTypeDeletion -> 2 [] OTHER -> 0
InsertInto(rep) ==
    LET Fits(i) == Width(rep[i]) > 0 /\ i + Width(rep[i]) - 1 <= Len(rep)
        Entry(i, n) == [key |-> rep[i + 1], seq |-> Sequence(rep) + n, type |-> rep[i]]
        Step(s, i) ==
            IF ~s.ok \/ s.pos > Len(rep) THEN s
            ELSE IF ~Fits(s.pos) THEN [s EXCEPT !.ok = FALSE]
            ELSE [s EXCEPT !.pos = @ + Width(rep[s.pos]), !.found = @ + 1,
                           !.entries = @ \cup {Entry(s.pos, s.found)}]
        end == FoldLeft(Step, [pos |-> kHeader + 1, ok |-> Len(rep) >= kHeader,
                               found |-> 0, entries |-> {}], rep)
    IN  [ok |-> end.ok /\ end.found = Count(rep), entries |-> end.entries]
=============================================================================
