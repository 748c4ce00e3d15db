----------------------------- MODULE MCLsmTree ------------------------------
(***************************************************************************)
(* Small instances of LsmTree for TLC.                                     *)
(***************************************************************************)
EXTENDS LsmTree

\* Output files of one entry, without snapshots, with no manual compaction
\* and with those of the first key; a snapshot, with output files that hold
\* all entries of a key.
OneKey    == {<<1, 1>>}
MCOptions == {[target |-> 1, keys |-> 1..3, snapshots |-> 0, ranges |-> {}],
              [target |-> 1, keys |-> 1..3, snapshots |-> 0, ranges |-> OneKey],
              [target |-> 9, keys |-> 1..2, snapshots |-> 1, ranges |-> {}]}
\* Output files of one entry with a snapshot.
MCSplit   == {[target |-> 1, keys |-> 1..2, snapshots |-> 1, ranges |-> {}]}
=============================================================================
