----------------------------- MODULE VersionEdit -----------------------------
(***************************************************************************)
(* VersionEdit: one record of a MANIFEST, its encoding as tags followed by *)
(* their arguments, and its decoding, which rejects a record with an       *)
(* unknown tag or with arguments missing.  A varint or a length-prefixed   *)
(* slice is one token.                                                     *)
(***************************************************************************)
EXTENDS Integers, Sequences, SequencesExt

CONSTANTS
    NumLevels,     \* config::kNumLevels
    Missing        \* a field whose has_x_ is false, or an empty compact pointer

kComparator     == "comparator"
kLogNumber      == "log number"
kNextFileNumber == "next file"
kLastSequence   == "last sequence"
kCompactPointer == "compact pointer"
kDeletedFile    == "deleted file"
kNewFile        == "new file"
kPrevLogNumber  == "previous log"

(* VersionEdit::Clear: pointers is a sequence of <<level, key>>, deleted   *)
(* a set of <<level, number>>, added a sequence of <<level, metadata>>.    *)
Clear ==
    [comparator |-> Missing, log |-> Missing, prev |-> Missing, next |-> Missing,
     last |-> Missing, pointers |-> <<>>, deleted |-> {}, added |-> <<>>]

AddFile(edit, level, f)       == [edit EXCEPT !.added = Append(@, <<level, f>>)]
RemoveFile(edit, level, n)    == [edit EXCEPT !.deleted = @ \cup {<<level, n>>}]
SetCompactPointer(edit, l, k) == [edit EXCEPT !.pointers = Append(@, <<l, k>>)]

Optional(tag, x) == IF x = Missing THEN <<>> ELSE <<tag, x>>
EachOf(seq, Op(_)) == FlattenSeq([i \in DOMAIN seq |-> Op(seq[i])])

EncodeTo(edit) ==
    Optional(kComparator, edit.comparator)
    \o Optional(kLogNumber, edit.log)
    \o Optional(kPrevLogNumber, edit.prev)
    \o Optional(kNextFileNumber, edit.next)
    \o Optional(kLastSequence, edit.last)
    \o EachOf(edit.pointers, LAMBDA p : <<kCompactPointer, p[1], p[2]>>)
    \o EachOf(SetToSeq(edit.deleted), LAMBDA d : <<kDeletedFile, d[1], d[2]>>)
    \o EachOf(edit.added, LAMBDA a : <<kNewFile, a[1], a[2].number, a[2].size,
                                      a[2].smallest, a[2].largest>>)

(* Tokens a tag takes; 0 for an unknown tag.                               *)
Arity(tag) ==
    CASE tag \in {kComparator, kLogNumber, kPrevLogNumber, kNextFileNumber, kLastSequence} -> 1
      [] tag \in {kCompactPointer, kDeletedFile} -> 2
      [] tag = kNewFile -> 5
      [] OTHER -> 0

(* GetLevel fails for a level the database does not have.                  *)
GoodLevel(tag, level) ==
    tag \in {kCompactPointer, kDeletedFile, kNewFile} => level \in 0..NumLevels - 1

(* The effect of the entry tag, args on what was decoded so far.           *)
DecodeEntry(edit, tag, args) ==
    CASE tag = kComparator     -> [edit EXCEPT !.comparator = args[1]]
      [] tag = kLogNumber      -> [edit EXCEPT !.log = args[1]]
      [] tag = kPrevLogNumber  -> [edit EXCEPT !.prev = args[1]]
      [] tag = kNextFileNumber -> [edit EXCEPT !.next = args[1]]
      [] tag = kLastSequence   -> [edit EXCEPT !.last = args[1]]
      [] tag = kCompactPointer -> SetCompactPointer(edit, args[1], args[2])
      [] tag = kDeletedFile    -> RemoveFile(edit, args[1], args[2])
      [] tag = kNewFile        ->
            AddFile(edit, args[1], [number |-> args[2], size |-> args[3],
                                    smallest |-> args[4], largest |-> args[5]])

(* The loop of DecodeFrom stops at the first entry it cannot read; it has  *)
(* at most one iteration for every token.                                  *)
DecodeFrom(src) ==
    LET Fits(i) == /\ Arity(src[i]) > 0
                   /\ i + Arity(src[i]) <= Len(src)
                   /\ GoodLevel(src[i], src[i + 1])
        Next(s) == IF ~Fits(s.pos) THEN [s EXCEPT !.ok = FALSE]
                   ELSE LET a == Arity(src[s.pos])
                        IN  [s EXCEPT !.pos = @ + 1 + a,
                                      !.edit = DecodeEntry(@, src[s.pos],
                                                   SubSeq(src, s.pos + 1, s.pos + a))]
        Step(s, i) == IF s.ok /\ s.pos <= Len(src) THEN Next(s) ELSE s
        end == FoldLeft(Step, [pos |-> 1, ok |-> TRUE, edit |-> Clear],
                        [i \in 1..Len(src) |-> i])
    IN  [ok |-> end.ok, edit |-> end.edit]
=============================================================================
