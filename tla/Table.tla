------------------------------- MODULE Table -------------------------------
(***************************************************************************)
(* Tables: BlockBuilder, FilterBlockBuilder and TableBuilder write them,   *)
(* Table::Open, ReadBlock, FilterBlockReader and Table::InternalGet read   *)
(* them.                                                                   *)
(*                                                                         *)
(* Sizes and file offsets count cells: a byte of a key is one, and so are  *)
(* a packed number, the header and value of an entry, and a restart point. *)
(* Inside a block an offset is the number of entries before it.            *)
(***************************************************************************)
EXTENDS Format, FiniteSets

CONSTANTS
    block_size,
    block_restart_interval,
    kFilterBase,           \* bytes of data per filter
    bits_per_key, MinBits, \* of a Bloom filter; MinBits is 64
    HashBits,              \* width of a hash: 32
    BloomHash(_),
    CompressedSize(_)      \* cells of a raw block after Snappy

kBlockTrailerSize == 1

-----------------------------------------------------------------------------
(* BlockBuilder.  A key is stored without the prefix it shares with the    *)
(* one before it, except at a restart point.                               *)

EmptyBlock == [entries |-> <<>>, restarts |-> <<0>>, counter |-> 0, last |-> <<>>]
BlockAdd(b, interval, key, value) ==
    LET restart == b.counter >= interval
        shared  == IF restart THEN 0 ELSE Shared(b.last, key)
        delta   == SubSeq(key, shared + 1, Len(key))
    IN  [entries  |-> Append(b.entries, [shared |-> shared, delta |-> delta, value |-> value]),
         restarts |-> IF restart THEN Append(b.restarts, Len(b.entries)) ELSE b.restarts,
         counter  |-> IF restart THEN 1 ELSE b.counter + 1,
         last     |-> key]
FinishBlock(b) == [entries |-> b.entries, restarts |-> b.restarts]
CurrentSizeEstimate(b) ==
    FoldLeft(LAMBDA n, e : n + 1 + Len(e.delta), Len(b.restarts) + 1, b.entries)

-----------------------------------------------------------------------------
(* BloomFilterPolicy: the positions a key sets, by double hashing.         *)

Probes == Max({1, Min({30, (bits_per_key * 69) \div 100})})
Half   == 2 ^ (HashBits \div 2)
Positions(key, bits) ==
    LET h     == BloomHash(key)
        delta == h \div Half + (h % Half) * Half            \* rotated
    IN  {((h + j * delta) % 2 ^ HashBits) % bits : j \in 0..Probes - 1}
CreateFilter(keys) ==
    LET bits == Max({MinBits, ((Len(keys) * bits_per_key + 7) \div 8) * 8})
    IN  [bits |-> bits, set |-> UNION {Positions(keys[i], bits) : i \in DOMAIN keys}]
PolicyMayMatch(key, filter) ==
    filter # <<>> /\ Positions(key, filter[1].bits) \subseteq filter[1].set

(* FilterBlockBuilder, with InternalFilterPolicy dropping the numbers.     *)
NoFilters == [keys |-> <<>>, offsets |-> <<>>, result |-> <<>>]
GenerateFilter(f) ==
    [keys    |-> <<>>,
     offsets |-> Append(f.offsets, Len(f.result)),
     result  |-> IF f.keys = <<>> THEN f.result ELSE Append(f.result, CreateFilter(f.keys))]
StartBlock(f, offset) ==
    FoldLeft(LAMBDA g, i : GenerateFilter(g), f,
             [i \in 1..offset \div kFilterBase - Len(f.offsets) |-> i])
AddKeyInternal(f, ikey) == [f EXCEPT !.keys = Append(@, ikey)]
AddKey(f, ikey) == [f EXCEPT !.keys = Append(@, ExtractUserKey(ikey))]
FinishFilters(f) ==
    LET g == IF f.keys = <<>> THEN f ELSE GenerateFilter(f)
    IN  [data |-> g.result, offsets |-> Append(g.offsets, Len(g.result)),
         num |-> Len(g.offsets)]

(* FilterBlockReader::KeyMayMatch.                                         *)
KeyMayMatch(filters, offset, ikey) ==
    LET index == offset \div kFilterBase
        start == filters.offsets[index + 1]
        limit == filters.offsets[index + 2]
    IN  index < filters.num =>
            IF start <= limit /\ limit <= Len(filters.data)
            THEN PolicyMayMatch(ExtractUserKey(ikey), SubSeq(filters.data, start + 1, limit))
            ELSE start # limit               \* errors are potential matches

-----------------------------------------------------------------------------
(* TableBuilder.  The index entry of a block is added when the first key   *)
(* of the next block is known.                                             *)

NewTableBuilder ==
    [blocks |-> <<>>, offset |-> 0, at |-> 0, data |-> EmptyBlock, index |-> EmptyBlock,
     last |-> <<>>, pending |-> FALSE, handle |-> 0, filter |-> StartBlock(NoFilters, 0)]

(* WriteRawBlock: at is the handle of what was written.                    *)
WriteRawBlock(r, contents, size, type) ==
    [r EXCEPT !.blocks = [o \in DOMAIN r.blocks \cup {r.offset} |->
                              IF o = r.offset THEN [type |-> type, contents |-> contents]
                              ELSE r.blocks[o]],
              !.at = r.offset,
              !.offset = @ + size + kBlockTrailerSize]

(* WriteBlock compresses when that saves an eighth.                        *)
WriteBlock(r, b) ==
    LET raw   == CurrentSizeEstimate(b)
        small == CompressedSize(raw)
    IN  IF small < raw - raw \div 8
        THEN WriteRawBlock(r, <<FinishBlock(b)>>, small, "kSnappyCompression")
        ELSE WriteRawBlock(r, FinishBlock(b), raw, "kNoCompression")

AddIndexEntry(r, key) ==
    [r EXCEPT !.index = BlockAdd(@, 1, key, r.handle), !.pending = FALSE]
FlushBlock(r) ==
    IF r.data.entries = <<>> THEN r
    ELSE LET w == WriteBlock(r, r.data)
         IN  [w EXCEPT !.data = EmptyBlock, !.pending = TRUE, !.handle = w.at,
                       !.filter = StartBlock(@, w.offset)]
Separated(r, ikey) ==
    IF r.pending THEN AddIndexEntry(r, FindShortestSeparator(r.last, ikey)) ELSE r
AddEntry(r, ikey, value) ==
    [Separated(r, ikey) EXCEPT !.filter = AddKey(@, ikey), !.last = ikey,
                               !.data = BlockAdd(@, block_restart_interval, ikey, value)]
TableAdd(r, ikey, value) ==
    LET a == AddEntry(r, ikey, value)
    IN  IF CurrentSizeEstimate(a.data) >= block_size THEN FlushBlock(a) ELSE a

(* Finish: the filters, the metaindex with their place, the index and the  *)
(* footer, which names the last two.                                       *)
WriteFilters(r, filtered) ==
    IF filtered THEN WriteRawBlock(r, FinishFilters(r.filter), 1, "kNoCompression") ELSE r
WriteMetaindex(r, filtered) ==
    WriteRawBlock(r, IF filtered THEN {r.at} ELSE {}, 1, "kNoCompression")
WriteIndex(r) ==
    LET i == IF r.pending THEN AddIndexEntry(r, FindShortSuccessor(r.last)) ELSE r
    IN  WriteBlock(i, i.index)
Footer(m, x) == [blocks |-> x.blocks, metaindex |-> m.at, index |-> x.at]
FinishTable(r, filtered) ==
    LET m == WriteMetaindex(WriteFilters(FlushBlock(r), filtered), filtered)
    IN  Footer(m, WriteIndex(m))

(* The entries of a table are [key, value] in the order of their keys.     *)
BuildTable(entries, filtered) ==
    FinishTable(FoldLeft(LAMBDA r, e : TableAdd(r, e.key, e.value), NewTableBuilder, entries),
                filtered)

-----------------------------------------------------------------------------
(* Reading.  An answer is a sequence of at most one, <<>> for an error.    *)
(* damage maps the offset of a damaged block to what it reads as when its  *)
(* checksum is not verified.                                               *)

ReadBlock(t, damage, offset, verify) ==
    IF offset \in DOMAIN damage THEN IF verify THEN <<>> ELSE damage[offset]
    ELSE IF t.blocks[offset].type = "kNoCompression"
    THEN <<t.blocks[offset].contents>>
    ELSE t.blocks[offset].contents

(* ReadMeta and ReadFilter keep their errors to themselves, and verify     *)
(* only under options.paranoid_checks.                                     *)
FilterBlock(t, damage, meta, paranoid) ==
    IF meta = <<>> \/ meta = <<{}>> THEN <<>>
    ELSE ReadBlock(t, damage, CHOOSE h \in meta[1] : TRUE, paranoid)
Filters(t, damage, paranoid) ==
    FilterBlock(t, damage, ReadBlock(t, damage, t.metaindex, paranoid), paranoid)

(* What damage makes of a block that is read unverified.  Bound: these     *)
(* samples.  An index may lead to another block or count a shared byte too *)
(* many, a metaindex name no filter, filters lose their bits, their number *)
(* or a place.                                                             *)
DamagedIndex(x) ==
    {[x EXCEPT !.entries[i].value = x.entries[j].value] : i, j \in DOMAIN x.entries}
    \cup {[x EXCEPT !.entries[i].shared = 1] : i \in DOMAIN x.entries}
DamagedFilters(f) ==
    {[f EXCEPT !.num = 0]}
    \cup {[f EXCEPT !.data[i].set = {}] : i \in DOMAIN f.data}
    \cup {[f EXCEPT !.offsets[i] = Len(f.data) + 1] : i \in 1..f.num}
FilterOffsets(t) == t.blocks[t.metaindex].contents
DamagedReads(t, offset) ==
    LET c == ReadBlock(t, <<>>, offset, FALSE)[1]
    IN  CASE offset = t.index             -> DamagedIndex(c) \ {c}
          [] offset = t.metaindex         -> {{}}
          [] offset \in FilterOffsets(t) -> DamagedFilters(c)
          [] OTHER                        -> {}          \* always verified
=============================================================================
