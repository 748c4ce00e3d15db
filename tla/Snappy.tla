------------------------------- MODULE Snappy -------------------------------
(***************************************************************************)
(* Snappy 1.1.0 as the tables of leveldb use it: a block is compressed by  *)
(* RawCompress, the stored bytes may come back damaged, and are then given *)
(* to GetUncompressedLength, which sizes the buffer, and to RawUncompress, *)
(* which fills it; IsValidCompressedBuffer judges the same bytes without   *)
(* writing any.                                                            *)
(*                                                                         *)
(* Bytes are the numbers 0 .. 255 and positions count from 0, as in the    *)
(* code.  The limits of the format are the code's own (matches of 4 bytes, *)
(* words of 8, the margin of 15, literals of 60, copies of 64, the ten     *)
(* bytes a fast copy may overshoot).  Three things are scaled or stand in: *)
(* the fragment size kBlockSize, the sizes of the hash table and the hash  *)
(* function, any of which may be anything for what is claimed here.        *)
(*                                                                         *)
(* The stored bytes reach the decompressor through a Source that shows at  *)
(* most Chunk bytes at a time: ByteArraySource shows all of them, and the  *)
(* interface allows fewer, which is what RefillTag is written for.         *)
(***************************************************************************)
EXTENDS Integers, Sequences, SequencesExt

CONSTANTS Inputs,       \* the blocks that are compressed
          kBlockSize,   \* bytes of a fragment, 65536 in the code
          kMinHashTableSize, kMaxHashTableSize,  \* 256 and 16384 in the code
          Chunks,       \* how many bytes a Source shows at a time
          DamageBytes,  \* what a damaged byte may be read as
          MaxDamageAt   \* the damaged byte is one of the first MaxDamageAt

VARIABLES input,     \* the block
          wire,      \* the compressed bytes; later the bytes read back
          reach,     \* end of the furthest byte RawCompress has written
          frag,      \* the locals of CompressFragment
          pc,        \* where the code is
          intact,    \* nothing was damaged
          chunk,     \* bytes the Source shows at a time
          src,       \* the SnappyDecompressor
          writer,    \* its Writer
          results    \* what RawUncompress and IsValidCompressedBuffer returned

vars == <<input, wire, reach, frag, pc, intact, chunk, src, writer, results>>

Lesser(a, b) == IF a < b THEN a ELSE b

Greater(a, b) == IF a > b THEN a ELSE b

\* A number of 2^28 and more: it stands for every larger one, TLC's integers
\* being narrower than the uint32 of the code.
Huge == 268435456

\* A byte of a buffer nobody has written yet.
Junk == 256

Nothing == <<>>

-----------------------------------------------------------------------------
(* Numbers in the compressed bytes.                                        *)

\* Varint::Encode32, for the lengths of blocks.
EncodeVarint(v) ==
    IF v < 128 THEN <<v>>
    ELSE IF v < 16384 THEN <<128 + (v % 128), v \div 128>>
    ELSE <<128 + (v % 128), 128 + ((v \div 128) % 128), v \div 16384>>

\* The bytes of the varint that starts s, up to the first below 128.
VarintBytes(s) ==
    SelectInSeq(SubSeq(s, 1, Lesser(5, Len(s))), LAMBDA b : b < 128)

VarintValue(s, n) ==
    IF \E i \in 4..n : s[i] % 128 > 0 THEN Huge
    ELSE FoldLeft(LAMBDA sum, i : sum + (s[i] % 128) * 128 ^ (i - 1), 0,
                  [i \in 1..Lesser(n, 3) |-> i])

\* Varint::Parse32WithLimit, with which the caller sizes the buffer; -1 when
\* there is no varint32.
GetUncompressedLength(s) ==
    IF VarintBytes(s) = 0 \/ (VarintBytes(s) = 5 /\ s[5] >= 16) THEN -1
    ELSE VarintValue(s, VarintBytes(s))

\* LittleEndian::Load32 & wordmask[n].
LittleEndian(s, n) ==
    IF n = 4 /\ s[4] >= 16 THEN Huge
    ELSE FoldLeft(LAMBDA sum, i : sum + s[i] * 256 ^ (i - 1), 0,
                  [i \in 1..n |-> i])

-----------------------------------------------------------------------------
(* What the compressor emits.                                              *)

MaxCompressedLength(n) == 32 + n + n \div 6

LiteralTag(n) ==
    IF n < 60 THEN <<n * 4>>
    ELSE IF n < 256 THEN <<60 * 4, n>>
    ELSE <<61 * 4, n % 256, n \div 256>>

EmitLiteral(literal) == LiteralTag(Len(literal) - 1) \o literal

\* The bytes EmitLiteral writes: its fast path always writes sixteen.
LiteralReach(len, fast) ==
    IF fast /\ len <= 16 THEN 1 + 16 ELSE Len(LiteralTag(len - 1)) + len

EmitCopyLessThan64(offset, len) ==
    IF len < 12 /\ offset < 2048
    THEN <<1 + (len - 4) * 4 + (offset \div 256) * 32, offset % 256>>
    ELSE <<2 + (len - 1) * 4, offset % 256, offset \div 256>>

RECURSIVE EmitCopy(_, _)
EmitCopy(offset, len) ==
    IF len >= 68
    THEN EmitCopyLessThan64(offset, 64) \o EmitCopy(offset, len - 64)
    ELSE IF len > 64
    THEN EmitCopyLessThan64(offset, 60) \o EmitCopyLessThan64(offset, len - 60)
    ELSE EmitCopyLessThan64(offset, len)

-----------------------------------------------------------------------------
(* CompressFragment, one step of its loops at a time.                      *)

kInputMarginBytes == 15

Load32(p) == SubSeq(input, p + 1, p + 4)

Hash(p) == (input[p + 1] + 2 * input[p + 2] + 3 * input[p + 3]
              + 5 * input[p + 4]) % frag.table_size

FindMatchLength(s1, s2, limit) ==
    LET Differs == {k \in 0..(limit - s2 - 1) :
                      input[s1 + k + 1] # input[s2 + k + 1]}
    IN  IF Differs = {} THEN limit - s2
        ELSE CHOOSE k \in Differs : \A j \in Differs : k <= j

ip_limit == frag.end - kInputMarginBytes

Emit(bytes, upTo) ==
    /\ wire' = wire \o bytes
    /\ reach' = Greater(reach, Len(wire) + upTo)

\* GetHashTable: the size doubles up to that of the input; all entries are 0.
RECURSIVE HashTableSize(_, _)
HashTableSize(htsize, input_size) ==
    IF htsize < kMaxHashTableSize /\ htsize < input_size
    THEN HashTableSize(2 * htsize, input_size) ELSE htsize

GetHashTable(table_size) == [h \in 0..(table_size - 1) |-> 0]

\* The locals of CompressFragment for the bytes from start to end.
Fragment(start, end, table_size) ==
    [base |-> start, end |-> end, next_emit |-> start,
     ip |-> IF end - start >= kInputMarginBytes THEN start + 1 ELSE start,
     skip |-> 32, candidate |-> 0,
     table_size |-> table_size, table |-> GetHashTable(table_size)]

Compressor == <<input, intact, chunk, src, writer, results>>

\* Compress: the length first, then a fragment of at most kBlockSize bytes
\* after another, each with a table GetHashTable has zeroed.
StartFragment ==
    /\ pc = "fragment" /\ frag.end < Len(input)
    /\ LET start == frag.end
           end == Lesser(start + kBlockSize, Len(input))
       IN  /\ frag' = Fragment(start, end,
                               HashTableSize(kMinHashTableSize, end - start))
           /\ pc' = (IF end - start >= kInputMarginBytes THEN "scan"
                     ELSE "remainder")
    /\ UNCHANGED <<wire, reach>> /\ UNCHANGED Compressor

\* One iteration of step 1: look at the four bytes at ip, and emit the
\* literal before them when the table knows an equal four.
Scan ==
    /\ pc = "scan"
    /\ LET ip == frag.ip
           next_ip == ip + frag.skip \div 32
           candidate == frag.base + frag.table[Hash(ip)]
           literal == SubSeq(input, frag.next_emit + 1, ip)
           looked == [frag EXCEPT !.skip = @ + 1,
                                  !.table[Hash(ip)] = ip - frag.base]
       IN  \/ /\ next_ip > ip_limit
              /\ pc' = "remainder"
              /\ UNCHANGED <<frag, wire, reach>>
           \/ /\ next_ip <= ip_limit /\ Load32(ip) # Load32(candidate)
              /\ frag' = [looked EXCEPT !.ip = next_ip]
              /\ UNCHANGED <<pc, wire, reach>>
           \/ /\ next_ip <= ip_limit /\ Load32(ip) = Load32(candidate)
              /\ frag' = [looked EXCEPT !.candidate = candidate]
              /\ Emit(EmitLiteral(literal), LiteralReach(Len(literal), TRUE))
              /\ pc' = "copy"
    /\ UNCHANGED Compressor

\* One iteration of step 3: emit the copy, and go on with another one when
\* the table knows the four bytes after it.
Copy ==
    /\ pc = "copy"
    /\ LET base == frag.ip
           matched == 4 + FindMatchLength(frag.candidate + 4, base + 4,
                                          frag.end)
           ip == base + matched
           bytes == EmitCopy(base - frag.candidate, matched)
           tail == [frag.table EXCEPT ![Hash(ip - 1)] = ip - frag.base - 1]
           candidate == frag.base + tail[Hash(ip)]
           moved == [frag EXCEPT !.next_emit = ip, !.ip = ip]
           noted == [moved EXCEPT
                       !.table = [tail EXCEPT ![Hash(ip)] = ip - frag.base]]
       IN  /\ Emit(bytes, Len(bytes))
           /\ \/ /\ ip >= ip_limit
                 /\ frag' = moved /\ pc' = "remainder"
              \/ /\ ip < ip_limit /\ Load32(ip) = Load32(candidate)
                 /\ frag' = [noted EXCEPT !.candidate = candidate]
                 /\ UNCHANGED pc
              \/ /\ ip < ip_limit /\ Load32(ip) # Load32(candidate)
                 /\ frag' = [noted EXCEPT !.ip = ip + 1, !.skip = 32]
                 /\ pc' = "scan"
    /\ UNCHANGED Compressor

\* emit_remainder.
Remainder ==
    /\ pc = "remainder"
    /\ LET literal == SubSeq(input, frag.next_emit + 1, frag.end)
       IN  IF literal = <<>> THEN UNCHANGED <<wire, reach>>
           ELSE Emit(EmitLiteral(literal), LiteralReach(Len(literal), FALSE))
    /\ pc' = "fragment"
    /\ UNCHANGED frag /\ UNCHANGED Compressor

-----------------------------------------------------------------------------
(* SnappyDecompressor.  src is the Source and the decompressor over it:    *)
(* pos, what the Source has skipped; peeked, what is still to be skipped;  *)
(* window, the bytes from ip_ to ip_limit_; live, DecompressAllTags goes   *)
(* on; eof, the input ended between two tags.                              *)

Peek(pos) == SubSeq(wire, pos + 1, Lesser(pos + chunk, Len(wire)))

\* Entries of char_table: the bytes that follow a tag, the length and the
\* part of the offset that the tag carries.
Extra(tag) ==
    CASE tag % 4 = 0 -> IF tag >= 240 THEN tag \div 4 - 59 ELSE 0
      [] tag % 4 = 1 -> 1
      [] tag % 4 = 2 -> 2
      [] tag % 4 = 3 -> 4

CopyLength(tag) == IF tag % 4 = 1 THEN 4 + ((tag \div 4) % 8) ELSE tag \div 4 + 1

CopyOffset(tag, s) ==
    (IF tag % 4 = 1 THEN (tag \div 32) * 256 ELSE 0)
        + LittleEndian(s, Extra(tag))

Stop(s) == [s EXCEPT !.live = FALSE]

\* The loop of RefillTag that stitches the bytes of one tag together.
RECURSIVE Stitch(_, _, _)
Stitch(s, scratch, needed) ==
    IF Len(scratch) >= needed THEN [s EXCEPT !.window = scratch]
    ELSE IF Peek(s.pos) = <<>> THEN Stop(s)
    ELSE LET to_add == Lesser(needed - Len(scratch), Len(Peek(s.pos)))
         IN  Stitch([s EXCEPT !.pos = @ + to_add],
                    scratch \o SubSeq(Peek(s.pos), 1, to_add), needed)

\* The part of RefillTag after it has made sure that there is a tag.
Complete(s) ==
    IF Len(s.window) < Extra(s.window[1]) + 1 \/ Len(s.window) < 5
    THEN Stitch([s EXCEPT !.pos = @ + s.peeked, !.peeked = 0], s.window,
                Extra(s.window[1]) + 1)
    ELSE s

\* What a Peek that follows the Skip of everything peeked shows.
Refetch(s) ==
    [s EXCEPT !.pos = @ + s.peeked, !.peeked = Len(Peek(s.pos + s.peeked)),
              !.window = Peek(s.pos + s.peeked)]

RefillTag(s) ==
    IF s.window # <<>> THEN Complete(s)
    ELSE IF Peek(s.pos + s.peeked) = <<>>
    THEN Stop([Refetch(s) EXCEPT !.eof = TRUE])
    ELSE Complete(Refetch(s))

\* A SnappyDecompressor over a Source that has skipped n bytes.
NewDecompressor(n) ==
    [pos |-> n, peeked |-> 0, window |-> <<>>, live |-> TRUE, eof |-> FALSE]

MaybeRefill(s) == IF s.live /\ Len(s.window) < 5 THEN RefillTag(s) ELSE s

\* ReadUncompressedLength: it stops after five bytes, and whatever the fifth
\* holds beyond the 32 bits is shifted out.
LengthOK(s) == VarintBytes(s) # 0

-----------------------------------------------------------------------------
(* The Writers.  A Writer has an op, the bytes it has produced, a limit,   *)
(* those it expects, and, when it is a SnappyArrayWriter, a buffer: what   *)
(* has been written of it, the bytes of the fast paths after op included.  *)

NewWriter(kind, length) ==
    [kind |-> kind, op |-> 0, out |-> <<>>, limit |-> length, ok |-> TRUE]

IsArray(w) == w.kind = "array"

SpaceLeft(w) == w.limit - w.op

\* Bytes written at a position of the buffer.
Put(out, at, bytes) ==
    SubSeq(out, 1, at) \o bytes \o SubSeq(out, at + Len(bytes) + 1, Len(out))

\* n bytes read from a position of the buffer.
Take(out, at, n) ==
    [i \in 1..n |-> IF at + i <= Len(out) THEN out[at + i] ELSE Junk]

UnalignedCopy64(out, from, to) == Put(out, to, Take(out, from, 8))

RECURSIVE IncrementalCopy(_, _, _, _)
IncrementalCopy(out, from, op, len) ==
    IF len = 0 THEN out
    ELSE IncrementalCopy(Put(out, op, Take(out, from, 1)), from + 1, op + 1,
                         len - 1)

RECURSIVE CopyWords(_, _, _, _)
CopyWords(out, from, op, len) ==
    IF len <= 0 THEN out
    ELSE CopyWords(UnalignedCopy64(out, from, op), from + 8, op + 8, len - 8)

RECURSIVE IncrementalCopyFastPath(_, _, _, _)
IncrementalCopyFastPath(out, from, op, len) ==
    IF op - from < 8
    THEN IncrementalCopyFastPath(UnalignedCopy64(out, from, op), from,
                                 op + (op - from), len - (op - from))
    ELSE CopyWords(out, from, op, len)

kMaxIncrementCopyOverflow == 10

\* Append; a validator only counts.  ok is what the call returns.
Append_(w, bytes) ==
    [w EXCEPT
       !.ok = SpaceLeft(w) >= Len(bytes),
       !.op = IF SpaceLeft(w) >= Len(bytes) \/ ~IsArray(w) THEN @ + Len(bytes)
              ELSE @,
       !.out = IF IsArray(w) /\ SpaceLeft(w) >= Len(bytes)
               THEN Put(@, w.op, bytes) ELSE @]

\* TryFastAppend copies sixteen bytes whatever the length.
FastAppendsAnywhere(w, available, len) ==
    IsArray(w) /\ len <= 16 /\ available >= 16 /\ SpaceLeft(w) >= len

FastAppends(w, available, len) ==
    IsArray(w) /\ len <= 16 /\ available >= 16 /\ SpaceLeft(w) >= 16

TryFastAppend(w, bytes, len) ==
    [w EXCEPT !.out = Put(@, w.op, SubSeq(bytes, 1, 16)), !.op = @ + len]

\* The three ways AppendFromSelf copies.
SelfCopyOverlapping(w, offset, len) ==
    IF len <= 16 /\ SpaceLeft(w) >= 16
    THEN UnalignedCopy64(UnalignedCopy64(w.out, w.op - offset, w.op),
                         w.op - offset + 8, w.op + 8)
    ELSE IncrementalCopy(w.out, w.op - offset, w.op, len)

SelfCopy(w, offset, len) ==
    IF len <= 16 /\ offset >= 8 /\ SpaceLeft(w) >= 16
    THEN UnalignedCopy64(UnalignedCopy64(w.out, w.op - offset, w.op),
                         w.op - offset + 8, w.op + 8)
    ELSE IF SpaceLeft(w) >= len + kMaxIncrementCopyOverflow
    THEN IncrementalCopyFastPath(w.out, w.op - offset, w.op, len)
    ELSE IncrementalCopy(w.out, w.op - offset, w.op, len)

AppendFromSelfUnsigned(w, offset, len) ==
    IF (IsArray(w) /\ offset = 0) \/ w.op < offset THEN [w EXCEPT !.ok = FALSE]
    ELSE IF ~IsArray(w)
    THEN [w EXCEPT !.op = @ + len, !.ok = SpaceLeft(w) >= len]
    ELSE IF SpaceLeft(w) < len THEN [w EXCEPT !.ok = FALSE]
    ELSE [w EXCEPT !.op = @ + len, !.out = SelfCopy(w, offset, len)]

AppendFromSelf(w, offset, len) ==
    IF offset = 0 \/ w.op < offset THEN [w EXCEPT !.ok = FALSE]
    ELSE IF ~IsArray(w)
    THEN [w EXCEPT !.op = @ + len, !.ok = SpaceLeft(w) >= len]
    ELSE IF SpaceLeft(w) < len THEN [w EXCEPT !.ok = FALSE]
    ELSE [w EXCEPT !.op = @ + len, !.out = SelfCopy(w, offset, len)]

-----------------------------------------------------------------------------
(* DecompressAllTags, one tag at a time.                                   *)

\* The decompressor and its writer after a call of the writer.
After(s, w, used) ==
    [src |-> IF w.ok
             THEN MaybeRefill([s EXCEPT !.window =
                                 SubSeq(@, used + 1, Len(@))])
             ELSE Stop(s),
     writer |-> w]

\* A literal of len bytes at the start of the window, which may run on into
\* what the Source shows next.
RECURSIVE LongAppend(_, _, _)
LongAppend(s, w, len) ==
    IF Len(s.window) >= len
    THEN After(s, Append_(w, SubSeq(s.window, 1, len)), len)
    ELSE LET part == Append_(w, s.window)
         IN  IF ~part.ok \/ Peek(s.pos + s.peeked) = <<>>
             THEN [src |-> Stop(s), writer |-> part]
             ELSE LongAppend(Refetch(s), part, len - Len(s.window))

LiteralStep(s, w, tag, rest) ==
    IF FastAppends(w, Len(rest), tag \div 4 + 1)
    THEN After([s EXCEPT !.window = rest],
               TryFastAppend(w, rest, tag \div 4 + 1), tag \div 4 + 1)
    ELSE IF tag < 240
    THEN LongAppend([s EXCEPT !.window = rest], w, tag \div 4 + 1)
    ELSE LongAppend([s EXCEPT !.window =
                       SubSeq(rest, Extra(tag) + 1, Len(rest))],
                    w, LittleEndian(rest, Extra(tag)) + 1)

CopyStep(s, w, tag, rest) ==
    After([s EXCEPT !.window = rest],
          AppendFromSelf(w, CopyOffset(tag, rest), CopyLength(tag)),
          Extra(tag))

Step(s, w) ==
    IF s.window[1] % 4 = 0 THEN LiteralStep(s, w, s.window[1], Tail(s.window))
    ELSE CopyStep(s, w, s.window[1], Tail(s.window))

-----------------------------------------------------------------------------
(* The calls.                                                              *)

Uncompressing == <<input, reach, frag, intact, chunk>>

\* The block is read back, whole or damaged: a byte has changed, or the end
\* is missing.
Read ==
    /\ pc = "fragment" /\ frag.end = Len(input)
    /\ pc' = "length"
    /\ chunk' \in Chunks
    /\ \/ intact' = TRUE /\ UNCHANGED wire
       \/ /\ intact' = FALSE
          /\ \E i \in 1..Lesser(Len(wire), MaxDamageAt) :
               \/ wire' = SubSeq(wire, 1, i - 1)
               \/ \E b \in DamageBytes \ {wire[i]} :
                    wire' = [wire EXCEPT ![i] = b]
    /\ UNCHANGED <<input, reach, frag, src, writer, results>>

\* First RawUncompress, if GetUncompressedLength has sized the buffer; then
\* IsValidCompressedBuffer.
CallKind == IF results = <<>> THEN "array" ELSE "validator"
Refused  == CallKind = "array" /\ GetUncompressedLength(wire) = -1

\* InternalUncompress up to the first tag.
ReadUncompressedLength ==
    /\ pc = "length" /\ Len(results) < 2
    /\ LET n == VarintBytes(wire)
       IN  IF Refused \/ ~LengthOK(wire)
           THEN /\ results' = Append(results, FALSE)
                /\ UNCHANGED <<pc, src, writer>>
           ELSE /\ src' = MaybeRefill(NewDecompressor(n))
                /\ writer' = NewWriter(CallKind, VarintValue(wire, n))
                /\ pc' = "tags"
                /\ UNCHANGED results
    /\ UNCHANGED wire /\ UNCHANGED Uncompressing

DecompressTag ==
    /\ pc = "tags" /\ src.live
    /\ LET after == Step(src, writer)
       IN  src' = after.src /\ writer' = after.writer
    /\ UNCHANGED <<wire, pc, results>> /\ UNCHANGED Uncompressing

\* InternalUncompressAllTags returns.
Returns ==
    /\ pc = "tags" /\ ~src.live
    /\ results' = Append(results, src.eof /\ writer.op = writer.limit)
    /\ pc' = "length"
    /\ UNCHANGED <<wire, src, writer>> /\ UNCHANGED Uncompressing

-----------------------------------------------------------------------------

Init ==
    /\ input \in Inputs
    /\ wire = EncodeVarint(Len(input)) /\ reach = Len(wire)
    /\ frag = Fragment(0, 0, kMinHashTableSize)
    /\ pc = "fragment" /\ intact = TRUE /\ chunk = 0
    /\ src = Nothing /\ writer = Nothing /\ results = <<>>

Next ==
    \/ StartFragment \/ Scan \/ Copy \/ Remainder
    \/ Read \/ ReadUncompressedLength \/ DecompressTag \/ Returns

Spec == Init /\ [][Next]_vars

-----------------------------------------------------------------------------

\* What was compressed and comes back undamaged is uncompressed to the block,
\* every byte of it, however little of it the Source shows at a time: the
\* copies the matcher finds, the lengths split over several of them and the
\* fast paths' extra bytes included (CompressFragment, DecompressAllTags).
RoundTrip ==
    intact /\ pc = "length" /\ Len(results) = 1
       => results[1] /\ writer.out = input

\* Neither direction writes outside its buffer: RawCompress stays within
\* MaxCompressedLength, its sixteen-byte literals included, and RawUncompress
\* within the length GetUncompressedLength read from the same bytes, whatever
\* the damage (EmitLiteral, TryFastAppend, AppendFromSelf).
InBounds ==
    /\ reach <= MaxCompressedLength(Len(input))
    /\ pc = "tags" /\ IsArray(writer)
          => Len(writer.out) <= GetUncompressedLength(wire)

\* IsValidCompressedBuffer says of an input, with a damaged byte or cut as it
\* may be, what RawUncompress says, though it never takes a fast path and
\* keeps no output.
ValidatorAgrees == Len(results) = 2 => results[1] = results[2]
=============================================================================
