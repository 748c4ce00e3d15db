------------------------------ MODULE LogFormat ------------------------------
(***************************************************************************)
(* The file format of logs and MANIFESTs: log::Writer, what a crash or a   *)
(* damaged cell leaves of its file, and log::Reader.                       *)
(*                                                                         *)
(* A file is a sequence of cells.  A header has a cell for the checksum, a *)
(* cell for the length and a cell for the type, where the code has 4, 2    *)
(* and 1 bytes; a byte of payload is a cell.  The checksum of a type and a *)
(* payload is the pair of them: two different records never collide.  The  *)
(* reader verifies checksums, as DBImpl and VersionSet ask it to.          *)
(***************************************************************************)
EXTENDS Integers, Sequences, SequencesExt, FiniteSets

CONSTANTS
    kBlockSize,    \* log::kBlockSize, in cells
    Sizes,         \* sizes of the records clients add
    MaxRecords     \* bound: records added

kHeaderSize == 3

ASSUME LogFormatAssumption ==
    /\ kBlockSize \in Nat /\ kBlockSize > kHeaderSize
    /\ Sizes \subseteq Nat /\ MaxRecords \in Nat

(* RecordType; kEof and kBadRecord are the reader's own.                   *)
kZeroType   == 0
kFullType   == 1
kFirstType  == 2
kMiddleType == 3
kLastType   == 4
kEof        == 5
kBadRecord  == 6

VARIABLES
    file,          \* the cells written
    block_offset,  \* Writer::block_offset_
    records,       \* the records added: payload and offset of the first header
    phys,          \* their physical records: offset, type, length, record
    phase,         \* "write", "read" or "done"
    hurt,          \* the physical record that was damaged, 0 for none
    reader,        \* log::Reader
    out,           \* what ReadRecord returned
    reported       \* bytes reported to the Reporter

vars == <<file, block_offset, records, phys, phase, hurt, reader, out, reported>>
write_vars == <<file, block_offset, records, phys>>

Init ==
    /\ file = <<>> /\ block_offset = 0 /\ records = <<>> /\ phys = <<>>
    /\ phase = "write" /\ hurt = 0 /\ reader = <<>> /\ out = <<>> /\ reported = 0

-----------------------------------------------------------------------------
(* log::Writer.                                                            *)

(* A writer that has written its cells to file.                            *)
Crc(type, payload) == <<type, payload>>
EmitPhysicalRecord(w, type, payload) ==
    [w EXCEPT !.file = @ \o <<Crc(type, payload), Len(payload), type>> \o payload,
              !.offset = @ + kHeaderSize + Len(payload),
              !.phys = Append(@, [start |-> Len(w.file), type |-> type,
                                  length |-> Len(payload), record |-> w.record])]

(* No header fits in what is left of the block: fill it with zeroes.       *)
SwitchBlock(w) ==
    LET leftover == kBlockSize - w.offset
    IN  IF leftover < kHeaderSize
        THEN [w EXCEPT !.file = @ \o [i \in 1..leftover |-> 0], !.offset = 0]
        ELSE w

FragmentType(begin, end) ==
    CASE begin /\ end  -> kFullType
      [] begin /\ ~end -> kFirstType
      [] ~begin /\ end -> kLastType
      [] OTHER         -> kMiddleType

(* The loop of AddRecord: it runs once for an empty record, and else until *)
(* nothing is left; a block takes at least the header, so that Len(payload)*)
(* + 1 rounds are enough.                                                  *)
Fragments(w0, payload) ==
    LET Step(s, i) ==
            IF s.left = <<>> /\ ~s.begin THEN s
            ELSE LET w      == SwitchBlock(s.w)
                     avail  == kBlockSize - w.offset - kHeaderSize
                     length == Min({Len(s.left), avail})
                     type   == FragmentType(s.begin, Len(s.left) = length)
                 IN  [w     |-> EmitPhysicalRecord(w, type, SubSeq(s.left, 1, length)),
                      left  |-> SubSeq(s.left, length + 1, Len(s.left)),
                      begin |-> FALSE]
    IN  FoldLeft(Step, [w |-> w0, left |-> payload, begin |-> TRUE],
                 [i \in 1..Len(payload) + 2 |-> i]).w

AddRecord(size) ==
    /\ phase = "write" /\ Len(records) < MaxRecords
    /\ LET id      == Len(records) + 1
           payload == [i \in 1..size |-> 10 * id + i]
           w       == Fragments([file |-> file, offset |-> block_offset, phys |-> phys,
                                 record |-> id], payload)
       IN  /\ file' = w.file /\ block_offset' = w.offset /\ phys' = w.phys
           /\ records' = Append(records, [payload |-> payload,
                                          start |-> w.phys[Len(phys) + 1].start])
    /\ UNCHANGED <<phase, hurt, reader, out, reported>>

-----------------------------------------------------------------------------
(* What becomes of the file, and a new Reader.                             *)

NewReader(offset) ==
    [pos |-> 0, buffer |-> <<>>, eof |-> FALSE, last |-> 0, end |-> 0,
     initial |-> offset, fragmented |-> FALSE, scratch |-> <<>>, prospective |-> 0,
     failed |-> FALSE]                   \* a read of the file failed

(* SkipToInitialBlock, called by the first ReadRecord; no header starts in *)
(* the last kHeaderSize - 1 cells of a block.                              *)
SkipToInitialBlock(r) ==
    LET inBlock == r.initial % kBlockSize
        block   == r.initial - inBlock
        start   == IF inBlock > kBlockSize - (kHeaderSize - 1) THEN block + kBlockSize ELSE block
    IN  IF r.last < r.initial THEN [r EXCEPT !.end = start, !.pos = start] ELSE r

StartReading(offset) == reader' = SkipToInitialBlock(NewReader(offset))

(* The writer crashes: any prefix of what it wrote is there.  The log is   *)
(* read from the start, or from an offset.                                 *)
Crash(cut, offset) ==
    /\ phase = "write"
    /\ file' = SubSeq(file, 1, cut)
    /\ StartReading(offset)
    /\ phase' = "read"
    /\ UNCHANGED <<block_offset, records, phys, hurt, out, reported>>

(* A cell of the physical record i is not what was written.                *)
DamagedCells(p) ==
    {<<1, <<>> >>} \cup {<<2, n>> : n \in (0..kBlockSize) \ {p.length}}
    \cup {<<3, t>> : t \in (kZeroType..kLastType) \ {p.type}}
    \cup {<<kHeaderSize + j, 0>> : j \in 1..p.length}
Damage(i) ==
    /\ phase = "write"
    /\ \E d \in DamagedCells(phys[i]) : file' = [file EXCEPT ![phys[i].start + d[1]] = d[2]]
    /\ hurt' = i
    /\ StartReading(0)
    /\ phase' = "read"
    /\ UNCHANGED <<block_offset, records, phys, out, reported>>

-----------------------------------------------------------------------------
(* ReportDrop hides what was dropped before the initial offset; unsigned,  *)
(* a negative difference is a large one.                                   *)
Visible(r, bytes) ==
    IF r.end - Len(r.buffer) - bytes \in 0..r.initial - 1 THEN 0 ELSE bytes

NoScratch(r) == [r EXCEPT !.fragmented = FALSE, !.scratch = <<>>]

(* log::Reader::ReadPhysicalRecord: the next block into buffer_ ...        *)
Refill ==
    /\ phase = "read" /\ Len(reader.buffer) < kHeaderSize /\ ~reader.eof
    /\ LET block == SubSeq(file, reader.pos + 1, Min({Len(file), reader.pos + kBlockSize}))
       IN  reader' = [reader EXCEPT !.buffer = block, !.pos = @ + Len(block),
                                    !.end = @ + Len(block),
                                    !.eof = Len(block) < kBlockSize]
    /\ UNCHANGED <<write_vars, phase, hurt, out, reported>>

(* ... unless the read fails, possibly after n bytes: the log ends there.  *)
ReadFails ==
    /\ phase = "read" /\ Len(reader.buffer) < kHeaderSize /\ ~reader.eof
    /\ \E n \in 0..Max({0, Min({Len(file) - reader.pos, kBlockSize - 1})}) :
           LET r == [NoScratch(reader) EXCEPT !.buffer = <<>>, !.end = @ + n, !.eof = TRUE,
                                              !.failed = TRUE]
           IN  reader' = r /\ reported' = reported + Visible(r, kBlockSize)
    /\ phase' = "done"
    /\ UNCHANGED <<write_vars, hurt, out>>

(* ... or the next physical record: its type, its payload, what is left of *)
(* buffer_ and how many bytes are reported as dropped.                     *)
NextRecordCutIsBad(r) ==
    LET length  == r.buffer[2]
        type    == r.buffer[3]
        payload == SubSeq(r.buffer, kHeaderSize + 1, kHeaderSize + length)
        Stop(t, dropped) == [type |-> t, payload |-> <<>>, rest |-> <<>>, dropped |-> dropped]
    IN  CASE Len(r.buffer) < kHeaderSize -> Stop(kEof, 0)
          [] kHeaderSize + length > Len(r.buffer) -> Stop(kBadRecord, Len(r.buffer))
          [] OTHER -> [type |-> type, payload |-> payload, dropped |-> 0,
                       rest |-> SubSeq(r.buffer, kHeaderSize + length + 1, Len(r.buffer))]
NextRecord(r) ==
    LET length  == r.buffer[2]
        type    == r.buffer[3]
        payload == SubSeq(r.buffer, kHeaderSize + 1, kHeaderSize + length)
        rest    == SubSeq(r.buffer, kHeaderSize + length + 1, Len(r.buffer))
        Stop(t, dropped) == [type |-> t, payload |-> <<>>, rest |-> <<>>, dropped |-> dropped]
    IN  CASE Len(r.buffer) < kHeaderSize -> Stop(kEof, 0)
          [] kHeaderSize + length > Len(r.buffer) ->
                IF r.eof THEN Stop(kEof, 0) ELSE Stop(kBadRecord, Len(r.buffer))
          [] type = kZeroType /\ length = 0 -> Stop(kBadRecord, 0)
          [] r.buffer[1] # Crc(type, payload) -> Stop(kBadRecord, Len(r.buffer))
          [] r.end - Len(r.buffer) < r.initial ->
                [type |-> kBadRecord, payload |-> <<>>, rest |-> rest, dropped |-> 0]
          [] OTHER -> [type |-> type, payload |-> payload, rest |-> rest, dropped |-> 0]

(* ReadRecord's switch.  more: the loop goes on.                           *)
PartialDropped(r) == IF r.fragmented THEN Len(r.scratch) ELSE 0
Returns(r, offset, payload) ==
    [reader |-> [NoScratch(r) EXCEPT !.last = offset], dropped |-> 0, record |-> <<payload>>]
Goes(r, dropped) == [reader |-> r, dropped |-> dropped, record |-> <<>>]
SwitchKeepsScratch(r, offset, type, payload) ==
    CASE type = kFullType -> [Returns(r, offset, payload) EXCEPT !.dropped = PartialDropped(r)]
      [] type = kFirstType ->
            Goes([r EXCEPT !.fragmented = TRUE, !.scratch = payload, !.prospective = offset],
                 PartialDropped(r))
      [] type = kLastType /\ r.fragmented -> Returns(r, r.prospective, r.scratch \o payload)
      [] type = kMiddleType /\ r.fragmented -> Goes([r EXCEPT !.scratch = @ \o payload], 0)
      [] OTHER -> Goes(r, Len(payload))
Switch(r, offset, type, payload) ==
    CASE type = kFullType ->
            [Returns(r, offset, payload) EXCEPT !.dropped = PartialDropped(r)]
      [] type = kFirstType ->
            Goes([r EXCEPT !.fragmented = TRUE, !.scratch = payload, !.prospective = offset],
                 PartialDropped(r))
      [] type = kMiddleType ->
            IF r.fragmented THEN Goes([r EXCEPT !.scratch = @ \o payload], 0)
            ELSE Goes(r, Len(payload))
      [] type = kLastType ->
            IF r.fragmented THEN Returns(r, r.prospective, r.scratch \o payload)
            ELSE Goes(r, Len(payload))
      [] OTHER ->                       \* kBadRecord, or an unknown type
            Goes(NoScratch(r), Len(payload) + PartialDropped(r))

ReadPhysicalRecord ==
    /\ phase = "read" /\ (Len(reader.buffer) >= kHeaderSize \/ reader.eof)
    /\ LET n      == NextRecord(reader)
           offset == reader.end - Len(reader.buffer)
           after  == [reader EXCEPT !.buffer = n.rest]
           s      == Switch(after, offset, n.type, n.payload)
       IN  IF n.type = kEof
           THEN /\ phase' = "done" /\ reader' = NoScratch(after)
                /\ UNCHANGED <<out, reported>>
           ELSE /\ phase' = phase /\ reader' = s.reader
                /\ out' = out \o s.record
                /\ reported' = reported + Visible(after, n.dropped) + Visible(after, s.dropped)
    /\ UNCHANGED <<write_vars, hurt>>

Next ==
    \/ \E size \in Sizes : AddRecord(size)
    \/ \E cut \in 0..Len(file) : \E offset \in 0..cut : Crash(cut, offset)
    \/ \E i \in DOMAIN phys : Damage(i)
    \/ Refill \/ ReadFails \/ ReadPhysicalRecord

Spec == Init /\ [][Next]_vars

-----------------------------------------------------------------------------
(* What can be read of a record, by the ghost phys alone: of a file whose  *)
(* reading failed, the blocks before.                                      *)
End(p) == p.start + kHeaderSize + p.length
Block(p) == p.start \div kBlockSize
Intact(p) ==
    /\ End(p) <= IF reader.failed THEN reader.pos ELSE Len(file)
    /\ hurt # 0 /\ Block(p) = Block(phys[hurt]) => p.start < phys[hurt].start
Readable(i) ==
    /\ records[i].start >= reader.initial
    /\ \A k \in DOMAIN phys : phys[k].record = i => Intact(phys[k])

(* Reader::ReadRecord: it returns exactly the records that start at or     *)
(* after the initial offset and were complete before the crash, unchanged  *)
(* and in order; a damaged cell costs the records with a fragment in its   *)
(* block from the damage on, a failed read those that go on after the      *)
(* blocks read so far, and no other.                                       *)
ReadsWhatIsLeft ==
    phase = "done" =>
        LET left == SelectSeq([i \in DOMAIN records |-> i], Readable)
        IN  out = [j \in DOMAIN left |-> records[left[j]].payload]

(* Reader: a crash of the writer is no corruption: however its last record *)
(* was cut, a reader that starts at the beginning and can read the file    *)
(* reports nothing.                                                        *)
CrashIsNoCorruption ==
    phase # "write" /\ hurt = 0 /\ ~reader.failed /\ reader.initial = 0 => reported = 0
=============================================================================
