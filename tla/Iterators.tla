----------------------------- MODULE Iterators -----------------------------
(***************************************************************************)
(* The iterators over internal keys that read data themselves, as records: *)
(* over a memtable ("mem"), a block ("block"), the files of a level        *)
(* ("files") and nothing ("empty"; ok is FALSE for an error).              *)
(* An operation maps an iterator to what it is afterwards; what it reads   *)
(* is in db, which never changes while iterators exist:                    *)
(*    db.mem    the entries of the memtable, sorted                        *)
(*    db.tables the table files by number                                  *)
(*    db.bad    for a damaged block, by number and offset, what it reads   *)
(*              as when its checksum is not verified                       *)
(*    db.paranoid  options.paranoid_checks; ReadOptions.verify_checksums,  *)
(*              which is for data blocks only, is set                      *)
(*    db.level  the numbers of a level's files with their largest keys     *)
(***************************************************************************)
EXTENDS Table

None == [kind |-> "none"]                                  \* no iterator
EmptyIterator(ok) == [kind |-> "empty", ok |-> ok]

-----------------------------------------------------------------------------
(* MemTableIterator: a position, 0 when there is no node.                  *)

NewMemIterator == [kind |-> "mem", pos |-> 0]
FirstAtLeast(keys, target) ==
    LET at == {i \in DOMAIN keys : ~Before(keys[i], target)}
    IN  IF at = {} THEN 0 ELSE Min(at)
MemKeys(db) == [i \in DOMAIN db.mem |-> db.mem[i].key]

-----------------------------------------------------------------------------
(* Block::Iter: next is the end of value_, key what key_ holds.            *)

NewBlockIterator(block) ==
    [kind |-> "block", block |-> block, current |-> Len(block.entries),
     restart |-> Len(block.restarts), key |-> <<>>, value |-> 0, next |-> 0, ok |-> TRUE]
BlockEnd(it) == Len(it.block.entries)
SeekToRestartPoint(it, index) ==
    [it EXCEPT !.key = <<>>, !.restart = index, !.next = it.block.restarts[index + 1]]
Corrupted(it) ==                                           \* CorruptionError
    [it EXCEPT !.current = BlockEnd(it), !.restart = Len(it.block.restarts), !.key = <<>>,
               !.ok = FALSE]
ParseNextKey(it) ==
    LET e     == it.block.entries[it.next + 1]
        later == {r \in it.restart..Len(it.block.restarts) - 1 :
                      r = it.restart \/ it.block.restarts[r + 1] < it.next}
    IN  IF it.next >= BlockEnd(it)
        THEN [it EXCEPT !.current = BlockEnd(it), !.restart = Len(it.block.restarts)]
        ELSE IF Len(it.key) < e.shared THEN Corrupted(it)
        ELSE [it EXCEPT !.current = it.next, !.next = @ + 1, !.value = e.value,
                        !.key = SubSeq(@, 1, e.shared) \o e.delta,
                        !.restart = Max(later)]

(* The loops over ParseNextKey: until the entry before original, until a   *)
(* key that is not before target.                                          *)
RECURSIVE ParseUpTo(_, _), ParseToKey(_, _)
ParseUpTo(it, original) ==
    IF it.current < BlockEnd(it) /\ it.next < original
    THEN ParseUpTo(ParseNextKey(it), original) ELSE it
ParseToKey(it, target) ==
    IF it.current < BlockEnd(it) /\ Before(it.key, target)
    THEN ParseToKey(ParseNextKey(it), target) ELSE it

ParseFirst(it, index) == ParseNextKey(SeekToRestartPoint(it, index))
BlockFirst(it) == ParseFirst(it, 0)
BlockLast(it)  == ParseUpTo(ParseFirst(it, Len(it.block.restarts) - 1), BlockEnd(it))
BlockNext(it)  == ParseNextKey(it)
BlockPrev(it)  ==
    LET earlier == {r \in 0..it.restart : it.block.restarts[r + 1] < it.current}
    IN  IF earlier = {}
        THEN [it EXCEPT !.current = BlockEnd(it), !.restart = Len(it.block.restarts)]
        ELSE ParseUpTo(ParseFirst(it, Max(earlier)), it.current)

(* The binary search: the last restart point with a key before target, or  *)
(* none (the number of the points) when one shares a byte with its         *)
(* predecessor.                                                            *)
RECURSIVE SearchRestarts(_, _, _, _)
SearchRestarts(it, target, left, right) ==
    LET mid == (left + right + 1) \div 2
        e   == it.block.entries[it.block.restarts[mid + 1] + 1]
    IN  IF left >= right THEN left
        ELSE IF e.shared # 0 THEN Len(it.block.restarts)
        ELSE IF Before(e.delta, target) THEN SearchRestarts(it, target, mid, right)
        ELSE SearchRestarts(it, target, left, mid - 1)
BlockSeek(it, target) ==
    LET index == SearchRestarts(it, target, 0, Len(it.block.restarts) - 1)
    IN  IF index = Len(it.block.restarts) THEN Corrupted(it)
        ELSE ParseToKey(ParseFirst(it, index), target)

-----------------------------------------------------------------------------
(* LevelFileNumIterator: an index into the files of the level.             *)

NewFilesIterator(db) == [kind |-> "files", index |-> Len(db.level)]
FindFile(db, target) ==
    LET at == FirstAtLeast([i \in DOMAIN db.level |-> db.level[i].largest], target)
    IN  IF at = 0 THEN Len(db.level) ELSE at - 1

-----------------------------------------------------------------------------
(* The blocks of a table, and the operations by the kind of the iterator.  *)

Damage(db, file) ==
    [o \in {o \in DOMAIN db.tables[file].blocks : <<file, o>> \in DOMAIN db.bad} |->
        db.bad[<<file, o>>]]

(* Table::BlockReader; a block from the cache is what ReadBlock returned.  *)
BlockIterator(block) == IF block = <<>> THEN EmptyIterator(FALSE) ELSE NewBlockIterator(block[1])
BlockReader(db, file, handle) ==
    BlockIterator(ReadBlock(db.tables[file], Damage(db, file), handle, TRUE))

(* Table::Open: the index block, verified under paranoid_checks.           *)
IndexBlock(db, file) ==
    ReadBlock(db.tables[file], Damage(db, file), db.tables[file].index, db.paranoid)

Ok(it) == it.kind \in {"empty", "block"} => it.ok
Valid(db, it) ==
    CASE it.kind = "mem"   -> it.pos # 0
      [] it.kind = "block" -> it.current < BlockEnd(it)
      [] it.kind = "files" -> it.index < Len(db.level)
      [] it.kind = "empty" -> FALSE
Key(db, it) ==
    CASE it.kind = "mem"   -> db.mem[it.pos].key
      [] it.kind = "block" -> it.key
      [] it.kind = "files" -> db.level[it.index + 1].largest
Value(db, it) ==
    CASE it.kind = "mem"   -> db.mem[it.pos].value
      [] it.kind = "block" -> it.value
      [] it.kind = "files" -> db.level[it.index + 1].number
First(db, it) ==
    CASE it.kind = "mem"   -> [it EXCEPT !.pos = Min({1, Len(db.mem)})]
      [] it.kind = "block" -> BlockFirst(it)
      [] it.kind = "files" -> [it EXCEPT !.index = 0]
      [] it.kind = "empty" -> it
LastOf(db, it) ==
    CASE it.kind = "mem"   -> [it EXCEPT !.pos = Len(db.mem)]
      [] it.kind = "block" -> BlockLast(it)
      [] it.kind = "files" -> [it EXCEPT !.index = Max({0, Len(db.level) - 1})]
      [] it.kind = "empty" -> it
Seek(db, it, target) ==
    CASE it.kind = "mem"   -> [it EXCEPT !.pos = FirstAtLeast(MemKeys(db), target)]
      [] it.kind = "block" -> BlockSeek(it, target)
      [] it.kind = "files" -> [it EXCEPT !.index = FindFile(db, target)]
      [] it.kind = "empty" -> it
Step(db, it) ==
    CASE it.kind = "mem"   -> [it EXCEPT !.pos = IF @ = Len(db.mem) THEN 0 ELSE @ + 1]
      [] it.kind = "block" -> BlockNext(it)
      [] it.kind = "files" -> [it EXCEPT !.index = @ + 1]
StepBack(db, it) ==
    CASE it.kind = "mem"   -> [it EXCEPT !.pos = @ - 1]
      [] it.kind = "block" -> BlockPrev(it)
      [] it.kind = "files" -> [it EXCEPT !.index = IF @ = 0 THEN Len(db.level) ELSE @ - 1]
=============================================================================
