-------------------------- MODULE TwoLevelIterator --------------------------
(***************************************************************************)
(* TwoLevelIterator: an index iterator whose values lead to data           *)
(* iterators.  A table has one over its index block and its blocks; a      *)
(* level has one over its files and their tables.  The data iterators come *)
(* as parameters.                                                          *)
(***************************************************************************)
EXTENDS Iterators

CONSTANTS
    DataOk(_), DataValid(_, _), DataFirst(_, _), DataLast(_, _), DataSeek(_, _, _),
    DataStep(_, _), DataStepBack(_, _),
    BlockFunction(_, _, _)     \* the data iterator for a file and an index value

NewTwoLevelIterator(file, index) ==
    [kind |-> "two", file |-> file, index |-> index, data |-> None, handle |-> 0, ok |-> TRUE]

HasData(db, it) == it.data # None /\ DataValid(db, it.data)
StatusOk(it)    == Ok(it.index) /\ (it.data # None => DataOk(it.data)) /\ it.ok

SetDataIterator(it, data) ==
    [it EXCEPT !.ok = @ /\ (it.data # None => DataOk(it.data)), !.data = data]
SetBlock(db, it, handle) ==
    IF it.data # None /\ it.handle = handle THEN it
    ELSE [SetDataIterator(it, BlockFunction(db, it.file, handle)) EXCEPT !.handle = handle]
InitDataBlock(db, it) ==
    IF ~Valid(db, it.index) THEN SetDataIterator(it, None)
    ELSE SetBlock(db, it, Value(db, it.index))

DataToFirst(db, it)     == IF it.data = None THEN it ELSE [it EXCEPT !.data = DataFirst(db, @)]
DataToLast(db, it)      == IF it.data = None THEN it ELSE [it EXCEPT !.data = DataLast(db, @)]
DataToKey(db, it, key)  == IF it.data = None THEN it ELSE [it EXCEPT !.data = DataSeek(db, @, key)]

RECURSIVE SkipEmptyDataBlocksForward(_, _), SkipEmptyDataBlocksBackward(_, _)
SkipEmptyDataBlocksForward(db, it) ==
    IF HasData(db, it) THEN it
    ELSE IF ~Valid(db, it.index) THEN SetDataIterator(it, None)
    ELSE SkipEmptyDataBlocksForward(db,
             DataToFirst(db, InitDataBlock(db, [it EXCEPT !.index = Step(db, @)])))
SkipEmptyDataBlocksBackward(db, it) ==
    IF HasData(db, it) THEN it
    ELSE IF ~Valid(db, it.index) THEN SetDataIterator(it, None)
    ELSE SkipEmptyDataBlocksBackward(db,
             DataToLast(db, InitDataBlock(db, [it EXCEPT !.index = StepBack(db, @)])))

SeekToFirst(db, it) ==
    SkipEmptyDataBlocksForward(db,
        DataToFirst(db, InitDataBlock(db, [it EXCEPT !.index = First(db, @)])))
SeekToLast(db, it) ==
    SkipEmptyDataBlocksBackward(db,
        DataToLast(db, InitDataBlock(db, [it EXCEPT !.index = LastOf(db, @)])))
SeekTo(db, it, target) ==
    SkipEmptyDataBlocksForward(db,
        DataToKey(db, InitDataBlock(db, [it EXCEPT !.index = Seek(db, @, target)]), target))
Next(db, it) == SkipEmptyDataBlocksForward(db, [it EXCEPT !.data = DataStep(db, @)])
Prev(db, it) == SkipEmptyDataBlocksBackward(db, [it EXCEPT !.data = DataStepBack(db, @)])
=============================================================================
