-------------------------- MODULE MergingIterator --------------------------
(***************************************************************************)
(* MergingIterator over the children of a database iterator: the memtable, *)
(* the tables of level 0 and the concatenation of a level's tables.        *)
(***************************************************************************)
EXTENDS Iterators

(* Table::NewIterator, or the error of TableCache::FindTable.              *)
Tables == INSTANCE TwoLevelIterator WITH
    DataOk <- Ok, DataValid <- Valid, DataFirst <- First, DataLast <- LastOf,
    DataSeek <- Seek, DataStep <- Step, DataStepBack <- StepBack,
    BlockFunction <- BlockReader
TableIterator(file, index) ==
    IF index = <<>> THEN EmptyIterator(FALSE)
    ELSE Tables!NewTwoLevelIterator(file, NewBlockIterator(index[1]))
NewTableIterator(db, file) == TableIterator(file, IndexBlock(db, file))

TableOk(it)        == IF it.kind = "two" THEN Tables!StatusOk(it) ELSE Ok(it)
TableValid(db, it) == it.kind = "two" /\ Tables!HasData(db, it)
TableFirst(db, it) == IF it.kind = "two" THEN Tables!SeekToFirst(db, it) ELSE it
TableLast(db, it)  == IF it.kind = "two" THEN Tables!SeekToLast(db, it) ELSE it
TableSeek(db, it, target) == IF it.kind = "two" THEN Tables!SeekTo(db, it, target) ELSE it

(* Version::NewConcatenatingIterator, with GetFileIterator.                *)
GetFileIterator(db, file, number) == NewTableIterator(db, number)
Levels == INSTANCE TwoLevelIterator WITH
    DataOk <- TableOk, DataValid <- TableValid, DataFirst <- TableFirst, DataLast <- TableLast,
    DataSeek <- TableSeek, DataStep <- Tables!Next, DataStepBack <- Tables!Prev,
    BlockFunction <- GetFileIterator
NewLevelIterator(db) == Levels!NewTwoLevelIterator(0, NewFilesIterator(db))

-----------------------------------------------------------------------------
(* The operations of a child.                                              *)

IsLevel(it) == it.kind = "two" /\ it.index.kind = "files"
IsTable(it) == it.kind = "two" /\ it.index.kind = "block"
KidOk(it) ==
    CASE IsLevel(it) -> Levels!StatusOk(it) [] IsTable(it) -> Tables!StatusOk(it) [] OTHER -> Ok(it)
KidValid(db, it) ==
    CASE IsLevel(it) -> Levels!HasData(db, it) [] IsTable(it) -> Tables!HasData(db, it)
      [] OTHER -> Valid(db, it)
Leaf(it) ==
    CASE IsLevel(it) -> it.data.data [] IsTable(it) -> it.data [] OTHER -> it
KidKey(db, it)   == Key(db, Leaf(it))
KidValue(db, it) == Value(db, Leaf(it))
KidFirst(db, it) ==
    CASE IsLevel(it) -> Levels!SeekToFirst(db, it) [] IsTable(it) -> Tables!SeekToFirst(db, it)
      [] OTHER -> First(db, it)
KidLast(db, it) ==
    CASE IsLevel(it) -> Levels!SeekToLast(db, it) [] IsTable(it) -> Tables!SeekToLast(db, it)
      [] OTHER -> LastOf(db, it)
KidSeek(db, it, target) ==
    CASE IsLevel(it) -> Levels!SeekTo(db, it, target) [] IsTable(it) -> Tables!SeekTo(db, it, target)
      [] OTHER -> Seek(db, it, target)
KidStep(db, it) ==
    CASE IsLevel(it) -> Levels!Next(db, it) [] IsTable(it) -> Tables!Next(db, it)
      [] OTHER -> Step(db, it)
KidStepBack(db, it) ==
    CASE IsLevel(it) -> Levels!Prev(db, it) [] IsTable(it) -> Tables!Prev(db, it)
      [] OTHER -> StepBack(db, it)

-----------------------------------------------------------------------------
(* MergingIterator: current is 0 or the child that is smallest or largest; *)
(* of equal ones it would be the first or the last.  With one child the    *)
(* merge is that child: current and forward then change nothing.           *)

NewMergingIterator(kids) == [kids |-> kids, current |-> 0, forward |-> TRUE]
StatusOk(m)    == \A i \in DOMAIN m.kids : KidOk(m.kids[i])
MergeValid(m)  == m.current # 0
MergeKey(db, m)   == KidKey(db, m.kids[m.current])
MergeValue(db, m) == KidValue(db, m.kids[m.current])

Keys(db, kids) ==                \* the keys of the valid children
    [i \in {i \in DOMAIN kids : KidValid(db, kids[i])} |-> KidKey(db, kids[i])]
LeastOf(keys) ==
    IF DOMAIN keys = {} THEN 0
    ELSE Min({i \in DOMAIN keys : \A j \in DOMAIN keys : ~Before(keys[j], keys[i])})
GreatestOf(keys) ==
    IF DOMAIN keys = {} THEN 0
    ELSE Max({i \in DOMAIN keys : \A j \in DOMAIN keys : ~Before(keys[i], keys[j])})
FindSmallest(db, kids) == [kids |-> kids, current |-> LeastOf(Keys(db, kids)), forward |-> TRUE]
FindLargest(db, kids)  == [kids |-> kids, current |-> GreatestOf(Keys(db, kids)), forward |-> FALSE]

MergeFirst(db, m) == FindSmallest(db, [i \in DOMAIN m.kids |-> KidFirst(db, m.kids[i])])
MergeLast(db, m)  == FindLargest(db, [i \in DOMAIN m.kids |-> KidLast(db, m.kids[i])])
MergeSeek(db, m, target) ==
    FindSmallest(db, [i \in DOMAIN m.kids |-> KidSeek(db, m.kids[i], target)])

(* Next after a move backwards: the other children go past the key.        *)
PastKey(db, kid, key) ==
    IF KidValid(db, kid) /\ KidKey(db, kid) = key THEN KidStep(db, kid) ELSE kid
MergeNext(db, m) ==
    FindSmallest(db,
        [i \in DOMAIN m.kids |->
            IF i = m.current THEN KidStep(db, m.kids[i])
            ELSE IF m.forward THEN m.kids[i]
            ELSE PastKey(db, KidSeek(db, m.kids[i], MergeKey(db, m)), MergeKey(db, m))])

(* Prev after a move forwards: they go before it.                          *)
BeforeFound(db, kid) == IF KidValid(db, kid) THEN KidStepBack(db, kid) ELSE KidLast(db, kid)
MergePrevNoTurn(db, m) ==
    FindLargest(db, [m.kids EXCEPT ![m.current] = KidStepBack(db, @)])
MergePrev(db, m) ==
    FindLargest(db,
        [i \in DOMAIN m.kids |->
            IF i = m.current THEN KidStepBack(db, m.kids[i])
            ELSE IF ~m.forward THEN m.kids[i]
            ELSE BeforeFound(db, KidSeek(db, m.kids[i], MergeKey(db, m)))])
=============================================================================
