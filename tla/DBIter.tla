------------------------------- MODULE DBIter -------------------------------
(***************************************************************************)
(* A read of a database at a snapshot: DBIter over the merge of the        *)
(* memtable, the tables of level 0 and a level of disjoint tables, moved   *)
(* in any order by its user, and Version::Get with its Bloom filters.      *)
(* Blocks of the tables may be damaged on disk; the checksum of a data     *)
(* block is verified, that of another block under paranoid_checks only.    *)
(*                                                                         *)
(* The database is the outcome of a history of updates: the oldest were    *)
(* compacted to level 1, where a file ends at user key Boundary, later     *)
(* ones are in a table of level 0 and the last ones in the memtable.       *)
(***************************************************************************)
EXTENDS MergingIterator

CONSTANTS
    UserKeys,
    Boundary,          \* the first file of level 1 ends with this user key
    Histories,         \* sequences of pairs of a user key and a type
    filtered,          \* options.filter_policy is set
    MaxDamaged         \* bound: damaged blocks

ASSUME DBIterAssumption == MaxDamaged \in Nat /\ filtered \in BOOLEAN /\ Boundary \in UserKeys

VARIABLES
    db,                \* what the iterators read, see Iterators
    sequence,          \* the snapshot
    visible,           \* the user keys a read has to find, sorted
    it,                \* the DBIter
    cursor             \* where a correct iterator would be: a position in visible or 0

vars == <<db, sequence, visible, it, cursor>>
fixed == <<db, sequence, visible>>

-----------------------------------------------------------------------------
(* The database.  The value an update writes is its sequence number.       *)

Entry(h, i)    == [key |-> InternalKey(h[i][1], i, h[i][2]), value |-> i]
Sorted(h, ids) == SetToSortSeq({Entry(h, i) : i \in ids}, LAMBDA a, b : Before(a.key, b.key))
Low(h, ids)    == {i \in ids : ~Less(Boundary, h[i][1])}
Meta(file, es) == [number |-> file, largest |-> es[Len(es)].key]

(* Updates 1..a in files 1 and 2 of level 1, up to b in file 3 of level 0. *)
Database(h, a, b) ==
    LET files  == << Sorted(h, Low(h, 1..a)), Sorted(h, (1..a) \ Low(h, 1..a)), Sorted(h, a + 1..b)>>
        exists == {f \in 1..3 : files[f] # <<>>}
    IN  [mem     |-> Sorted(h, b + 1..Len(h)),
         tables  |-> [f \in exists |-> BuildTable(files[f], filtered)],
         level0  |-> SelectSeq(<<3>>, LAMBDA f : f \in exists),
         level   |-> [i \in 1..Cardinality(exists \ {3}) |->
                         LET f == SetToSortSeq(exists \ {3}, <)[i] IN Meta(f, files[f])],
         history |-> h]
Blocks(d) == UNION {{<<f, o>> : o \in DOMAIN d.tables[f].blocks} : f \in DOMAIN d.tables}

(* With paranoid_checks any block is damaged, and as all are verified it   *)
(* does not matter how; without, one that is not verified.                 *)
Reads(d, p, paranoid) ==
    IF paranoid THEN {<<>>} ELSE {<<x>> : x \in DamagedReads(d.tables[p[1]], p[2])}
Damages(d, paranoid) ==
    UNION {{bad \in [places -> UNION {Reads(d, p, paranoid) : p \in places}] :
                \A p \in places : bad[p] \in Reads(d, p, paranoid)} :
           places \in {x \in SUBSET Blocks(d) : Cardinality(x) <= MaxDamaged}}

(* What a read at the snapshot has to find: for every key its newest       *)
(* update up to the snapshot, when that is a value.                        *)
Newest(d, s, user) == Max({0} \cup {i \in 1..s : d.history[i][1] = user})
Found(d, s, user)  == LET i == Newest(d, s, user)
                      IN  IF i # 0 /\ d.history[i][2] = kValue THEN i ELSE 0
Visible(d, s)      == SetToSortSeq({u \in UserKeys : Found(d, s, u) # 0}, Less)

-----------------------------------------------------------------------------
(* DBIter: iter, saved and value stand for iter_, saved_key_ and           *)
(* saved_value_ (0 when cleared).                                          *)

AddIterators(d) ==
    [i \in DOMAIN d.level0 |-> NewTableIterator(d, d.level0[i])]
    \o (IF d.level = <<>> THEN <<>> ELSE <<NewLevelIterator(d)>>)
NewInternalIterator(d) == NewMergingIterator(<<NewMemIterator>> \o AddIterators(d))
NewDBIterator(d) ==
    [iter |-> NewInternalIterator(d), forward |-> TRUE, valid |-> FALSE,
     saved |-> <<>>, value |-> 0]

ParseKey(iter) == ParseInternalKey(MergeKey(db, iter))
CurrentKey     == IF it.forward THEN ParseKey(it.iter).user ELSE it.saved
CurrentValue   == IF it.forward THEN MergeValue(db, it.iter) ELSE it.value

At(iter)      == [iter |-> iter, forward |-> TRUE, valid |-> TRUE, saved |-> <<>>, value |-> 0]
Invalid(iter) == [iter |-> iter, forward |-> TRUE, valid |-> FALSE, saved |-> <<>>, value |-> 0]

(* k is the parsed key of an entry: a deletion hides the older ones.       *)
Hides(k)  == k.seq <= sequence /\ k.type = kDeletion
Yields(k, skipping, skip) ==
    k.seq <= sequence /\ k.type = kValue /\ ~(skipping /\ ~Less(skip, k.user))
RECURSIVE FindNextUserEntry(_, _, _)
NextEntry(iter, k, skipping, skip) ==
    IF Yields(k, skipping, skip) THEN At(iter)
    ELSE FindNextUserEntry(MergeNext(db, iter), skipping \/ Hides(k),
                           IF Hides(k) THEN k.user ELSE skip)
FindNextUserEntry(iter, skipping, skip) ==
    IF MergeValid(iter) THEN NextEntry(iter, ParseKey(iter), skipping, skip) ELSE Invalid(iter)

(* type is value_type, the type of the last entry that counted.            *)
Backward(iter, type, saved, value) ==
    IF type = kDeletion THEN Invalid(iter)
    ELSE [iter |-> iter, forward |-> FALSE, valid |-> TRUE, saved |-> saved, value |-> value]
RECURSIVE FindPrevUserEntry(_, _, _, _)
PrevEntry(iter, k, type, saved, value) ==
    IF k.seq <= sequence /\ type # kDeletion /\ Less(k.user, saved)
    THEN Backward(iter, type, saved, value)
    ELSE FindPrevUserEntry(MergePrev(db, iter),
             IF k.seq <= sequence THEN k.type ELSE type,
             IF k.seq > sequence THEN saved ELSE IF k.type = kDeletion THEN <<>> ELSE k.user,
             IF k.seq > sequence THEN value ELSE IF k.type = kDeletion THEN 0 ELSE MergeValue(db, iter))
FindPrevUserEntry(iter, type, saved, value) ==
    IF MergeValid(iter) THEN PrevEntry(iter, ParseKey(iter), type, saved, value)
    ELSE Backward(iter, type, saved, value)

(* Prev from a forward position: back to before the entries of the key.    *)
RECURSIVE BeforeKey(_, _)
BeforeKey(iter, user) ==
    IF MergeValid(iter) /\ ~Less(ParseKey(iter).user, user)
    THEN BeforeKey(MergePrev(db, iter), user) ELSE iter
Turn(iter, user) ==
    IF MergeValid(iter) THEN FindPrevUserEntry(iter, kDeletion, user, 0) ELSE Invalid(iter)

SeekToFirst ==
    /\ it' = FindNextUserEntry(MergeFirst(db, it.iter), FALSE, <<>>)
    /\ cursor' = Min({1, Len(visible)})
    /\ UNCHANGED fixed

SeekToLast ==
    /\ it' = FindPrevUserEntry(MergeLast(db, it.iter), kDeletion, it.saved, 0)
    /\ cursor' = Len(visible)
    /\ UNCHANGED fixed

SeekTo(target) ==
    /\ it' = FindNextUserEntry(MergeSeek(db, it.iter, LookupKey(target, sequence)), FALSE, <<>>)
    /\ LET at == {i \in DOMAIN visible : ~Less(visible[i], target)}
       IN  cursor' = (IF at = {} THEN 0 ELSE Min(at))
    /\ UNCHANGED fixed

(* From a backward position iter_ is before the entries of the key.        *)
Reentered == IF MergeValid(it.iter) THEN MergeNext(db, it.iter) ELSE MergeFirst(db, it.iter)
Next_ ==
    /\ it.valid
    /\ it' = (IF it.forward THEN FindNextUserEntry(it.iter, TRUE, CurrentKey)
              ELSE FindNextUserEntry(Reentered, TRUE, it.saved))
    /\ cursor' = (IF cursor = Len(visible) THEN 0 ELSE cursor + 1)
    /\ UNCHANGED fixed

Prev ==
    /\ it.valid
    /\ it' = (IF it.forward THEN Turn(BeforeKey(it.iter, CurrentKey), CurrentKey)
              ELSE FindPrevUserEntry(it.iter, kDeletion, it.saved, it.value))
    /\ cursor' = (IF cursor = 0 THEN 0 ELSE cursor - 1)
    /\ UNCHANGED fixed

Init ==
    \E h \in Histories :
        \E a \in 0..Len(h), b \in 0..Len(h) :
            /\ a <= b
            /\ LET d == Database(h, a, b)
               IN  \E paranoid \in BOOLEAN : \E bad \in Damages(d, paranoid) :
                       db = d @@ [paranoid |-> paranoid, bad |-> bad]
            /\ sequence \in 1..Len(h)
            /\ visible = Visible(db, sequence)
            /\ it = NewDBIterator(db)
            /\ cursor = 0

Next ==
    \/ SeekToFirst \/ SeekToLast \/ Next_ \/ Prev
    \/ \E target \in UserKeys : SeekTo(target)

Spec == Init /\ [][Next]_vars

-----------------------------------------------------------------------------
(* Version::Get and Table::InternalGet with SaveValue.  An answer is       *)
(* [state, value]; "error" is a status that is not OK.                     *)

Miss == [state |-> "kNotFound", value |-> 0]
SaveValue(ikey, value, user) ==
    LET p == ParseInternalKey(ikey)
    IN  IF p.user # user THEN Miss
        ELSE [state |-> IF p.type = kValue THEN "kFound" ELSE "kDeleted", value |-> value]
Failed == [Miss EXCEPT !.state = "error"]
GetFrom(pos, ikey) ==
    IF ~Ok(pos) THEN Failed
    ELSE IF Valid(db, pos) THEN SaveValue(pos.key, pos.value, ExtractUserKey(ikey)) ELSE Miss
MayContain(filters, offset, ikey) == filters = <<>> \/ KeyMayMatch(filters[1], offset, ikey)
GetIndexed(file, index, ikey) ==
    IF ~Valid(db, index) THEN Miss
    ELSE IF ~MayContain(Filters(db.tables[file], Damage(db, file), db.paranoid),
                        index.value, ikey) THEN Miss
    ELSE GetFrom(Seek(db, BlockReader(db, file, index.value), ikey), ikey)
InternalGet(file, ikey) ==
    LET index == BlockIterator(IndexBlock(db, file))
    IN  IF Ok(index) THEN GetIndexed(file, Seek(db, index, ikey), ikey) ELSE Failed

(* The files in which the key may be, newest first; the search ends at the *)
(* first answer.                                                           *)
FilesFor(ikey) ==
    db.level0 \o (IF FindFile(db, ikey) = Len(db.level) THEN <<>>
                  ELSE <<db.level[FindFile(db, ikey) + 1].number>>)
GetMem(at, user) == IF at = 0 THEN Miss ELSE SaveValue(db.mem[at].key, db.mem[at].value, user)
FirstHit(answers) ==
    LET hits == {i \in DOMAIN answers : answers[i].state # "kNotFound"}
    IN  IF hits = {} THEN Miss ELSE answers[Min(hits)]
GetAt(ikey, files) ==
    FirstHit(<<GetMem(FirstAtLeast(MemKeys(db), ikey), ExtractUserKey(ikey))>>
             \o [i \in DOMAIN files |-> InternalGet(files[i], ikey)])
Get(user) == GetAt(LookupKey(user, sequence), FilesFor(LookupKey(user, sequence)))

-----------------------------------------------------------------------------
(* No block of places was damaged without its reader's noticing.           *)
IndexPlaces == {<<f, db.tables[f].index>> : f \in DOMAIN db.tables}
MetaOffsets(t) == {t.metaindex} \cup FilterOffsets(t)
MetaPlaces  == UNION {{<<f, o>> : o \in MetaOffsets(db.tables[f])} : f \in DOMAIN db.tables}
Trusted(places) == db.paranoid \/ places \cap DOMAIN db.bad = {}

(* DBIter::Next and Prev: whatever moves its user made, the iterator is at *)
(* the key where a cursor over the keys visible at the snapshot would be,  *)
(* with its value, or status() reports the damage it met; damage of a      *)
(* filter or a metaindex is none of its business.  An index block whose    *)
(* damage is not detected may cost it keys, but what it shows was written  *)
(* with that key before the snapshot.                                      *)
AtCursor ==
    StatusOk(it.iter) =>
        IF ~Trusted(IndexPlaces)
        THEN it.valid => /\ CurrentValue \in 1..sequence
                         /\ db.history[CurrentValue] = <<CurrentKey, kValue>>
        ELSE IF cursor = 0 THEN ~it.valid
        ELSE /\ it.valid
             /\ CurrentKey = visible[cursor]
             /\ CurrentValue = Found(db, sequence, CurrentKey)

(* Table::InternalGet: Get finds the newest update of every key up to the  *)
(* snapshot or reports damage of a data or index block; shortened index    *)
(* keys, restart points and filters hide none, and a filter or metaindex   *)
(* that is known to be damaged only costs a read.  Damage that is not      *)
(* detected may hide updates, but the answer is one of the key's.          *)
GetFindsNewest ==
    it = NewDBIterator(db) =>
        \A user \in UserKeys :
            LET g == Get(user)
                n == Newest(db, sequence, user)
                Answers(i) ==
                    /\ g.value = i
                    /\ g.state = IF db.history[i][2] = kValue THEN "kFound" ELSE "kDeleted"
            IN  \/ g.state = "error" /\ DOMAIN db.bad \ MetaPlaces # {}
                \/ IF n = 0 THEN g.state = "kNotFound" ELSE Answers(n)
                \/ /\ ~Trusted(IndexPlaces \cup MetaPlaces)
                   /\ \/ g.state = "kNotFound"
                      \/ \E i \in 1..n : db.history[i][1] = user /\ Answers(i)
=============================================================================
