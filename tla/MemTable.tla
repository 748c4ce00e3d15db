------------------------------ MODULE MemTable ------------------------------
(***************************************************************************)
(* MemTable over SkipList and Arena: one writer at a time inserts nodes,   *)
(* level by level, while readers search and iterate without a lock.        *)
(*                                                                         *)
(* Updates have rising sequence numbers, so that a node is known by the    *)
(* number of the update it holds; its internal key is <<user key, number>>.*)
(* The pointers of a node are read and written one at a time and in the    *)
(* order of the program (acquire loads, release stores); max_height_ has   *)
(* no barrier, a reader may get any value it ever had.                     *)
(***************************************************************************)
EXTENDS Integers, Sequences, FiniteSets, FiniteSetsExt

CONSTANTS
    Keys, Readers,
    kMaxHeight,     \* SkipList::kMaxHeight
    MaxInserts,     \* bound: updates
    kBlockSize,     \* Arena's kBlockSize, in words of half the alignment
    EncodedLength   \* EncodedLength[k]: size of an entry of the key k, in the same unit

ASSUME MemTableAssumption ==
    /\ kMaxHeight \in Nat \ {0} /\ MaxInserts \in Nat /\ IsFiniteSet(Readers)
    /\ Keys \subseteq Nat /\ EncodedLength \in [Keys -> Nat \ {0}]
    /\ kBlockSize \in Nat /\ kBlockSize >= 4 /\ kBlockSize % 2 = 0

head_  == 0
NULL   == -1
Uninit == -2        \* a pointer of a new node that nothing was stored in

Levels == 0..kMaxHeight - 1

VARIABLES
    key,            \* key[n]: the user key of node n, a sequence
    next,           \* next[n][level], with head_ at index 0
    heights,        \* the values max_height_ had; the largest is its value
    writer,         \* locals of Insert, pc = "idle" between two calls
    published,      \* last_sequence_ of the database
    refs, owned,    \* refs_, and does the database hold one of the references?
    rd,             \* rd[r]: what a reader is doing
    arena           \* Arena: blocks_, the current block, alloc_ptr_ and the regions given out

vars == <<key, next, heights, writer, published, refs, owned, rd, arena>>
list_vars == <<key, next, heights, writer, published, arena>>

NodeKey(n)  == <<key[n], n>>
KeyLessOldestFirst(a, b) == a[1] < b[1] \/ (a[1] = b[1] /\ a[2] < b[2])
KeyLess(a, b) == a[1] < b[1] \/ (a[1] = b[1] /\ a[2] > b[2])    \* InternalKeyComparator

-----------------------------------------------------------------------------
(* Arena.                                                                  *)
NewArena == [blocks |-> <<>>, current |-> 0, ptr |-> 0, remaining |-> 0, regions |-> {}]

Region(a, block, start, bytes) ==
    [a EXCEPT !.regions = @ \cup {[block |-> block, start |-> start, end |-> start + bytes]}]

AllocateNewBlock(a, bytes) == [a EXCEPT !.blocks = Append(@, bytes)]

(* An object of more than a quarter of a block gets a block of its own;    *)
(* else the rest of the current block is wasted.                           *)
AllocateFallback(a, bytes) ==
    IF bytes > kBlockSize \div 4
    THEN LET b == AllocateNewBlock(a, bytes) IN Region(b, Len(b.blocks), 0, bytes)
    ELSE LET b == AllocateNewBlock(a, kBlockSize)
         IN  Region([b EXCEPT !.current = Len(b.blocks), !.ptr = bytes,
                              !.remaining = kBlockSize - bytes], Len(b.blocks), 0, bytes)

Allocate(a, bytes) ==
    IF bytes <= a.remaining
    THEN Region([a EXCEPT !.ptr = @ + bytes, !.remaining = @ - bytes], a.current, a.ptr, bytes)
    ELSE AllocateFallback(a, bytes)

AllocateAlignedNoSlop(a, bytes) ==
    LET slop == a.ptr % 2
    IN  IF bytes <= a.remaining
        THEN Region([a EXCEPT !.ptr = @ + slop + bytes, !.remaining = @ - bytes],
                    a.current, a.ptr + slop, bytes)
        ELSE AllocateFallback(a, bytes)
AllocateAligned(a, bytes) ==
    LET slop   == a.ptr % 2
        needed == bytes + slop
    IN  IF needed <= a.remaining
        THEN Region([a EXCEPT !.ptr = @ + needed, !.remaining = @ - needed],
                    a.current, a.ptr + slop, bytes)
        ELSE AllocateFallback(a, bytes)

NewNode(a, height) == AllocateAligned(a, 2 + 2 * (height - 1))

-----------------------------------------------------------------------------
(* The writer.                                                             *)

GetMaxHeight == Max(heights)

KeyIsAfterNode(target, n) == n # NULL /\ KeyLess(NodeKey(n), target)

IdleWriter == [pc |-> "idle", node |-> 0, x |-> head_, level |-> 0, height |-> 0,
               prev |-> [l \in Levels |-> Uninit]]
IdleReader == [op |-> "none", running |-> FALSE, held |-> FALSE, target |-> <<0, 0>>,
               x |-> head_, level |-> 0, from |-> NULL, pos |-> NULL, snap |-> 0]

Init ==
    /\ key = <<>>
    /\ next = [n \in {head_} |-> [l \in Levels |-> NULL]]
    /\ heights = {1}
    /\ writer = IdleWriter /\ published = 0 /\ refs = 1 /\ owned = TRUE
    /\ rd = [r \in Readers |-> IdleReader]
    /\ arena = NewNode(NewArena, kMaxHeight)

(* MemTable::Add encodes the entry and calls Insert, whose locals are      *)
(* writer; x and level start a search of the entry's place.                *)
Add(k) ==
    /\ writer.pc = "idle" /\ owned /\ Len(key) < MaxInserts
    /\ key' = Append(key, k)
    /\ writer' = [IdleWriter EXCEPT !.pc = "find", !.node = Len(key) + 1, !.level = GetMaxHeight - 1]
    /\ arena' = Allocate(arena, EncodedLength[k])
    /\ UNCHANGED <<next, heights, published, refs, owned, rd>>

(* One round of FindGreaterOrEqual as Insert calls it: the last node       *)
(* before the new one on each level goes to prev.                          *)
FindGreaterOrEqual ==
    /\ writer.pc = "find"
    /\ LET n == next[writer.x][writer.level]
       IN  writer' =
             IF KeyIsAfterNode(NodeKey(writer.node), n) THEN [writer EXCEPT !.x = n]
             ELSE [writer EXCEPT !.prev[writer.level] = writer.x,
                                 !.pc    = IF writer.level = 0 THEN "height" ELSE "find",
                                 !.level = IF writer.level = 0 THEN 0 ELSE writer.level - 1]
    /\ UNCHANGED <<key, next, heights, published, refs, owned, rd, arena>>

(* RandomHeight picks the height; max_height_ is stored before the node is *)
(* allocated and long before it is linked.                                 *)
RaiseHeight(height) ==
    /\ writer.pc = "height"
    /\ heights' = (IF height > GetMaxHeight THEN heights \cup {height} ELSE heights)
    /\ writer' = [writer EXCEPT !.pc = "link", !.height = height,
                                !.prev = [l \in Levels |-> IF l \in GetMaxHeight..height - 1
                                                           THEN head_ ELSE writer.prev[l]]]
    /\ next' = [n \in DOMAIN next \cup {writer.node} |->
                  IF n = writer.node THEN [l \in Levels |-> Uninit] ELSE next[n]]
    /\ arena' = NewNode(arena, height)
    /\ UNCHANGED <<key, published, refs, owned, rd>>

(* Both stores of one round: the first is to a pointer no reader can reach.*)
LinkTopDown ==
    /\ writer.pc = "link"
    /\ LET i == writer.height - 1 - writer.level
           p == writer.prev[i]
       IN  next' = [next EXCEPT ![writer.node][i] = next[p][i], ![p][i] = writer.node]
    /\ writer' = IF writer.level + 1 = writer.height THEN IdleWriter
                 ELSE [writer EXCEPT !.level = writer.level + 1]
    /\ UNCHANGED <<key, heights, published, refs, owned, rd, arena>>
Link ==
    /\ writer.pc = "link"
    /\ LET i == writer.level
           p == writer.prev[i]
       IN  next' = [next EXCEPT ![writer.node][i] = next[p][i], ![p][i] = writer.node]
    /\ writer' = IF writer.level + 1 = writer.height THEN IdleWriter
                 ELSE [writer EXCEPT !.level = writer.level + 1]
    /\ UNCHANGED <<key, heights, published, refs, owned, rd, arena>>

(* DBImpl::Write, after InsertInto has added all updates of the batch:     *)
(* SetLastSequence.                                                        *)
Publish ==
    /\ writer.pc = "idle" /\ published < Len(key)
    /\ published' = Len(key)
    /\ UNCHANGED <<key, next, heights, writer, refs, owned, rd, arena>>

(* The memtable was flushed, which no write is in the middle of:           *)
(* CompactMemTable gives up imm_.                                          *)
Flushed ==
    /\ owned /\ writer.pc = "idle" /\ key # <<>> /\ published = Len(key)
    /\ owned' = FALSE /\ refs' = refs - 1
    /\ UNCHANGED <<list_vars, rd>>

-----------------------------------------------------------------------------
(* The readers: a Get or an iterator holds a reference from its start,     *)
(* taken with mutex_ held, to its end.                                     *)

Ref(r) ==
    /\ owned /\ ~rd[r].held
    /\ refs' = refs + 1
    /\ rd' = [rd EXCEPT ![r].held = TRUE]
    /\ UNCHANGED <<list_vars, owned>>

Unref(r) ==
    /\ rd[r].held /\ ~rd[r].running
    /\ refs' = refs - 1
    /\ rd' = [rd EXCEPT ![r] = IdleReader]
    /\ UNCHANGED <<list_vars, owned>>

(* A search starts at head_ on the highest level the reader knows of.      *)
Search(r, op, target, snap) ==
    /\ rd[r].held /\ ~rd[r].running
    /\ \E h \in heights :
          rd' = [rd EXCEPT ![r] = [@ EXCEPT !.op = op, !.running = TRUE, !.target = target,
                                            !.x = head_, !.level = h - 1, !.snap = snap,
                                            !.from = rd[r].pos]]
    /\ UNCHANGED <<list_vars, refs, owned>>

(* An operation that reads one pointer.                                    *)
Move(r, op, pos) ==
    /\ rd[r].held /\ ~rd[r].running
    /\ rd' = [rd EXCEPT ![r] = [@ EXCEPT !.op = op, !.snap = published, !.from = rd[r].pos,
                                          !.pos = pos]]
    /\ UNCHANGED <<list_vars, refs, owned>>

Get(r, k, snapshot) == Search(r, "get", <<k, snapshot>>, snapshot)
Seek(r, k, seq)     == Search(r, "seek", <<k, seq>>, published)
SeekToLast(r)       == Search(r, "last", <<0, 0>>, published)
Prev(r)             == rd[r].pos # NULL /\ Search(r, "prev", NodeKey(rd[r].pos), published)
SeekToFirst(r)      == Move(r, "first", next[head_][0])
NextEntry(r)        == rd[r].pos # NULL /\ Move(r, "next", next[rd[r].pos][0])

(* One round of FindGreaterOrEqual, FindLessThan or FindLast.              *)
FurtherOrEqual(r, n) ==
    CASE rd[r].op = "last" -> n # NULL
      [] rd[r].op = "prev" -> n # NULL /\ ~KeyLess(rd[r].target, NodeKey(n))
      [] OTHER -> KeyIsAfterNode(rd[r].target, n)
Further(r, n) == IF rd[r].op = "last" THEN n # NULL ELSE KeyIsAfterNode(rd[r].target, n)
Found(r, n) ==
    LET before == rd[r].op \in {"prev", "last"}
    IN  IF ~before THEN n ELSE IF rd[r].x = head_ THEN NULL ELSE rd[r].x
SearchRound(r) ==
    /\ rd[r].running
    /\ LET n == next[rd[r].x][rd[r].level]
       IN  rd' = [rd EXCEPT ![r] =
                    IF Further(r, n) THEN [@ EXCEPT !.x = n]
                    ELSE IF rd[r].level > 0 THEN [@ EXCEPT !.level = rd[r].level - 1]
                    ELSE [@ EXCEPT !.running = FALSE, !.pos = Found(r, n)]]
    /\ UNCHANGED <<list_vars, refs, owned>>

Next ==
    \/ \E k \in Keys : Add(k)
    \/ FindGreaterOrEqual
    \/ \E height \in 1..kMaxHeight : RaiseHeight(height)
    \/ Link \/ Publish \/ Flushed
    \/ \E r \in Readers :
          \/ Ref(r) \/ Unref(r) \/ SearchRound(r)
          \/ \E k \in Keys, s \in 0..published : Get(r, k, s) \/ Seek(r, k, s)
          \/ SeekToFirst(r) \/ SeekToLast(r) \/ NextEntry(r) \/ Prev(r)

Spec == Init /\ [][Next]_vars

-----------------------------------------------------------------------------
Nodes == DOMAIN key
Visible(k, s) == {n \in Nodes : key[n] = k /\ n <= s}

(* MemTable::Get: whatever was inserted meanwhile, it finds the newest     *)
(* entry of the key at its snapshot, and nothing only if there is none.    *)
GetIsNewest ==
    \A r \in Readers :
        rd[r].op = "get" /\ ~rd[r].running =>
            LET k   == rd[r].target[1]
                hit == {n \in {rd[r].pos} \cap Nodes : key[n] = k}
            IN  hit = (IF Visible(k, rd[r].snap) = {} THEN {} ELSE {Max(Visible(k, rd[r].snap))})

Between(n, a, b) ==       \* NULL is before and after all nodes
    /\ a # NULL => KeyLess(NodeKey(a), NodeKey(n))
    /\ b # NULL => KeyLess(NodeKey(n), NodeKey(b))
Interval(d) ==
    LET Old == {n \in Nodes : n <= d.snap}
    IN  CASE d.op = "next"  -> {n \in Old : Between(n, d.from, d.pos)}
          [] d.op = "prev"  -> {n \in Old : Between(n, d.pos, d.from)}
          [] d.op = "first" -> {n \in Old : Between(n, NULL, d.pos)}
          [] d.op = "last"  -> {n \in Old : Between(n, d.pos, NULL)}
          [] d.op = "seek"  -> {n \in Old : ~KeyLess(NodeKey(n), d.target) /\ Between(n, NULL, d.pos)}
          [] OTHER -> {}
RightWay(d) ==
    /\ d.op = "next" /\ d.pos # NULL => KeyLess(NodeKey(d.from), NodeKey(d.pos))
    /\ d.op = "prev" /\ d.pos # NULL => KeyLess(NodeKey(d.pos), NodeKey(d.from))
    /\ d.op = "seek" /\ d.pos # NULL => ~KeyLess(NodeKey(d.pos), d.target)

(* SkipList::Iterator: a step forward or backward and the seeks pass over  *)
(* no entry that was published when they began, and they move the right    *)
(* way.                                                                    *)
IteratorSkipsNothing ==
    \A r \in Readers : ~rd[r].running => Interval(rd[r]) = {} /\ RightWay(rd[r])

(* SkipList::Insert links a node from level 0 upwards: no reader follows a *)
(* pointer that was not stored yet, and none reads a memtable whose last   *)
(* reference is gone.                                                      *)
ReadersSafe ==
    \A r \in Readers :
        rd[r].held => /\ refs > 0
                      /\ rd[r].running => next[rd[r].x][rd[r].level] # Uninit
                      /\ rd[r].pos # NULL => next[rd[r].pos][0] # Uninit

(* Arena: the regions it gave out are disjoint and inside their blocks,    *)
(* so that no entry overwrites another.                                    *)
RegionsDisjoint ==
    /\ \A g \in arena.regions : g.block \in DOMAIN arena.blocks /\ g.end <= arena.blocks[g.block]
    /\ \A g, h \in arena.regions : g # h /\ g.block = h.block => g.end <= h.start \/ h.end <= g.start
=============================================================================
