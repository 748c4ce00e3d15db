------------------------------ MODULE LsmTree -------------------------------
(***************************************************************************)
(* The tree of tables: where a memtable's table goes, which files a        *)
(* compaction takes, what it drops, where it splits its output, and what   *)
(* Version::Get finds.  Compactions run with mutex_ released, so writes,   *)
(* snapshots and flushes happen between their start and their end.         *)
(*                                                                         *)
(* An entry is an internal key; its sequence number stands for its value.  *)
(* Every entry counts as one byte.  A level is the set of its files, which *)
(* Builder::SaveTo keeps in the order BySmallestKey.                       *)
(* mem stands for mem_ and imm_, since BackgroundCompaction flushes imm_   *)
(* before it does anything else.                                           *)
(***************************************************************************)
EXTENDS Naturals, FiniteSets, FiniteSetsExt, Functions

CONSTANTS
    NumKeys,             \* bound: user keys 1..NumKeys
    MaxWrites,           \* bound: Put and Delete calls
    MaxDeletes,          \* bound: Delete calls
    NumLevels,           \* kNumLevels
    MaxMemCompactLevel,  \* kMaxMemCompactLevel
    L0Trigger,           \* kL0_CompactionTrigger
    MaxBytes,            \* MaxBytesForLevel, the same for every level
    MaxOverlap,          \* kMaxGrandParentOverlapBytes
    ExpandLimit,         \* kExpandedCompactionByteSizeLimit
    Options,             \* settings, one of which an execution uses: [target: kTargetFileSize,
                         \* keys: the keys it writes, snapshots: bound on open snapshots,
                         \* ranges: the <<begin, end>> of manual compactions, where 0 and
                         \* NumKeys + 1 are NULL]
    None

Keys   == 1..NumKeys
Levels == 0..NumLevels - 1
Entry  == [key : Keys, seq : 1..MaxWrites, del : BOOLEAN]

ASSUME LevelsAssumption ==
    /\ {NumKeys, MaxWrites, MaxOverlap} \subseteq Nat
    /\ NumLevels \in Nat \ {0, 1} /\ MaxMemCompactLevel \in 0..NumLevels - 1
    /\ \A o \in Options : /\ o.target \in Nat \ {0} /\ o.snapshots \in Nat /\ o.keys \subseteq Keys
                          /\ o.ranges \subseteq (0..NumKeys + 1) \X (0..NumKeys + 1)

VARIABLES
    opts,            \* the element of Options in use
    mem,
    lastSequence,
    snapshots,       \* sequence numbers in snapshots_
    files,           \* current_->files_
    nextFile,        \* next_file_number_
    compactPointer,  \* compact_pointer_
    comp,            \* the compaction under way, or None
    manual           \* the call of DBImpl::CompactRange under way, or None

vars == <<opts, mem, lastSequence, snapshots, files, nextFile, compactPointer, comp, manual>>

Init ==
    /\ opts \in Options
    /\ mem = {} /\ lastSequence = 0 /\ snapshots = {}
    /\ files = [l \in Levels |-> {}] /\ nextFile = 1
    /\ compactPointer = [l \in Levels |-> None]
    /\ comp = None /\ manual = None
-----------------------------------------------------------------------------
(* InternalKeyComparator: ascending user keys, descending sequences. *)
Before(a, b) == a.key < b.key \/ (a.key = b.key /\ a.seq > b.seq)

(* The table that a builder makes of the entries E, and its FileMetaData. *)
Table(n, E) ==
    [number   |-> n, entries |-> E,
     smallest |-> CHOOSE e \in E : \A d \in E \ {e} : Before(e, d),
     largest  |-> CHOOSE e \in E : \A d \in E \ {e} : Before(d, e)]

EntriesOf(F)     == UNION {f.entries : f \in F}
TotalFileSize(F) == Cardinality(EntriesOf(F))

BySmallestKey(f, g) ==
    \/ Before(f.smallest, g.smallest)
    \/ f.smallest = g.smallest /\ f.number < g.number

(* The first and the last file of a sorted level, if it has any. *)
FirstFile(F) == {f \in F : \A g \in F \ {f} : BySmallestKey(f, g)}
LastFile(F)  == {f \in F : \A g \in F \ {f} : BySmallestKey(g, f)}

(* The version v with other files in level l. *)
SaveTo(v, l, deleted, added) == [v EXCEPT ![l] = (@ \ deleted) \cup added]

(* The first file, if any, whose largest key is not before key. *)
FindFile(F, key) ==
    {f \in F : /\ ~Before(f.largest, key)
               /\ \A g \in F : BySmallestKey(g, f) => Before(g.largest, key)}

AfterFile(k, f)  == k > f.largest.key
BeforeFile(k, f) == k < f.smallest.key

SomeFileOverlapsRange(disjoint, F, lo, hi) ==
    IF disjoint
    THEN \E f \in FindFile(F, [key |-> lo, seq |-> MaxWrites + 1]) : ~BeforeFile(hi, f)
    ELSE \E f \in F : ~AfterFile(lo, f) /\ ~BeforeFile(hi, f)

OverlapInLevel(v, l, lo, hi) == SomeFileOverlapsRange(l > 0, v[l], lo, hi)

Touching(F, lo, hi) == {f \in F : ~(f.largest.key < lo) /\ ~(f.smallest.key > hi)}

(* All files of level l that overlap lo..hi; in level 0 the range grows    *)
(* with the files found in it until no file sticks out of it: it becomes   *)
(* the smallest such range.                                                *)
Grown(F, lo, hi) ==
    {r \in (0..lo) \X (hi..NumKeys + 1) :
       \A f \in Touching(F, r[1], r[2]) : r[1] <= f.smallest.key /\ f.largest.key <= r[2]}
GetOverlappingInputs(v, l, lo, hi) ==
    IF l > 0 THEN Touching(v[l], lo, hi)
    ELSE LET ranges == Grown(v[0], lo, hi)
         IN  Touching(v[0], Max({r[1] : r \in ranges}), Min({r[2] : r \in ranges}))

(* GetRange, in user keys *)
Low(F)  == Min({e.key : e \in EntriesOf(F)})
High(F) == Max({e.key : e \in EntriesOf(F)})
-----------------------------------------------------------------------------
(* Reads *)

(* The files that ForEachOverlapping and Version::Get search for key k at  *)
(* sequence s, with their levels: all those of level 0 around k, and at    *)
(* most one of every other level.                                          *)
ForEachOverlapping(v, k, s) ==
    {<<0, f>> : f \in Touching(v[0], k, k)}
    \cup UNION {{<<l, f>> : f \in {g \in FindFile(v[l], [key |-> k, seq |-> s]) :
                                     ~BeforeFile(k, g)}} : l \in Levels \ {0}}

(* The order of the search: by level, and NewestFirst in level 0. *)
First(S) ==
    CHOOSE p \in S : \A q \in S \ {p} :
       p[1] < q[1] \/ (p[1] = q[1] /\ p[2].number > q[2].number)

(* The entry of E that a reader of k at sequence s sees. *)
Visible(E, k, s) == {e \in E : /\ e.key = k /\ e.seq <= s
                               /\ \A d \in E : (d.key = k /\ d.seq <= s) => d.seq <= e.seq}

Result(E) == IF E = {} \/ \E e \in E : e.del THEN 0 ELSE (CHOOSE e \in E : TRUE).seq

(* What a search finds, H being the places where k is visible. *)
Found(H, k, s) == IF H = {} THEN 0 ELSE Result(Visible(First(H)[2].entries, k, s))

(* DBImpl::Get: the memtables, then the version. *)
Get(k, s) ==
    IF Visible(mem, k, s) # {} THEN Result(Visible(mem, k, s))
    ELSE LET Hits == {p \in ForEachOverlapping(files, k, s) : Visible(p[2].entries, k, s) # {}}
         IN  CHOOSE r \in {Found(H, k, s) : H \in {Hits}} : TRUE

(* Files that a read charges for a second seek; any of them may run out of *)
(* allowed_seeks.                                                          *)
Charged ==
    {First(S) : S \in {T \in {ForEachOverlapping(files, k, s) : k \in Keys, s \in 1..lastSequence} :
                         Cardinality(T) >= 2}}
-----------------------------------------------------------------------------
(* Writes, snapshots and flushes *)

Write(k, del) ==
    /\ lastSequence < MaxWrites
    /\ lastSequence' = lastSequence + 1
    /\ mem' = mem \cup {[key |-> k, seq |-> lastSequence + 1, del |-> del]}
    /\ UNCHANGED <<opts, snapshots, files, nextFile, compactPointer, comp, manual>>

(* A second snapshot at the same sequence number sees the same. *)
GetSnapshot ==
    /\ Cardinality(snapshots) < opts.snapshots /\ lastSequence \notin snapshots
    /\ snapshots' = snapshots \cup {lastSequence}
    /\ UNCHANGED <<opts, mem, lastSequence, files, nextFile, compactPointer, comp, manual>>

ReleaseSnapshot(s) ==
    /\ s \in snapshots
    /\ snapshots' = snapshots \ {s}
    /\ UNCHANGED <<opts, mem, lastSequence, files, nextFile, compactPointer, comp, manual>>

PickLevelUnchecked(v, lo, hi) ==
    IF OverlapInLevel(v, 0, lo, hi) THEN 0 ELSE MaxMemCompactLevel
PickLevelForMemTableOutput(v, lo, hi) ==
    LET Descend(l) ==  \* may the table go from level l to l + 1?
          /\ ~OverlapInLevel(v, l + 1, lo, hi)
          /\ l + 2 < NumLevels =>
               TotalFileSize(GetOverlappingInputs(v, l + 2, lo, hi)) <= MaxOverlap
    IN  IF OverlapInLevel(v, 0, lo, hi) THEN 0
        ELSE Max({m \in 0..MaxMemCompactLevel : \A l \in 0..m - 1 : Descend(l)})

CompactMemTable ==
    /\ mem # {}
    /\ \E f \in {Table(nextFile, mem)} :
       LET l == PickLevelForMemTableOutput(files, f.smallest.key, f.largest.key)
       IN  files' = SaveTo(files, l, {}, {f})
    /\ nextFile' = nextFile + 1
    /\ mem' = {}
    /\ UNCHANGED <<opts, lastSequence, snapshots, compactPointer, comp, manual>>
-----------------------------------------------------------------------------
(* The choice of a compaction *)

(* Finalize: files in level 0, and bytes elsewhere, against their limit. *)
Score(v, l) ==
    IF l = 0 THEN [n |-> Cardinality(v[0]), limit |-> L0Trigger]
             ELSE [n |-> TotalFileSize(v[l]), limit |-> MaxBytes]
Higher(a, b) == a.n * b.limit > b.n * a.limit

(* The first of the levels with the best score, if that is at least 1. *)
SizeCompaction(v) ==
    {l \in 0..NumLevels - 2 :
       /\ Score(v, l).n >= Score(v, l).limit
       /\ \A m \in 0..NumLevels - 2 : IF m < l THEN Higher(Score(v, l), Score(v, m))
                                               ELSE ~Higher(Score(v, m), Score(v, l))}

(* The first file after compact_pointer_, or the first one of the level. *)
NextFile(l) ==
    LET after == {f \in files[l] : \/ compactPointer[l] = None
                                   \/ Before(compactPointer[l], f.largest)}
    IN  FirstFile(IF after = {} THEN files[l] ELSE after)

(* The files of level l that a compaction begins with, by size, by seeks   *)
(* or for a manual request.                                                *)
PickedAlone(l, f) == {f}
Picked(l, f) ==
    IF l = 0 THEN GetOverlappingInputs(files, 0, f.smallest.key, f.largest.key) ELSE {f}

(* A file counts as long as the files before it are not too large.         *)
ManualInputs(l, lo, hi) ==
    LET F == GetOverlappingInputs(files, l, lo, hi)
    IN  IF l = 0 THEN F
        ELSE {f \in F : TotalFileSize({g \in F : BySmallestKey(g, f)}) < opts.target}

(* SetupOtherInputs: the files of the next level, then more files of this  *)
(* one if they need no other file of the next.                             *)
SetupOtherInputs(l, in0, isManual) ==
    LET in1  == GetOverlappingInputs(files, l + 1, Low(in0), High(in0))
        all  == in0 \cup in1
        exp0 == GetOverlappingInputs(files, l, Low(all), High(all))
        exp1 == GetOverlappingInputs(files, l + 1, Low(exp0), High(exp0))
        grow == /\ in1 # {}
                /\ Cardinality(exp0) > Cardinality(in0)
                /\ TotalFileSize(in1) + TotalFileSize(exp0) < ExpandLimit
                /\ Cardinality(exp1) = Cardinality(in1)
        new0 == IF grow THEN exp0 ELSE in0
        new1 == IF grow THEN exp1 ELSE in1
        both == new0 \cup new1
    IN  [level |-> l, in0 |-> new0, in1 |-> new1, isManual |-> isManual,
         grandparents |-> IF l + 2 < NumLevels
                          THEN GetOverlappingInputs(files, l + 2, Low(both), High(both)) ELSE {},
         version |-> files,
         smallestSnapshot |-> IF snapshots = {} THEN lastSequence ELSE Min(snapshots)]

LargestOf(F) == CHOOSE e \in EntriesOf(F) : \A d \in EntriesOf(F) \ {e} : Before(d, e)

IsTrivialMove(c) ==
    /\ Cardinality(c.in0) = 1 /\ c.in1 = {}
    /\ TotalFileSize(c.grandparents) <= MaxOverlap

(* BackgroundCompaction: move a file down, or start DoCompactionWork. *)
Begin(c) ==
    /\ compactPointer' = [compactPointer EXCEPT ![c.level] = LargestOf(c.in0)]
    /\ IF ~c.isManual /\ IsTrivialMove(c)
       THEN /\ files' = SaveTo(SaveTo(files, c.level, c.in0, {}), c.level + 1, {}, c.in0)
            /\ UNCHANGED comp
       ELSE /\ comp' = c
            /\ UNCHANGED files
    /\ UNCHANGED <<opts, mem, lastSequence, snapshots, nextFile>>

(* PickCompaction: too much data in a level comes before seeks. *)
PickSize ==
    /\ comp = None
    /\ \E l \in SizeCompaction(files) : \E f \in NextFile(l) :
       \E c \in {SetupOtherInputs(l, Picked(l, f), FALSE)} : Begin(c)
    /\ UNCHANGED manual

PickSeek ==
    /\ comp = None /\ SizeCompaction(files) = {}
    /\ \E p \in Charged : \E c \in {SetupOtherInputs(p[1], Picked(p[1], p[2]), FALSE)} : Begin(c)
    /\ UNCHANGED manual

(* DBImpl::CompactRange: the levels above the deepest one that has files   *)
(* in the range, one after another.  Whether TEST_CompactMemTable flushes  *)
(* the memtable first is left open: a NULL batch that joins another        *)
(* writer's group flushes nothing.                                         *)
MaxLevelWithFiles(lo, hi) ==
    Max({1} \cup {l \in Levels \ {0} : OverlapInLevel(files, l, lo, hi)})

CompactRange(lo, hi) ==
    /\ manual = None
    /\ manual' = [level |-> 0, max |-> MaxLevelWithFiles(lo, hi),
                  begin |-> lo, from |-> lo, end |-> hi]
    /\ UNCHANGED <<opts, mem, lastSequence, snapshots, files, nextFile, compactPointer, comp>>

(* A manual compaction in the background: part of what is left of the      *)
(* range in this level, from m->begin on.                                  *)
CompactManual ==
    /\ comp = None /\ manual # None
    /\ \E inputs \in {ManualInputs(manual.level, manual.from, manual.end)} :
          /\ inputs # {}
          /\ \E c \in {SetupOtherInputs(manual.level, inputs, TRUE)} :
             \E last \in LastFile(c.in0) :
                /\ Begin(c)
                /\ manual' = [manual EXCEPT !.from = last.largest.key]

(* Nothing is left: the next level, or the end of the call. *)
ManualDone ==
    /\ comp = None /\ manual # None
    /\ ManualInputs(manual.level, manual.from, manual.end) = {}
    /\ manual' = IF manual.level + 1 < manual.max
                 THEN [manual EXCEPT !.level = @ + 1, !.from = manual.begin] ELSE None
    /\ UNCHANGED <<opts, mem, lastSequence, snapshots, files, nextFile, compactPointer, comp>>
-----------------------------------------------------------------------------
(* DoCompactionWork *)

(* No level below the output has a file around k in the version that the   *)
(* compaction started from.                                                *)
IsBaseLevelForKey(c, k) ==
    \A l \in c.level + 2..NumLevels - 1 : Touching(c.version[l], k, k) = {}

(* Rule (A), hidden by a newer entry for the same key, and the rule for    *)
(* deletion markers; last is the sequence of the key's previous entry.     *)
DropAllDeletions(c, e, last) == last <= c.smallestSnapshot \/ (e.del /\ e.seq <= c.smallestSnapshot)
Drop(c, e, last) ==
    \/ last <= c.smallestSnapshot
    \/ e.del /\ e.seq <= c.smallestSnapshot /\ IsBaseLevelForKey(c, e.key)

Inputs(c) == EntriesOf(c.in0 \cup c.in1)

Earlier(E, e)  == {d \in E : Before(d, e)}
Previous(E, e) == CHOOSE d \in Earlier(E, e) : \A x \in Earlier(E, e) \ {d} : Before(x, d)

(* last_sequence_for_key when the loop comes to e. *)
LastSequenceForKey(E, e) ==
    Min({MaxWrites + 1} \cup {d.seq : d \in {d \in Earlier(E, e) : d.key = e.key}})

Kept(c) == {e \in Inputs(c) : ~Drop(c, e, LastSequenceForKey(Inputs(c), e))}

(* ShouldStopBefore: the grandparents that end between the previous entry  *)
(* and e.  Those before the first entry do not count (seen_key_).          *)
Passed(c, e) ==
    {g \in c.grandparents : /\ Earlier(Inputs(c), e) # {} /\ Before(g.largest, e)
                            /\ \A d \in Earlier(Inputs(c), e) : ~Before(g.largest, d)}

(* One iteration of the loop: w is what the previous one left, place the   *)
(* number of the output that e goes to, out that of the output that is     *)
(* open, or will be opened next, and count the entries in it.              *)
WorkOn(c, w, e) ==
    LET bytes == w.bytes + TotalFileSize(Passed(c, e))
        stop  == bytes > MaxOverlap
        place == IF stop /\ w.count > 0 THEN w.out + 1 ELSE w.out
        count == (IF stop THEN 0 ELSE w.count) + (IF e \in Kept(c) THEN 1 ELSE 0)
        full  == e \in Kept(c) /\ count >= opts.target
    IN  [place |-> place, out |-> IF full THEN place + 1 ELSE place,
         count |-> IF full THEN 0 ELSE count, bytes |-> IF stop THEN 0 ELSE bytes]

(* The loop, over the merged inputs in order: where each entry goes. *)
Start   == [out |-> 0, count |-> 0, bytes |-> 0]
Loop(c) ==
    LET E == Inputs(c)
        w[e \in E] == WorkOn(c, IF Earlier(E, e) = {} THEN Start ELSE w[Previous(E, e)], e)
    IN  w
DoCompactionWork(c) == [e \in Kept(c) |-> Loop(c)[e].place]

(* The outputs replace the inputs. *)
InstallCompactionResults ==
    /\ comp # None
    /\ \E outs \in {DoCompactionWork(comp)} :
       LET Output(n) == Table(nextFile + n, {e \in DOMAIN outs : outs[e] = n})
           added     == {Output(n) : n \in Range(outs)}
       IN  /\ files' = SaveTo(SaveTo(files, comp.level, comp.in0, {}),
                              comp.level + 1, comp.in1, added)
           /\ nextFile' = nextFile + Cardinality(added)
    /\ comp' = None
    /\ UNCHANGED <<opts, mem, lastSequence, snapshots, compactPointer, manual>>
-----------------------------------------------------------------------------
Deletes == Cardinality({e \in mem \cup EntriesOf(UNION {files[l] : l \in Levels}) : e.del})

Next ==
    \/ \E k \in opts.keys : Write(k, FALSE) \/ (Deletes < MaxDeletes /\ Write(k, TRUE))
    \/ GetSnapshot \/ \E s \in snapshots : ReleaseSnapshot(s)
    \/ CompactMemTable
    \/ PickSize \/ PickSeek
    \/ \E r \in opts.ranges : CompactRange(r[1], r[2])
    \/ CompactManual \/ ManualDone
    \/ InstallCompactionResults

Spec == Init /\ [][Next]_vars
-----------------------------------------------------------------------------
(* Properties *)

(* Above level 0 the files of a level do not overlap.                      *)
FilesDisjoint ==
    \A l \in Levels \ {0} : \A f, g \in files[l] :
       f # g => Before(f.largest, g.smallest) \/ Before(g.largest, f.smallest)

(* Builder::SaveTo and MaybeAddFile assert that the files of a level above *)
(* 0 do not overlap: so it is, whatever was flushed while a compaction     *)
(* ran, in an execution without manual compactions.  With them it is not:  *)
(* the files that a range takes may leave keys between them free.          *)
LevelsDisjoint == opts.ranges = {} => FilesDisjoint

Hits(k, F) == {e \in EntriesOf(F) : e.key = k}

(* "We can search level-by-level since entries never hop across levels":   *)
(* a key's entries in the memtable, in newer level-0 files and in upper    *)
(* levels are newer than those below them.                                 *)
NewestOnTop ==
    LET Newer(A, B) == \A k \in Keys : \A a \in Hits(k, A), b \in Hits(k, B) : a.seq > b.seq
    IN  /\ \A l \in Levels : Newer({[entries |-> mem]}, files[l])
        /\ \A f, g \in files[0] : f.number > g.number => Newer({f}, {g})
        /\ \A l, m \in Levels : l < m => Newer(files[l], files[m])

(* Reads, with and without a snapshot, are those of a map that nothing but *)
(* Put and Delete changes, with immutable snapshots: flushes, moves and    *)
(* compactions change no answer.                                           *)
Reads == INSTANCE MVStore WITH
    last  <- lastSequence,
    now   <- [k \in Keys |-> Get(k, lastSequence)],
    views <- [s \in snapshots |-> [k \in Keys |-> Get(k, s)]]
ReadsAreStable == Reads!Init /\ [][Reads!Next]_(Reads!vars)
=============================================================================
