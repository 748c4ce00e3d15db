--------------------------- MODULE LsmTreeProofs ---------------------------
(***************************************************************************)
(* Proofs about LsmTree, for any keys, levels, limits and number of writes *)
(* and snapshots: the files of a level do not overlap, newer entries are   *)
(* above older ones, and reads are those of MVStore's map with snapshots.  *)
(*                                                                         *)
(* The invariants are about the compaction under way, which chose its      *)
(* inputs from a version that flushes change until it ends.  Its inputs    *)
(* have no gap in their range of user keys, so that a table that a flush   *)
(* puts into its output level, because it touches no file of that level    *)
(* nor of the one above, is to one side of all of them (DisjointInv).  A   *)
(* request of DB::CompactRange may skip files in the middle of its range   *)
(* and its inputs then have a gap: there are none here (NoManual).  Nor do *)
(* files share a user key above level 0 (OrderInv), given KeysUnsplit;     *)
(* that what a compaction drops is hidden from every reader then follows   *)
(* from the order of levels.                                               *)
(***************************************************************************)
EXTENDS LsmTree, FiniteSetTheorems, WellFoundedInduction, TLAPS

-----------------------------------------------------------------------------
(* Least and greatest elements.                                            *)

(* A nonempty set of numbers has a least element.  Proofs by induction,    *)
(* over entries, over files, are by the least counterexample.              *)
LEMMA NatMin ==
    ASSUME NEW S, S \subseteq Nat, S # {}
    PROVE  \E m \in S : \A n \in S : m <= n
<1>1. PICK m \in S : \A n \in S : ~(<<n, m>> \in OpToRel(<, Nat))
  BY NatLessThanWellFounded, WFMin
<1>2. \A n \in S : ~(n < m)
  BY <1>1 DEF OpToRel
<1> QED BY <1>2

(* What the Min of the library is, of numbers such as those of             *)
(* snapshots_.                                                             *)
LEMMA MinIs ==
    ASSUME NEW S, S \subseteq Nat, S # {}
    PROVE  Min(S) \in S /\ \A n \in S : Min(S) <= n
BY NatMin DEF Min

(* A bounded set of numbers has a greatest element.                        *)
LEMMA NatMax ==
    ASSUME NEW S, S \subseteq Nat, S # {}, NEW b \in Nat, \A n \in S : n <= b
    PROVE  \E m \in S : \A n \in S : m >= n
<1> DEFINE T == {b - n : n \in S}
<1>0. PICK x \in S : TRUE OBVIOUS
<1>1. T \subseteq Nat /\ b - x \in T OBVIOUS
<1>2. PICK t \in T : \A n \in T : t <= n BY <1>1, NatMin
<1>3. PICK m \in S : t = b - m OBVIOUS
<1>4. \A n \in S : b - m <= b - n BY <1>2, <1>3
<1> QED BY <1>4

(* What the Max of the library is.                                         *)
LEMMA MaxIs ==
    ASSUME NEW S, S \subseteq Nat, S # {}, NEW b \in Nat, \A n \in S : n <= b
    PROVE  Max(S) \in S /\ \A n \in S : Max(S) >= n
BY NatMax DEF Max

-----------------------------------------------------------------------------
(* The order of entries.                                                   *)

(* No two of the entries have the same sequence number.                    *)
Distinct(E) == E \subseteq Entry /\ \A a, b \in E : a.seq = b.seq => a = b

(* The user key, the sequence number and the kind of an internal key.      *)
LEMMA EntryTypes ==
    ASSUME NEW e \in Entry
    PROVE  /\ e.key \in Nat /\ 1 <= e.key /\ e.key <= NumKeys
           /\ e.seq \in Nat /\ 1 <= e.seq /\ e.seq <= MaxWrites /\ e.del \in BOOLEAN
BY LevelsAssumption DEF Entry, Keys

(* InternalKeyComparator is a strict total order of internal keys that     *)
(* differ in their sequence numbers.                                       *)
LEMMA BeforeOrder ==
    ASSUME NEW E, Distinct(E)
    PROVE  /\ \A a \in E : ~Before(a, a)
           /\ \A a, b \in E : a # b => Before(a, b) \/ Before(b, a)
           /\ \A a, b \in E : Before(a, b) => ~Before(b, a)
           /\ \A a, b, c \in E : Before(a, b) /\ Before(b, c) => Before(a, c)
BY EntryTypes DEF Distinct, Before

(* Entries have a first one, the smallest key of their table ...           *)
LEMMA FirstEntry ==
    ASSUME NEW E, Distinct(E), E # {}
    PROVE  \E e \in E : \A d \in E \ {e} : Before(e, d)
<1>0. PICK x \in E : TRUE OBVIOUS
<1>1. PICK k \in {e.key : e \in E} : \A n \in {e.key : e \in E} : k <= n
  <2>1. {e.key : e \in E} \subseteq Nat BY EntryTypes DEF Distinct
  <2>2. x.key \in {e.key : e \in E} BY <1>0
  <2> QED BY <2>1, <2>2, NatMin
<1> DEFINE S == {e.seq : e \in {d \in E : d.key = k}}
<1>2. PICK s \in S : \A n \in S : s >= n
  <2>1. S \subseteq Nat /\ \A n \in S : n <= MaxWrites BY EntryTypes DEF Distinct
  <2>2. PICK d \in E : d.key = k BY <1>1
  <2>3. d.seq \in S BY <2>2
  <2> QED BY <2>1, <2>3, NatMax, LevelsAssumption
<1>3. PICK e \in E : e.key = k /\ e.seq = s BY <1>2
<1>4. ASSUME NEW d \in E \ {e} PROVE Before(e, d)
  <2>1. e.key <= d.key BY <1>1, <1>3
  <2>2. d.key = e.key => d.seq <= e.seq BY <1>2, <1>3
  <2>3. d.seq # e.seq BY DEF Distinct
  <2>4. e \in Entry /\ d \in Entry BY DEF Distinct
  <2> QED BY <2>1, <2>2, <2>3, <2>4, EntryTypes DEF Before
<1> QED BY <1>4

(* ... and a last one, its largest key.                                    *)
LEMMA LastEntry ==
    ASSUME NEW E, Distinct(E), E # {}
    PROVE  \E e \in E : \A d \in E \ {e} : Before(d, e)
<1>0. PICK x \in E : TRUE OBVIOUS
<1>1. PICK k \in {e.key : e \in E} : \A n \in {e.key : e \in E} : k >= n
  <2>1. {e.key : e \in E} \subseteq Nat /\ \A n \in {e.key : e \in E} : n <= NumKeys
    BY EntryTypes DEF Distinct
  <2>2. x.key \in {e.key : e \in E} BY <1>0
  <2> QED BY <2>1, <2>2, NatMax, LevelsAssumption
<1> DEFINE S == {e.seq : e \in {d \in E : d.key = k}}
<1>2. PICK s \in S : \A n \in S : s <= n
  <2>1. S \subseteq Nat BY EntryTypes DEF Distinct
  <2>2. PICK d \in E : d.key = k BY <1>1
  <2>3. d.seq \in S BY <2>2
  <2> QED BY <2>1, <2>3, NatMin
<1>3. PICK e \in E : e.key = k /\ e.seq = s BY <1>2
<1>4. ASSUME NEW d \in E \ {e} PROVE Before(d, e)
  <2>1. d.key <= e.key BY <1>1, <1>3
  <2>2. d.key = e.key => e.seq <= d.seq BY <1>2, <1>3
  <2>3. d.seq # e.seq BY DEF Distinct
  <2>4. e \in Entry /\ d \in Entry BY DEF Distinct
  <2> QED BY <2>1, <2>2, <2>3, <2>4, EntryTypes DEF Before
<1> QED BY <1>4

(* A table of the entries between its bounds.                              *)
IsFile(f) ==
    /\ f.number \in Nat /\ Distinct(f.entries)
    /\ f.smallest \in f.entries /\ \A e \in f.entries \ {f.smallest} : Before(f.smallest, e)
    /\ f.largest \in f.entries /\ \A e \in f.entries \ {f.largest} : Before(e, f.largest)

(* What BuildTable and an output of a compaction record as bounds of a     *)
(* table are its first and last entries.                                   *)
LEMMA TableIsFile ==
    ASSUME NEW E, Distinct(E), E # {}, NEW n \in Nat
    PROVE  /\ IsFile(Table(n, E))
           /\ Table(n, E).entries = E /\ Table(n, E).number = n
<1>1. PICK a \in E : \A d \in E \ {a} : Before(a, d) BY FirstEntry
<1>2. PICK b \in E : \A d \in E \ {b} : Before(d, b) BY LastEntry
<1>3. /\ Table(n, E).smallest \in E
      /\ \A d \in E \ {Table(n, E).smallest} : Before(Table(n, E).smallest, d)
  BY <1>1 DEF Table
<1>4. /\ Table(n, E).largest \in E
      /\ \A d \in E \ {Table(n, E).largest} : Before(d, Table(n, E).largest)
  BY <1>2 DEF Table
<1>5. Table(n, E).entries = E /\ Table(n, E).number = n BY DEF Table
<1> QED BY <1>3, <1>4, <1>5 DEF IsFile

(* In user keys: a file's entries are within its bounds.                   *)
LEMMA FileRange ==
    ASSUME NEW f, IsFile(f)
    PROVE  /\ f.smallest \in Entry /\ f.largest \in Entry
           /\ f.smallest.key <= f.largest.key
           /\ \A e \in f.entries : f.smallest.key <= e.key /\ e.key <= f.largest.key
BY EntryTypes DEF IsFile, Distinct, Before

-----------------------------------------------------------------------------
(* The inductive invariant.                                                *)

(* FileMetaData.                                                           *)
FileType == [number : Nat, entries : SUBSET Entry, smallest : Entry, largest : Entry]

(* All entries of the memtables and of the current version.                *)
Stored == mem \cup EntriesOf(UNION {files[l] : l \in Levels})

(* What the variables hold: files whose bounds are right, those of level 0 *)
(* numbered apart and below next_file_number_, and entries up to           *)
(* last_sequence_, no two of them alike.                                   *)
TreeTypes ==
    /\ opts \in Options /\ lastSequence \in 0..MaxWrites /\ nextFile \in Nat
    /\ snapshots \subseteq 0..lastSequence /\ (opts.snapshots = 0 => snapshots = {})
    /\ files \in [Levels -> SUBSET FileType]
    /\ \A l \in Levels : IsFiniteSet(files[l]) /\ \A f \in files[l] : IsFile(f)
    /\ \A f, g \in files[0] : f.number < nextFile /\ (f.number = g.number => f = g)
    /\ Distinct(Stored) /\ \A e \in Stored : e.seq <= lastSequence

(* One of the files has the user key in its range.                         *)
Covers(F, k) == \E f \in F : f.smallest.key <= k /\ k <= f.largest.key

(* No key within the range of the files F falls between them.              *)
NoGap(F) ==
    \A f, g \in F : \A k \in Keys : f.smallest.key <= k /\ k <= g.largest.key => Covers(F, k)

(* Every file of F is before all entries of E or after all of them.        *)
Outside(F, E) ==
    \A h \in F : \/ \A e \in E : Before(h.largest, e)
                 \/ \A e \in E : Before(e, h.smallest)

(* The inputs of a compaction stay files of their levels, and whatever is  *)
(* flushed into the output level meanwhile stays out of their range.       *)
CompShape(c) ==
    /\ c.level \in 0..NumLevels - 2
    /\ c.in0 # {} /\ c.in0 \subseteq files[c.level] /\ c.in1 \subseteq files[c.level + 1]
    /\ NoGap(c.in0 \cup c.in1)
    /\ Outside(files[c.level + 1] \ c.in1, Inputs(c))

(* The inductive invariant of LevelsDisjoint.                              *)
DisjointInv ==
    /\ TreeTypes /\ FilesDisjoint
    /\ manual = None /\ (comp = None \/ CompShape(comp))

-----------------------------------------------------------------------------
(* Files and ranges of user keys.                                          *)

(* The files of a level above 0 as Builder::SaveTo keeps them.             *)
Apart(F) ==
    \A f, g \in F : f # g => Before(f.largest, g.smallest) \/ Before(g.largest, f.smallest)

(* The files of a set, whose entries are all different.                    *)
AreFiles(F) == /\ \A f \in F : IsFile(f)
               /\ Distinct(EntriesOf(F))

(* The entries of a file are among those of a set it belongs to.           *)
LEMMA InEntries ==
    ASSUME NEW F, NEW f \in F, NEW e \in f.entries
    PROVE  e \in EntriesOf(F)
BY DEF EntriesOf

(* The entries of two sets of files, and of one file more.                 *)
LEMMA EntriesUnion ==
    ASSUME NEW F, NEW G
    PROVE  /\ EntriesOf(F \cup G) = EntriesOf(F) \cup EntriesOf(G)
           /\ \A f : EntriesOf(F \cup {f}) = EntriesOf(F) \cup f.entries
BY DEF EntriesOf

(* Each entry of a set of files is in one of them.                         *)
LEMMA EntriesIn ==
    ASSUME NEW F, NEW e \in EntriesOf(F)
    PROVE  \E f \in F : e \in f.entries
BY DEF EntriesOf

(* SomeFileOverlapsRange: the binary search misses no file.                *)
LEMMA NoOverlap ==
    ASSUME NEW F, AreFiles(F), NEW disjoint \in BOOLEAN, disjoint => Apart(F),
           NEW lo \in Keys, NEW hi \in Keys, ~SomeFileOverlapsRange(disjoint, F, lo, hi)
    PROVE  Touching(F, lo, hi) = {}
<1> SUFFICES ASSUME NEW f \in Touching(F, lo, hi) PROVE FALSE OBVIOUS
<1>0. lo \in Nat /\ hi \in Nat BY LevelsAssumption DEF Keys
<1>1. f \in F /\ IsFile(f) /\ ~(f.largest.key < lo) /\ ~(f.smallest.key > hi)
  BY DEF Touching, AreFiles
<1>2. CASE ~disjoint
  <2>1. AfterFile(lo, f) \/ BeforeFile(hi, f) BY <1>1, <1>2 DEF SomeFileOverlapsRange
  <2> QED BY <2>1, <1>0, <1>1, FileRange, EntryTypes DEF AfterFile, BeforeFile
<1>3. CASE disjoint
  <2> DEFINE key == [key |-> lo, seq |-> MaxWrites + 1]
             C == {g \in F : ~Before(g.largest, key)}
             S == {g.smallest : g \in C}
  <2>1. f \in C
    <3>1. f.largest.key \in Nat /\ f.largest.seq \in Nat /\ f.largest.seq <= MaxWrites
      BY <1>1, FileRange, EntryTypes
    <3>2. ~Before(f.largest, key) BY <3>1, <1>0, <1>1, LevelsAssumption DEF Before
    <3> QED BY <3>2, <1>1
  <2>2. Distinct(S) /\ S # {}
    <3>1. S \subseteq EntriesOf(F) BY InEntries DEF AreFiles, IsFile
    <3> QED BY <3>1, <2>1 DEF AreFiles, Distinct
  <2>3. PICK e \in S : \A d \in S \ {e} : Before(e, d) BY <2>2, FirstEntry
  <2>4. PICK g \in C : e = g.smallest OBVIOUS
  <2>5. ASSUME NEW h \in F, BySmallestKey(h, g) PROVE Before(h.largest, key)
    <3> SUFFICES ASSUME h \in C PROVE FALSE OBVIOUS
    <3>1. IsFile(h) /\ IsFile(g) BY DEF AreFiles
    <3>2. h.smallest \in S /\ g.smallest \in S OBVIOUS
    <3>3. CASE Before(h.smallest, g.smallest)
      BY <3>2, <3>3, <2>2, <2>3, <2>4, BeforeOrder
    <3>4. CASE h.smallest = g.smallest /\ h.number < g.number
      <4>1. h # g BY <3>1, <3>4 DEF IsFile
      <4>2. Before(h.largest, h.smallest) \/ Before(g.largest, g.smallest)
        BY <4>1, <3>4, <1>3 DEF Apart
      <4> QED BY <4>2, <3>1, BeforeOrder DEF IsFile
    <3> QED BY <3>3, <3>4, <2>5 DEF BySmallestKey
  <2>6. g \in FindFile(F, key) BY <2>5 DEF FindFile
  <2>7. BeforeFile(hi, g) BY <2>6, <1>3 DEF SomeFileOverlapsRange
  <2>8. e = f.smallest \/ Before(e, f.smallest) BY <2>1, <2>3
  <2>9. e.key <= f.smallest.key
    BY <2>8, <2>4, <1>1, FileRange, EntryTypes DEF Before, AreFiles
  <2> QED BY <2>9, <2>7, <2>4, <1>0, <1>1, FileRange, EntryTypes DEF BeforeFile, AreFiles
<1> QED BY <1>2, <1>3

(* A level of the version is finitely many files with different entries.   *)
LEMMA LevelIsFiles ==
    ASSUME TreeTypes, NEW l \in Levels
    PROVE  AreFiles(files[l]) /\ IsFiniteSet(files[l]) /\ EntriesOf(files[l]) \subseteq Stored
<1>1. EntriesOf(files[l]) \subseteq Stored BY DEF Stored, EntriesOf
<1> QED BY <1>1 DEF TreeTypes, AreFiles, Distinct

(* PickLevelForMemTableOutput: a table that goes below level 0 touches no  *)
(* file of the levels down to the one it goes to.                          *)
LEMMA PickLevelFits ==
    ASSUME TreeTypes, FilesDisjoint, NEW lo \in Keys, NEW hi \in Keys,
           NEW m, m = PickLevelForMemTableOutput(files, lo, hi)
    PROVE  /\ m \in Levels
           /\ m # 0 => \A l \in 0..m : Touching(files[l], lo, hi) = {}
<1>0. MaxMemCompactLevel \in Nat /\ MaxMemCompactLevel < NumLevels /\ NumLevels \in Nat
  BY LevelsAssumption
<1>1. CASE OverlapInLevel(files, 0, lo, hi)
  BY <1>0, <1>1 DEF PickLevelForMemTableOutput, Levels
<1>2. CASE ~OverlapInLevel(files, 0, lo, hi)
  <2> DEFINE Descend(l) ==
               /\ ~OverlapInLevel(files, l + 1, lo, hi)
               /\ l + 2 < NumLevels =>
                    TotalFileSize(GetOverlappingInputs(files, l + 2, lo, hi)) <= MaxOverlap
             M == {x \in 0..MaxMemCompactLevel : \A l \in 0..x - 1 : Descend(l)}
  <2>1. m = Max(M) BY <1>2 DEF PickLevelForMemTableOutput
  <2>2. M \subseteq Nat /\ 0 \in M /\ \A x \in M : x <= MaxMemCompactLevel
    <3> HIDE DEF Descend
    <3> QED BY <1>0
  <2>3. m \in M
    <3> HIDE DEF M
    <3> QED BY <2>1, <2>2, <1>0, MaxIs
  <2>4. m \in Nat /\ m < NumLevels
    <3> HIDE DEF Descend
    <3> QED BY <2>3, <1>0
  <2>5. ASSUME NEW l \in 0..m PROVE ~OverlapInLevel(files, l, lo, hi)
    <3>1. CASE l = 0 BY <3>1, <1>2
    <3>2. CASE l # 0
      <4>1. l - 1 \in 0..m - 1 /\ l - 1 + 1 = l BY <3>2, <2>4
      <4>2. Descend(l - 1)
        <5> HIDE DEF Descend
        <5> QED BY <4>1, <2>3
      <4> QED BY <4>1, <4>2
    <3> QED BY <3>1, <3>2
  <2>6. ASSUME NEW l \in 0..m PROVE Touching(files[l], lo, hi) = {}
    <3>1. l \in Levels /\ (l > 0) \in BOOLEAN BY <2>4, <1>0 DEF Levels
    <3>2. AreFiles(files[l]) BY <3>1, LevelIsFiles
    <3>3. l > 0 => Apart(files[l]) BY <3>1 DEF FilesDisjoint, Apart, Levels
    <3>4. ~SomeFileOverlapsRange(l > 0, files[l], lo, hi) BY <2>5 DEF OverlapInLevel
    <3> QED BY <3>1, <3>2, <3>3, <3>4, NoOverlap
  <2> QED BY <2>4, <2>6, <1>0 DEF Levels
<1> QED BY <1>1, <1>2

(* The range that level-0 inputs grow to is itself one no file sticks out  *)
(* of, and it cannot be made smaller.                                      *)
LEMMA GrownLeast ==
    ASSUME NEW F, \A f \in F : IsFile(f), NEW lo \in Keys, NEW hi \in Keys, lo <= hi,
           NEW a, a = Max({r[1] : r \in Grown(F, lo, hi)}),
           NEW b, b = Min({r[2] : r \in Grown(F, lo, hi)})
    PROVE  /\ <<a, b>> \in Grown(F, lo, hi)
           /\ \A r \in Grown(F, lo, hi) : r[1] <= a /\ b <= r[2]
<1> DEFINE G == Grown(F, lo, hi)  A == {r[1] : r \in G}  B == {r[2] : r \in G}
<1>0. lo \in Nat /\ hi \in Nat /\ NumKeys \in Nat /\ hi <= NumKeys
  BY LevelsAssumption DEF Keys
<1>F. ASSUME NEW f \in F
      PROVE  /\ f.smallest.key \in Nat /\ f.largest.key \in Nat
             /\ 0 <= f.smallest.key /\ f.largest.key <= NumKeys + 1
  BY <1>0, FileRange, EntryTypes
<1>1. \A r \in G : /\ r[1] \in Nat /\ r[2] \in Nat /\ r[1] <= lo /\ hi <= r[2]
                   /\ r[2] <= NumKeys + 1
  BY <1>0 DEF Grown
<1>2. <<0, NumKeys + 1>> \in G
  <2>1. <<0, NumKeys + 1>> \in (0..lo) \X (hi..NumKeys + 1) BY <1>0
  <2> QED BY <2>1, <1>F DEF Grown, Touching
<1> HIDE DEF G
<1>3. A \subseteq Nat /\ A # {} /\ \A n \in A : n <= lo BY <1>1, <1>2
<1>4. B \subseteq Nat /\ B # {} BY <1>1, <1>2
<1>5. a \in A /\ \A n \in A : a >= n
  <2> HIDE DEF A
  <2> QED BY <1>3, <1>0, MaxIs DEF A, G
<1>6. b \in B /\ \A n \in B : b <= n
  <2> HIDE DEF B
  <2> QED BY <1>4, MinIs DEF B, G
<1>7. PICK p \in G : p[1] = a BY <1>5
<1>8. PICK q \in G : q[2] = b BY <1>6
<1>9. <<a, b>> \in (0..lo) \X (hi..NumKeys + 1) BY <1>0, <1>1, <1>7, <1>8
<1>10. p[1] >= q[1] /\ q[2] <= p[2] BY <1>5, <1>6, <1>7, <1>8
<1>11. ASSUME NEW f \in Touching(F, a, b) PROVE a <= f.smallest.key /\ f.largest.key <= b
  <2>1. f \in F /\ ~(f.largest.key < a) /\ ~(f.smallest.key > b) BY DEF Touching
  <2>2. f \in Touching(F, p[1], p[2]) /\ f \in Touching(F, q[1], q[2])
    BY <2>1, <1>F, <1>1, <1>7, <1>8, <1>10 DEF Touching
  <2> QED BY <2>2, <1>7, <1>8 DEF G, Grown
<1>12. <<a, b>> \in G BY <1>9, <1>11 DEF G, Grown
<1> QED BY <1>12, <1>5, <1>6 DEF G

(* GetOverlappingInputs: the files it returns, and what is not among them. *)
LEMMA OverlappingInputs ==
    ASSUME NEW v, NEW l \in Nat, \A f \in v[l] : IsFile(f),
           NEW lo \in Keys, NEW hi \in Keys, lo <= hi,
           NEW G, G = GetOverlappingInputs(v, l, lo, hi)
    PROVE  /\ Touching(v[l], lo, hi) \subseteq G /\ G \subseteq v[l]
           /\ l > 0 => G = Touching(v[l], lo, hi)
           /\ l = 0 => \A f \in G, g \in v[l] \ G : \/ f.largest.key < g.smallest.key
                                                   \/ g.largest.key < f.smallest.key
           /\ \A f \in G, k \in Keys : \/ f.smallest.key <= k /\ k < lo
                                       \/ hi < k /\ k <= f.largest.key
                                      => Covers(G, k)
<1>0. lo \in Nat /\ hi \in Nat /\ NumKeys \in Nat /\ hi <= NumKeys /\ lo <= NumKeys
      /\ Keys \subseteq Nat
  BY LevelsAssumption DEF Keys
<1>F. ASSUME NEW f \in v[l]
      PROVE  /\ f.smallest.key \in Nat /\ f.largest.key \in Nat
             /\ f.smallest.key <= f.largest.key
  BY FileRange, EntryTypes
<1>1. CASE l > 0
  <2>1. G = Touching(v[l], lo, hi) BY <1>1 DEF GetOverlappingInputs
  <2>2. G \subseteq v[l] /\ \A f \in G : ~(f.largest.key < lo) /\ ~(f.smallest.key > hi)
    BY <2>1 DEF Touching
  <2>3. ASSUME NEW f \in G, NEW k \in Keys, \/ f.smallest.key <= k /\ k < lo
                                            \/ hi < k /\ k <= f.largest.key
        PROVE  Covers(G, k)
    BY <2>2, <2>3, <1>F, <1>0 DEF Covers
  <2> QED BY <1>1, <2>1, <2>2, <2>3
<1>2. CASE ~(l > 0)
  <2>0. l = 0 BY <1>2
  <2> DEFINE R == Grown(v[0], lo, hi)  a == Max({r[1] : r \in R})  b == Min({r[2] : r \in R})
  <2>1. G = Touching(v[0], a, b) BY <1>2 DEF GetOverlappingInputs
  <2>2. <<a, b>> \in R /\ \A r \in R : r[1] <= a /\ b <= r[2] BY <2>0, GrownLeast
  <2> HIDE DEF a, b
  <2>3. /\ a \in Nat /\ b \in Nat /\ a <= lo /\ hi <= b /\ b <= NumKeys + 1
        /\ \A f \in G : a <= f.smallest.key /\ f.largest.key <= b
    BY <2>1, <2>2, <1>0 DEF Grown
  <2>4. \A f \in v[l] : f \in G <=> ~(f.largest.key < a) /\ ~(f.smallest.key > b)
    BY <2>0, <2>1 DEF Touching
  <2>5. G \subseteq v[l] BY <2>0, <2>1 DEF Touching
  <2>6. Touching(v[l], lo, hi) \subseteq G BY <2>3, <2>4, <1>F, <1>0 DEF Touching
  <2>7. \A f \in G, g \in v[l] \ G : f.largest.key < g.smallest.key \/ g.largest.key < f.smallest.key
    BY <2>3, <2>4, <2>5, <1>F
  <2>8. ASSUME NEW f \in G, NEW k \in Keys, f.smallest.key <= k, k < lo, ~Covers(G, k)
        PROVE  FALSE
    <3>1. k \in Nat /\ a <= k BY <2>3, <2>5, <2>8, <1>F, <1>0
    <3>2. <<k + 1, b>> \in (0..lo) \X (hi..NumKeys + 1) BY <3>1, <2>3, <2>8, <1>0
    <3>3. ASSUME NEW g \in Touching(v[0], k + 1, b)
          PROVE  k + 1 <= g.smallest.key /\ g.largest.key <= b
      <4>1. g \in v[l] /\ ~(g.largest.key < k + 1) /\ ~(g.smallest.key > b)
        BY <2>0 DEF Touching
      <4>2. g \in G BY <4>1, <3>1, <2>3, <2>4, <1>F
      <4>3. ~(g.smallest.key <= k /\ k <= g.largest.key) BY <4>2, <2>8 DEF Covers
      <4> QED BY <4>1, <4>2, <4>3, <3>1, <2>3, <1>F
    <3>4. <<k + 1, b>> \in R BY <3>2, <3>3 DEF Grown
    <3> QED BY <3>4, <3>1, <2>2, <2>3 DEF a
  <2>9. ASSUME NEW f \in G, NEW k \in Keys, hi < k, k <= f.largest.key, ~Covers(G, k)
        PROVE  FALSE
    <3>1. k \in Nat /\ k <= b BY <2>3, <2>5, <2>9, <1>F, <1>0
    <3>2. <<a, k - 1>> \in (0..lo) \X (hi..NumKeys + 1) BY <3>1, <2>3, <2>9, <1>0
    <3>3. ASSUME NEW g \in Touching(v[0], a, k - 1)
          PROVE  a <= g.smallest.key /\ g.largest.key <= k - 1
      <4>1. g \in v[l] /\ ~(g.largest.key < a) /\ ~(g.smallest.key > k - 1)
        BY <2>0 DEF Touching
      <4>2. g \in G BY <4>1, <3>1, <2>3, <2>4, <1>F
      <4>3. ~(g.smallest.key <= k /\ k <= g.largest.key) BY <4>2, <2>9 DEF Covers
      <4> QED BY <4>1, <4>2, <4>3, <3>1, <2>3, <1>F
    <3>4. <<a, k - 1>> \in R BY <3>2, <3>3 DEF Grown
    <3>5. b <= k - 1 BY <3>4, <2>2
    <3> QED BY <3>5, <3>1, <2>3
  <2> QED BY <2>0, <2>5, <2>6, <2>7, <2>8, <2>9
<1> QED BY <1>1, <1>2

(* GetRange: the bounds of some of the files, around all of them.          *)
LEMMA RangeOfFiles ==
    ASSUME NEW F, F # {}, \A f \in F : IsFile(f)
    PROVE  /\ Low(F) \in Keys /\ High(F) \in Keys /\ Low(F) <= High(F)
           /\ \A f \in F : Low(F) <= f.smallest.key /\ f.largest.key <= High(F)
           /\ \E f \in F : f.smallest.key = Low(F)
           /\ \E f \in F : f.largest.key = High(F)
<1> DEFINE K == {e.key : e \in EntriesOf(F)}
<1>0. EntriesOf(F) \subseteq Entry BY EntriesIn DEF IsFile, Distinct
<1>1. K \subseteq Keys /\ Keys \subseteq Nat BY <1>0 DEF Entry, Keys
<1>2. \A f \in F : f.smallest.key \in K /\ f.largest.key \in K BY InEntries DEF IsFile
<1>3. K # {} /\ K \subseteq Nat BY <1>1, <1>2
<1>4. NumKeys \in Nat /\ \A k \in K : k <= NumKeys BY <1>1, LevelsAssumption DEF Keys
<1> HIDE DEF K
<1>5. Min(K) \in K /\ \A k \in K : Min(K) <= k BY <1>3, MinIs
<1>6. Max(K) \in K /\ \A k \in K : Max(K) >= k BY <1>3, <1>4, MaxIs
<1>7. Low(F) = Min(K) /\ High(F) = Max(K) BY DEF Low, High, K
<1>8. PICK x \in EntriesOf(F) : x.key = Low(F) BY <1>5, <1>7 DEF K
<1>9. PICK y \in EntriesOf(F) : y.key = High(F) BY <1>6, <1>7 DEF K
<1>10. PICK f \in F : x \in f.entries BY EntriesIn
<1>11. PICK g \in F : y \in g.entries BY EntriesIn
<1>12. f.smallest.key <= x.key /\ y.key <= g.largest.key BY <1>10, <1>11, FileRange
<1>13. Low(F) <= f.smallest.key /\ g.largest.key <= High(F) BY <1>2, <1>5, <1>6, <1>7
<1>14. f.smallest.key \in Nat /\ g.largest.key \in Nat /\ x.key \in Nat /\ y.key \in Nat
  BY <1>1, <1>2, <1>5, <1>6, <1>7, <1>8, <1>9
<1>15. f.smallest.key = Low(F) /\ g.largest.key = High(F)
  BY <1>8, <1>9, <1>12, <1>13, <1>14
<1>16. Low(F) <= High(F) BY <1>5, <1>6, <1>7, <1>14
<1> QED BY <1>1, <1>2, <1>5, <1>6, <1>7, <1>15, <1>16

-----------------------------------------------------------------------------
(* The choice of inputs.                                                   *)

(* Inputs without a gap, and with them files of the same or the next       *)
(* level that fill the range between their keys and their own, have none.  *)
LEMMA NoGapGrows ==
    ASSUME NEW F, NEW G, F # {}, \A f \in F \cup G : IsFile(f), NoGap(F),
           \A f \in G, k \in Keys : \/ f.smallest.key <= k /\ k < Low(F)
                                    \/ High(F) < k /\ k <= f.largest.key
                                   => Covers(G, k)
    PROVE  NoGap(F \cup G)
<1> SUFFICES ASSUME NEW f \in F \cup G, NEW g \in F \cup G, NEW k \in Keys,
                    f.smallest.key <= k, k <= g.largest.key
             PROVE  Covers(F \cup G, k)
  BY DEF NoGap
<1>0. k \in Nat /\ Low(F) \in Nat /\ High(F) \in Nat
  BY RangeOfFiles, LevelsAssumption DEF Keys
<1>F. \A x \in F \cup G : x.smallest.key \in Nat /\ x.largest.key \in Nat BY FileRange, EntryTypes
<1>1. CASE k < Low(F)
  <2>1. f \in G BY <1>0, <1>1, <1>F, RangeOfFiles
  <2> QED BY <2>1, <1>1 DEF Covers
<1>2. CASE High(F) < k
  <2>1. g \in G BY <1>0, <1>2, <1>F, RangeOfFiles
  <2> QED BY <2>1, <1>2 DEF Covers
<1>3. CASE Low(F) <= k /\ k <= High(F)
  <2>1. PICK x \in F : x.smallest.key = Low(F) BY RangeOfFiles
  <2>2. PICK y \in F : y.largest.key = High(F) BY RangeOfFiles
  <2>3. Covers(F, k) BY <2>1, <2>2, <1>3 DEF NoGap
  <2> QED BY <2>3 DEF Covers
<1> QED BY <1>0, <1>1, <1>2, <1>3

(* A file of the output level that no input touches is to one side of all  *)
(* inputs, the ones of its own level included.                             *)
LEMMA OutsideInputs ==
    ASSUME NEW F, AreFiles(F), Apart(F), NEW X, X # {}, \A f \in X : IsFile(f),
           NEW T, T = Touching(F, Low(X), High(X))
    PROVE  Outside(F \ T, EntriesOf(X \cup T))
<1> SUFFICES ASSUME NEW h \in F \ T
             PROVE  \/ \A e \in EntriesOf(X \cup T) : Before(h.largest, e)
                    \/ \A e \in EntriesOf(X \cup T) : Before(e, h.smallest)
  BY DEF Outside
<1>0. /\ Low(X) \in Nat /\ High(X) \in Nat /\ Low(X) <= High(X)
      /\ \A f \in X : Low(X) <= f.smallest.key /\ f.largest.key <= High(X)
  BY RangeOfFiles, LevelsAssumption DEF Keys
<1>1. IsFile(h) /\ h \in F /\ (h.largest.key < Low(X) \/ h.smallest.key > High(X))
  BY DEF Touching, AreFiles
<1>2. \A g \in T : /\ g \in F /\ IsFile(g) /\ g # h
                   /\ ~(g.largest.key < Low(X)) /\ ~(g.smallest.key > High(X))
  BY DEF Touching, AreFiles
<1>3. CASE h.largest.key < Low(X)
  <2>1. ASSUME NEW e \in EntriesOf(X \cup T) PROVE Before(h.largest, e)
    <3>1. PICK g \in X \cup T : e \in g.entries BY EntriesIn
    <3>2. CASE g \in X BY <3>1, <3>2, <1>0, <1>1, <1>3, FileRange, EntryTypes DEF Before, IsFile, Distinct
    <3>3. CASE g \in T
      <4>1. ~Before(g.largest, h.smallest)
        BY <3>3, <1>0, <1>1, <1>2, <1>3, FileRange, EntryTypes DEF Before
      <4>2. Before(h.largest, g.smallest) BY <4>1, <3>3, <1>1, <1>2 DEF Apart
      <4>3. e = g.smallest \/ Before(g.smallest, e) BY <3>1, <3>3, <1>2 DEF IsFile
      <4>4. {e, g.smallest, h.largest} \subseteq Entry
        BY <3>1, <3>3, <1>1, <1>2, FileRange DEF IsFile, Distinct
      <4> QED BY <4>2, <4>3, <4>4, EntryTypes DEF Before
    <3> QED BY <3>2, <3>3
  <2> QED BY <2>1
<1>4. CASE h.smallest.key > High(X)
  <2>1. ASSUME NEW e \in EntriesOf(X \cup T) PROVE Before(e, h.smallest)
    <3>1. PICK g \in X \cup T : e \in g.entries BY EntriesIn
    <3>2. CASE g \in X BY <3>1, <3>2, <1>0, <1>1, <1>4, FileRange, EntryTypes DEF Before, IsFile, Distinct
    <3>3. CASE g \in T
      <4>1. ~Before(h.largest, g.smallest)
        BY <3>3, <1>0, <1>1, <1>2, <1>4, FileRange, EntryTypes DEF Before
      <4>2. Before(g.largest, h.smallest) BY <4>1, <3>3, <1>1, <1>2 DEF Apart
      <4>3. e = g.largest \/ Before(e, g.largest) BY <3>1, <3>3, <1>2 DEF IsFile
      <4>4. {e, g.largest, h.smallest} \subseteq Entry
        BY <3>1, <3>3, <1>1, <1>2, FileRange DEF IsFile, Distinct
      <4> QED BY <4>2, <4>3, <4>4, EntryTypes DEF Before
    <3> QED BY <3>2, <3>3
  <2> QED BY <2>1
<1> QED BY <1>1, <1>3, <1>4

(* The files F of level 0 overlap no other file of it.                     *)
Closed(F) == \A f \in F, g \in files[0] \ F : \/ f.largest.key < g.smallest.key
                                              \/ g.largest.key < f.smallest.key

(* A compaction as SetupOtherInputs makes it.                              *)
Chosen(c) ==
    /\ CompShape(c) /\ c.version = files
    /\ c.smallestSnapshot = IF snapshots = {} THEN lastSequence ELSE Min(snapshots)
    /\ c.in1 = Touching(files[c.level + 1], Low(c.in0), High(c.in0))
    /\ c.level = 0 => Closed(c.in0)
    /\ \/ c.grandparents = {}
       \/ c.level + 2 \in Levels /\ c.grandparents \subseteq files[c.level + 2]

(* SetupOtherInputs: whatever inputs it is given and however it expands    *)
(* them, the inputs it ends with have no gap, the files of the next level  *)
(* it leaves out are outside their range, and the grandparents are files   *)
(* of the level after.                                                     *)
LEMMA SetupFits ==
    ASSUME TreeTypes, FilesDisjoint, NEW l \in 0..NumLevels - 2,
           NEW in0, in0 \subseteq files[l], in0 # {}, NoGap(in0), l = 0 => Closed(in0),
           NEW c, c = SetupOtherInputs(l, in0, FALSE)
    PROVE  Chosen(c) /\ c.isManual = FALSE
<1> DEFINE in1  == GetOverlappingInputs(files, l + 1, Low(in0), High(in0))
           all  == in0 \cup in1
           exp0 == GetOverlappingInputs(files, l, Low(all), High(all))
           exp1 == GetOverlappingInputs(files, l + 1, Low(exp0), High(exp0))
           grow == /\ in1 # {}
                   /\ Cardinality(exp0) > Cardinality(in0)
                   /\ TotalFileSize(in1) + TotalFileSize(exp0) < ExpandLimit
                   /\ Cardinality(exp1) = Cardinality(in1)
           new0 == IF grow THEN exp0 ELSE in0
           new1 == IF grow THEN exp1 ELSE in1
           both == new0 \cup new1
<1>0. /\ l \in Levels /\ l + 1 \in Levels /\ l \in Nat /\ l + 1 \in Nat /\ l + 1 > 0
      /\ l + 1 # 0 /\ NumLevels \in Nat
  BY LevelsAssumption DEF Levels
<1>1. /\ AreFiles(files[l]) /\ AreFiles(files[l + 1])
      /\ IsFiniteSet(files[l]) /\ IsFiniteSet(files[l + 1])
  BY <1>0, LevelIsFiles
<1>2. Apart(files[l + 1]) BY <1>0 DEF FilesDisjoint, Apart
<1>3. /\ c.level = l /\ c.in0 = new0 /\ c.in1 = new1 /\ c.isManual = FALSE /\ c.version = files
      /\ c.grandparents = IF l + 2 < NumLevels
                          THEN GetOverlappingInputs(files, l + 2, Low(both), High(both)) ELSE {}
      /\ c.smallestSnapshot = IF snapshots = {} THEN lastSequence ELSE Min(snapshots)
  BY DEF SetupOtherInputs
<1> HIDE DEF in1, exp0, exp1, grow
<1>4. /\ \A f \in files[l] : IsFile(f)
      /\ \A f \in files[l + 1] : IsFile(f)
      /\ \A f \in in0 : IsFile(f)
  BY <1>1 DEF AreFiles
<1>5. Low(in0) \in Keys /\ High(in0) \in Keys /\ Low(in0) <= High(in0) BY <1>4, RangeOfFiles
<1>6. /\ in1 = Touching(files[l + 1], Low(in0), High(in0)) /\ in1 \subseteq files[l + 1]
      /\ \A f \in in1, k \in Keys : \/ f.smallest.key <= k /\ k < Low(in0)
                                    \/ High(in0) < k /\ k <= f.largest.key
                                   => Covers(in1, k)
  BY <1>0, <1>4, <1>5, OverlappingInputs DEF in1
<1>7. (\A f \in all : IsFile(f)) /\ all # {} BY <1>4, <1>6
<1>8. NoGap(all) BY <1>4, <1>6, <1>7, NoGapGrows
<1>9. Low(all) \in Keys /\ High(all) \in Keys /\ Low(all) <= High(all) BY <1>7, RangeOfFiles
<1>10. /\ Touching(files[l], Low(all), High(all)) \subseteq exp0 /\ exp0 \subseteq files[l]
       /\ l = 0 => Closed(exp0)
       /\ \A f \in exp0, k \in Keys : \/ f.smallest.key <= k /\ k < Low(all)
                                      \/ High(all) < k /\ k <= f.largest.key
                                     => Covers(exp0, k)
  <2> HIDE DEF all
  <2>1. /\ Touching(files[l], Low(all), High(all)) \subseteq exp0 /\ exp0 \subseteq files[l]
        /\ l = 0 => \A f \in exp0, g \in files[l] \ exp0 : \/ f.largest.key < g.smallest.key
                                                          \/ g.largest.key < f.smallest.key
        /\ \A f \in exp0, k \in Keys : \/ f.smallest.key <= k /\ k < Low(all)
                                       \/ High(all) < k /\ k <= f.largest.key
                                      => Covers(exp0, k)
    BY <1>0, <1>4, <1>9, OverlappingInputs DEF exp0
  <2>2. l = 0 => Closed(exp0) BY <2>1 DEF Closed
  <2> QED BY <2>1, <2>2
<1>11. in0 \subseteq exp0
  <2> SUFFICES ASSUME NEW f \in in0 PROVE f \in Touching(files[l], Low(all), High(all))
    BY <1>10
  <2>1. Low(all) <= f.smallest.key /\ f.largest.key <= High(all) BY <1>7, RangeOfFiles
  <2>2. f.smallest.key <= f.largest.key /\ f.smallest.key \in Nat /\ f.largest.key \in Nat
    BY <1>4, FileRange, EntryTypes
  <2>3. Low(all) \in Nat /\ High(all) \in Nat BY <1>9, LevelsAssumption DEF Keys
  <2> QED BY <2>1, <2>2, <2>3 DEF Touching
<1>12. (\A f \in exp0 : IsFile(f)) /\ exp0 # {} BY <1>4, <1>10, <1>11
<1>13. Low(exp0) \in Keys /\ High(exp0) \in Keys /\ Low(exp0) <= High(exp0) BY <1>12, RangeOfFiles
<1>14. exp1 = Touching(files[l + 1], Low(exp0), High(exp0)) /\ exp1 \subseteq files[l + 1]
  BY <1>0, <1>4, <1>13, OverlappingInputs DEF exp1
<1>15. in1 \subseteq exp1
  <2> SUFFICES ASSUME NEW f \in in1 PROVE f \in Touching(files[l + 1], Low(exp0), High(exp0))
    BY <1>14
  <2>1. Low(exp0) <= Low(in0) /\ High(in0) <= High(exp0)
    <3>1. PICK x \in in0 : x.smallest.key = Low(in0) BY <1>4, RangeOfFiles
    <3>2. PICK y \in in0 : y.largest.key = High(in0) BY <1>4, RangeOfFiles
    <3> QED BY <3>1, <3>2, <1>11, <1>12, RangeOfFiles
  <2>2. f \in files[l + 1] /\ ~(f.largest.key < Low(in0)) /\ ~(f.smallest.key > High(in0))
    BY <1>6 DEF Touching
  <2>3. f.smallest.key \in Nat /\ f.largest.key \in Nat BY <2>2, <1>4, FileRange, EntryTypes
  <2>4. {Low(exp0), High(exp0), Low(in0), High(in0)} \subseteq Nat
    BY <1>5, <1>13, LevelsAssumption DEF Keys
  <2> QED BY <2>1, <2>2, <2>3, <2>4 DEF Touching
<1>16. grow => exp1 = in1
  <2>1. IsFiniteSet(exp1) BY <1>1, <1>14, FS_Subset
  <2>2. Cardinality(exp1) = Cardinality(in1) => exp1 = in1 BY <2>1, <1>15, FS_Subset
  <2> QED BY <2>2 DEF grow
<1>17. NoGap(exp0 \cup in1)
  <2>1. \A f \in all \cup exp0 : IsFile(f) BY <1>7, <1>12
  <2>2. NoGap(all \cup exp0) BY <2>1, <1>7, <1>8, <1>10, NoGapGrows
  <2>3. all \cup exp0 = exp0 \cup in1 BY <1>11
  <2> QED BY <2>2, <2>3
<1>18. /\ new0 \subseteq files[l] /\ new0 # {} /\ new1 \subseteq files[l + 1]
       /\ new1 = Touching(files[l + 1], Low(new0), High(new0))
       /\ NoGap(new0 \cup new1) /\ (l = 0 => Closed(new0)) /\ \A f \in new0 : IsFile(f)
  BY <1>4, <1>6, <1>8, <1>10, <1>12, <1>14, <1>16, <1>17
<1>19. c.grandparents = {} \/ (l + 2 \in Levels /\ c.grandparents \subseteq files[l + 2])
  <2> SUFFICES ASSUME l + 2 < NumLevels PROVE l + 2 \in Levels /\ c.grandparents \subseteq files[l + 2]
    BY <1>3
  <2>1. l + 2 \in Levels /\ l + 2 \in Nat BY <1>0 DEF Levels
  <2>2. (\A f \in both : IsFile(f)) /\ both # {} BY <1>4, <1>18
  <2>3. Low(both) \in Keys /\ High(both) \in Keys /\ Low(both) <= High(both)
    <3> HIDE DEF both
    <3> QED BY <2>2, RangeOfFiles
  <2>4. \A f \in files[l + 2] : IsFile(f) BY <2>1 DEF TreeTypes
  <2>5. GetOverlappingInputs(files, l + 2, Low(both), High(both)) \subseteq files[l + 2]
    <3> HIDE DEF both
    <3> QED BY <2>1, <2>3, <2>4, OverlappingInputs
  <2> QED BY <2>1, <2>5, <1>3
<1> HIDE DEF new0, new1
<1>20. Outside(files[l + 1] \ new1, EntriesOf(new0 \cup new1))
  BY <1>1, <1>2, <1>18, OutsideInputs
<1>21. CompShape(c) BY <1>3, <1>18, <1>20 DEF CompShape, Inputs
<1> QED BY <1>3, <1>18, <1>19, <1>21 DEF Chosen

(* The range of a single file.                                             *)
LEMMA NoGapOne ==
    ASSUME NEW f, IsFile(f)
    PROVE  NoGap({f}) /\ Low({f}) = f.smallest.key /\ High({f}) = f.largest.key
<1>1. NoGap({f}) BY DEF NoGap, Covers
<1>2. \A g \in {f} : IsFile(g) OBVIOUS
<1> QED BY <1>1, <1>2, RangeOfFiles

(* PickCompaction: what a compaction begins with is some files of its      *)
(* level without a gap, in level 0 with all files that overlap them.       *)
LEMMA PickedFits ==
    ASSUME TreeTypes, NEW l \in Levels, NEW f \in files[l], NEW in0, in0 = Picked(l, f)
    PROVE  in0 \subseteq files[l] /\ in0 # {} /\ NoGap(in0) /\ (l = 0 => Closed(in0))
<1>0. IsFile(f) /\ \A g \in files[l] : IsFile(g) BY DEF TreeTypes
<1>1. CASE l # 0
  <2>1. in0 = {f} BY <1>1 DEF Picked
  <2> QED BY <2>1, <1>0, <1>1, NoGapOne
<1>2. CASE l = 0
  <2> DEFINE lo == f.smallest.key  hi == f.largest.key
  <2>1. in0 = GetOverlappingInputs(files, l, lo, hi) BY <1>2 DEF Picked
  <2>2. lo \in Keys /\ hi \in Keys /\ lo <= hi /\ lo \in Nat /\ hi \in Nat /\ l \in Nat
    BY <1>0, <1>2, FileRange, EntryTypes DEF Entry
  <2> HIDE DEF lo, hi
  <2>3. /\ Touching(files[l], lo, hi) \subseteq in0 /\ in0 \subseteq files[l]
        /\ \A g \in in0, h \in files[l] \ in0 : \/ g.largest.key < h.smallest.key
                                               \/ h.largest.key < g.smallest.key
        /\ \A g \in in0, k \in Keys : \/ g.smallest.key <= k /\ k < lo
                                      \/ hi < k /\ k <= g.largest.key
                                     => Covers(in0, k)
    BY <1>0, <1>2, <2>1, <2>2, OverlappingInputs
  <2>4. f \in in0 BY <2>2, <2>3 DEF Touching, lo, hi
  <2>5. NoGap({f}) /\ Low({f}) = lo /\ High({f}) = hi BY <1>0, NoGapOne DEF lo, hi
  <2>6. \A g \in {f} \cup in0 : IsFile(g) BY <1>0, <2>3
  <2>7. NoGap({f} \cup in0) BY <2>3, <2>5, <2>6, NoGapGrows
  <2>8. {f} \cup in0 = in0 BY <2>4
  <2> QED BY <1>2, <2>3, <2>4, <2>7, <2>8 DEF Closed
<1> QED BY <1>1, <1>2

(* The search comes to at most one file of a level above 0.                *)
LEMMA OneFile ==
    ASSUME NEW F, AreFiles(F), Apart(F), NEW key, NEW f \in FindFile(F, key), NEW g \in FindFile(F, key)
    PROVE  f = g
<1> SUFFICES ASSUME f # g PROVE FALSE OBVIOUS
<1>1. /\ f \in F /\ IsFile(f) /\ ~Before(f.largest, key)
      /\ g \in F /\ IsFile(g) /\ ~Before(g.largest, key)
  BY DEF FindFile, AreFiles
<1>2. \A x \in {f.smallest, f.largest, g.smallest, g.largest} : x \in Entry
  BY <1>1, FileRange
<1>3. CASE Before(f.largest, g.smallest)
  <2>1. f.smallest = f.largest \/ Before(f.smallest, f.largest) BY <1>1 DEF IsFile
  <2>2. Before(f.smallest, g.smallest) BY <2>1, <1>2, <1>3, EntryTypes DEF Before
  <2> QED BY <2>2, <1>1 DEF FindFile, BySmallestKey
<1>4. CASE Before(g.largest, f.smallest)
  <2>1. g.smallest = g.largest \/ Before(g.smallest, g.largest) BY <1>1 DEF IsFile
  <2>2. Before(g.smallest, f.smallest) BY <2>1, <1>2, <1>4, EntryTypes DEF Before
  <2> QED BY <2>2, <1>1 DEF FindFile, BySmallestKey
<1> QED BY <1>1, <1>3, <1>4 DEF Apart

(* What Version::Get searches: files of the version, in an order with a    *)
(* first one.                                                              *)
LEMMA SearchOrder ==
    ASSUME TreeTypes, FilesDisjoint, NEW k, NEW s,
           NEW S, S \subseteq ForEachOverlapping(files, k, s), S # {}
    PROVE  /\ \A p \in S : p = <<p[1], p[2]>> /\ p[1] \in Levels /\ p[2] \in files[p[1]]
           /\ \A p, q \in S : p[1] = q[1] /\ p[1] # 0 => p = q
           /\ First(S) \in S
           /\ \A q \in S \ {First(S)} : \/ First(S)[1] < q[1]
                                        \/ First(S)[1] = q[1] /\ First(S)[2].number > q[2].number
<1>0. NumLevels \in Nat /\ 0 \in Levels /\ Levels \subseteq Nat BY LevelsAssumption DEF Levels
<1>1. ASSUME NEW p \in S
      PROVE  /\ p = <<p[1], p[2]>> /\ p[1] \in Levels /\ p[2] \in files[p[1]]
             /\ p[1] # 0 => p[2] \in FindFile(files[p[1]], [key |-> k, seq |-> s])
  <2>1. \/ \E f \in Touching(files[0], k, k) : p = <<0, f>>
        \/ \E l \in Levels \ {0} : \E f \in FindFile(files[l], [key |-> k, seq |-> s]) : p = <<l, f>>
    BY DEF ForEachOverlapping
  <2>2. CASE \E f \in Touching(files[0], k, k) : p = <<0, f>>
    BY <2>2, <1>0 DEF Touching
  <2>3. CASE \E l \in Levels \ {0} : \E f \in FindFile(files[l], [key |-> k, seq |-> s]) : p = <<l, f>>
    <3>1. PICK l \in Levels \ {0} : \E f \in FindFile(files[l], [key |-> k, seq |-> s]) : p = <<l, f>>
      BY <2>3
    <3>2. PICK f \in FindFile(files[l], [key |-> k, seq |-> s]) : p = <<l, f>> BY <3>1
    <3>3. f \in files[l] BY DEF FindFile
    <3> QED BY <3>1, <3>2, <3>3
  <2> QED BY <2>1, <2>2, <2>3
<1>2. ASSUME NEW p \in S, NEW q \in S, p[1] = q[1], p[1] # 0 PROVE p = q
  <2>1. AreFiles(files[p[1]]) BY <1>1, LevelIsFiles
  <2>2. Apart(files[p[1]]) BY <1>1, <1>2 DEF FilesDisjoint, Apart
  <2>3. p[2] = q[2] BY <2>1, <2>2, <1>1, <1>2, OneFile
  <2> QED BY <2>3, <1>1, <1>2
<1>3. \E p \in S : \A q \in S \ {p} : p[1] < q[1] \/ (p[1] = q[1] /\ p[2].number > q[2].number)
  <2> DEFINE L == {p[1] : p \in S}
  <2>1. PICK m \in L : \A n \in L : m <= n
    <3>1. L \subseteq Nat /\ L # {} BY <1>0, <1>1
    <3> QED BY <3>1, NatMin
  <2> DEFINE N == {p[2].number : p \in {q \in S : q[1] = m}}
  <2>N. N \subseteq Nat /\ N # {} BY <1>1 DEF TreeTypes, IsFile
  <2>2. PICK x \in N : \A n \in N : x >= n
    <3>1. CASE m = 0
      <4>1. nextFile \in Nat /\ \A n \in N : n <= nextFile BY <3>1, <2>N, <1>1 DEF TreeTypes
      <4> QED BY <4>1, <2>N, NatMax
    <3>2. CASE m # 0
      <4>1. PICK p \in S : p[1] = m OBVIOUS
      <4>2. \A q \in S : q[1] = m => q = p BY <3>2, <4>1, <1>2
      <4>3. p[2].number \in N /\ \A n \in N : n = p[2].number BY <4>1, <4>2
      <4> HIDE DEF N
      <4>4. \A n \in N : p[2].number >= n
        <5> SUFFICES ASSUME NEW n \in N PROVE p[2].number >= n OBVIOUS
        <5>1. n = p[2].number /\ n \in Nat BY <4>3, <2>N
        <5> QED BY <5>1
      <4> QED BY <4>3, <4>4
    <3> QED BY <3>1, <3>2
  <2>3. PICK p \in S : p[1] = m /\ p[2].number = x OBVIOUS
  <2>4. ASSUME NEW q \in S \ {p}
        PROVE  p[1] < q[1] \/ (p[1] = q[1] /\ p[2].number > q[2].number)
    <3>1. m <= q[1] /\ m \in Nat /\ q[1] \in Nat BY <2>1, <1>0, <1>1
    <3>2. CASE q[1] # m BY <3>1, <3>2, <2>3
    <3>3. CASE q[1] = m
      <4>1. q[2].number <= x /\ q[2].number \in Nat /\ x \in Nat
        BY <2>2, <2>3, <3>3, <1>1 DEF TreeTypes, IsFile
      <4>2. m = 0 BY <1>2, <2>3, <3>3
      <4>3. q[2].number # x BY <4>2, <1>1, <2>3, <3>3 DEF TreeTypes
      <4> QED BY <4>1, <4>3, <3>3, <2>3
    <3> QED BY <3>2, <3>3
  <2> QED BY <2>4
<1>4. /\ First(S) \in S
      /\ \A q \in S \ {First(S)} : \/ First(S)[1] < q[1]
                                   \/ First(S)[1] = q[1] /\ First(S)[2].number > q[2].number
  BY <1>3 DEF First
<1> QED BY <1>1, <1>2, <1>4

(* A file that a second seek is charged to has a level below it.           *)
LEMMA ChargedFits ==
    ASSUME TreeTypes, FilesDisjoint, NEW p \in Charged
    PROVE  p[1] \in 0..NumLevels - 2 /\ p[2] \in files[p[1]]
<1>1. PICK k \in Keys, s \in 1..lastSequence :
        /\ p = First(ForEachOverlapping(files, k, s))
        /\ Cardinality(ForEachOverlapping(files, k, s)) >= 2
  BY DEF Charged
<1> DEFINE S == ForEachOverlapping(files, k, s)
<1>2. S # {} BY <1>1, FS_EmptySet
<1> HIDE DEF S
<1>3. /\ \A q \in S : q[1] \in Levels /\ q[2] \in files[q[1]]
      /\ \A q, r \in S : q[1] = r[1] /\ q[1] # 0 => q = r
      /\ p \in S
      /\ \A q \in S \ {p} : \/ p[1] < q[1]
                            \/ p[1] = q[1] /\ p[2].number > q[2].number
  BY <1>1, <1>2, SearchOrder DEF S
<1>4. p[1] # NumLevels - 1
  <2> SUFFICES ASSUME p[1] = NumLevels - 1 PROVE FALSE OBVIOUS
  <2>1. \A q \in S : q = p BY <1>3, LevelsAssumption DEF Levels
  <2>2. S = {p} BY <2>1, <1>3
  <2>3. Cardinality(S) = 1 BY <2>2, FS_Singleton
  <2> QED BY <2>3, <1>1 DEF S
<1> QED BY <1>3, <1>4, LevelsAssumption DEF Levels

-----------------------------------------------------------------------------
(* The loop of DoCompactionWork.                                           *)

(* Induction over a set of entries in their order.                         *)
LEMMA EntryInduction ==
    ASSUME NEW E, Distinct(E), NEW G,
           \A e \in E : (\A d \in Earlier(E, e) : d \in G) => e \in G
    PROVE  E \subseteq G
<1> SUFFICES ASSUME E \ G # {} PROVE FALSE OBVIOUS
<1>1. Distinct(E \ G) BY DEF Distinct
<1>2. PICK e \in E \ G : \A d \in (E \ G) \ {e} : Before(e, d) BY <1>1, FirstEntry
<1>3. \A d \in Earlier(E, e) : d \in G BY <1>2, BeforeOrder DEF Earlier
<1> QED BY <1>3

(* The iterator's entry before e: whatever is before e is that one or      *)
(* before it.                                                              *)
LEMMA PreviousIs ==
    ASSUME NEW E, Distinct(E), NEW e \in E, Earlier(E, e) # {}
    PROVE  /\ Previous(E, e) \in E /\ Before(Previous(E, e), e)
           /\ \A d \in E : Before(d, e) <=> d = Previous(E, e) \/ Before(d, Previous(E, e))
<1>1. Distinct(Earlier(E, e)) BY DEF Distinct, Earlier
<1>2. \E p \in Earlier(E, e) : \A x \in Earlier(E, e) \ {p} : Before(x, p)
  <2> DEFINE D == Earlier(E, e)
  <2> HIDE DEF D
  <2>1. D # {} /\ Distinct(D) BY <1>1 DEF D
  <2>2. \E p \in D : \A x \in D \ {p} : Before(x, p) BY <2>1, LastEntry
  <2> QED BY <2>2 DEF D
<1>3. /\ Previous(E, e) \in Earlier(E, e)
      /\ \A x \in Earlier(E, e) \ {Previous(E, e)} : Before(x, Previous(E, e))
  BY <1>2 DEF Previous
<1> QED BY <1>3, BeforeOrder DEF Earlier

(* The state that the loop is in when it comes to e.                       *)
StateBefore(c, w, e) ==
    IF Earlier(Inputs(c), e) = {} THEN Start ELSE w[Previous(Inputs(c), e)]

(* The recursion that defines the loop has a solution.                     *)
LEMMA LoopExists ==
    ASSUME NEW c, Distinct(Inputs(c))
    PROVE  \E w : w = [e \in Inputs(c) |-> WorkOn(c, StateBefore(c, w, e), e)]
<1> DEFINE E == Inputs(c)
           Upto(e) == {d \in E : d = e \/ Before(d, e)}
           Solves(w, D) == w = [x \in D |-> WorkOn(c, StateBefore(c, w, x), x)]
           G == {e \in E : \E w : Solves(w, Upto(e))}
<1>1. E \subseteq G
  <2>1. ASSUME NEW e \in E, \A d \in Earlier(E, e) : d \in G
        PROVE  e \in G
    <3>1. CASE Earlier(E, e) = {}
      <4>1. Upto(e) = {e} BY <3>1, BeforeOrder DEF Earlier
      <4> DEFINE w == [x \in {e} |-> WorkOn(c, Start, x)]
      <4>2. \A x \in {e} : StateBefore(c, w, x) = Start BY <3>1 DEF StateBefore
      <4>3. w = [x \in {e} |-> WorkOn(c, StateBefore(c, w, x), x)] BY <4>2
      <4>4. Solves(w, Upto(e)) BY <4>1, <4>3
      <4> QED BY <4>4
    <3>2. CASE Earlier(E, e) # {}
      <4> DEFINE p == Previous(E, e)
      <4>1. /\ p \in E /\ Before(p, e)
            /\ \A d \in E : Before(d, e) <=> d = p \/ Before(d, p)
        BY <3>2, PreviousIs
      <4> HIDE DEF p
      <4>2. p \in G BY <4>1, <2>1 DEF Earlier
      <4>3. PICK u : Solves(u, Upto(p)) BY <4>2
      <4>4. Upto(e) = Upto(p) \cup {e} BY <4>1
      <4>5. e \notin Upto(p) BY <4>1, BeforeOrder
      <4> DEFINE w == [x \in Upto(e) |-> IF x = e THEN WorkOn(c, u[p], e) ELSE u[x]]
      <4>6. \A x \in Upto(p) : w[x] = u[x] BY <4>4, <4>5
      <4>7. ASSUME NEW x \in Upto(p)
            PROVE  StateBefore(c, w, x) = StateBefore(c, u, x)
        <5>1. CASE Earlier(E, x) = {} BY <5>1 DEF StateBefore
        <5>2. CASE Earlier(E, x) # {}
          <6>1. Previous(E, x) \in E /\ Before(Previous(E, x), x) BY <5>2, PreviousIs
          <6>2. Previous(E, x) \in Upto(p)
            <7>1. x = p \/ Before(x, p) OBVIOUS
            <7>2. x = p => Previous(E, x) \in Upto(p) BY <6>1
            <7>3. Before(x, p) => Before(Previous(E, x), p) BY <6>1, <4>1, BeforeOrder
            <7> QED BY <6>1, <7>1, <7>2, <7>3
          <6>3. w[Previous(E, x)] = u[Previous(E, x)] BY <6>2, <4>6
          <6> QED BY <6>3, <5>2 DEF StateBefore
        <5> QED BY <5>1, <5>2
      <4>8. StateBefore(c, w, e) = u[p]
        <5>1. p \in Upto(p) BY <4>1
        <5>2. w[p] = u[p] BY <5>1, <4>6
        <5> QED BY <5>2, <3>2 DEF StateBefore, p
      <4>9. \A x \in Upto(p) : u[x] = WorkOn(c, StateBefore(c, u, x), x)
        <5> SUFFICES ASSUME NEW x \in Upto(p) PROVE u[x] = WorkOn(c, StateBefore(c, u, x), x)
          OBVIOUS
        <5>1. u = [y \in Upto(p) |-> WorkOn(c, StateBefore(c, u, y), y)] BY <4>3
        <5> HIDE DEF Upto
        <5> QED BY <5>1
      <4>10. \A x \in Upto(e) : w[x] = WorkOn(c, StateBefore(c, w, x), x)
        <5>1. w[e] = WorkOn(c, StateBefore(c, w, e), e) BY <4>8
        <5>2. ASSUME NEW x \in Upto(p) PROVE w[x] = WorkOn(c, StateBefore(c, w, x), x)
          <6> HIDE DEF w, Upto
          <6> QED BY <4>6, <4>7, <4>9
        <5> HIDE DEF w, Upto
        <5> QED BY <4>4, <5>1, <5>2
      <4>11. Solves(w, Upto(e))
        <5>1. w = [x \in Upto(e) |-> w[x]] OBVIOUS
        <5> HIDE DEF w, Upto
        <5> QED BY <5>1, <4>10
      <4> QED BY <4>11
    <3> QED BY <3>1, <3>2
  <2> HIDE DEF G
  <2> QED BY <2>1, EntryInduction
<1>2. CASE E = {}
  <2> DEFINE w == [e \in E |-> 0]
  <2>1. w = [e \in E |-> WorkOn(c, StateBefore(c, w, e), e)] BY <1>2
  <2> QED BY <2>1
<1>3. CASE E # {}
  <2>1. PICK e \in E : \A d \in E \ {e} : Before(d, e)
    <3> HIDE DEF E
    <3> QED BY <1>3, LastEntry DEF E
  <2>2. Upto(e) = E BY <2>1
  <2>3. \E w : Solves(w, Upto(e)) BY <1>1
  <2> QED BY <2>2, <2>3
<1> QED BY <1>2, <1>3

(* What the loop of DoCompactionWork leaves after an entry is what one     *)
(* iteration makes of what it left after the previous one.                 *)
LEMMA LoopStep ==
    ASSUME NEW c, Distinct(Inputs(c)), NEW e \in Inputs(c)
    PROVE  Loop(c)[e] = WorkOn(c, StateBefore(c, Loop(c), e), e)
<1>1. \E w : w = [x \in Inputs(c) |-> WorkOn(c, IF Earlier(Inputs(c), x) = {} THEN Start
                                                ELSE w[Previous(Inputs(c), x)], x)]
  BY LoopExists DEF StateBefore
<1>2. Loop(c) = [x \in Inputs(c) |-> WorkOn(c, IF Earlier(Inputs(c), x) = {} THEN Start
                                               ELSE Loop(c)[Previous(Inputs(c), x)], x)]
  BY <1>1, Zenon DEF Loop
<1> QED BY <1>2 DEF StateBefore

(* There are finitely many internal keys.                                  *)
LEMMA EntryFinite == IsFiniteSet(Entry)
<1> DEFINE T == Keys \X ((1..MaxWrites) \X BOOLEAN)
           f == [e \in Entry |-> <<e.key, <<e.seq, e.del>>>>]
<1>1. IsFiniteSet(Keys) /\ IsFiniteSet(1..MaxWrites) BY LevelsAssumption, FS_Interval DEF Keys
<1>2. IsFiniteSet(BOOLEAN)
  <2>1. IsFiniteSet({TRUE}) BY FS_Singleton, Zenon
  <2>2. IsFiniteSet({TRUE} \cup {FALSE}) BY <2>1, FS_AddElement, Zenon
  <2>3. BOOLEAN = {TRUE} \cup {FALSE} OBVIOUS
  <2> QED BY <2>2, <2>3, Zenon
<1>3. IsFiniteSet((1..MaxWrites) \X BOOLEAN) BY <1>1, <1>2, FS_Product
<1>4. IsFiniteSet(T) BY <1>1, <1>3, FS_Product
<1>5. f \in [Entry -> T] BY DEF Entry
<1>6. \A a, b \in Entry : f[a] = f[b] => a = b BY DEF Entry
<1>7. f \in Injection(Entry, T) BY <1>5, <1>6 DEF Injection, IsInjective
<1> QED BY <1>4, <1>7, FS_Injection

(* There are no more entries than sequence numbers.                        *)
LEMMA EntriesCount ==
    ASSUME NEW E, Distinct(E)
    PROVE  IsFiniteSet(E) /\ Cardinality(E) \in Nat /\ Cardinality(E) <= MaxWrites
<1> DEFINE f == [e \in E |-> e.seq]
<1>1. f \in [E -> 1..MaxWrites] BY DEF Distinct, Entry
<1>2. \A a, b \in E : f[a] = f[b] => a = b BY DEF Distinct
<1>3. f \in Injection(E, 1..MaxWrites) BY <1>1, <1>2 DEF Injection, IsInjective
<1>4. IsFiniteSet(1..MaxWrites) /\ Cardinality(1..MaxWrites) = MaxWrites
  BY LevelsAssumption, FS_Interval
<1>5. IsFiniteSet(E) /\ Cardinality(E) <= Cardinality(1..MaxWrites)
  BY <1>3, <1>4, FS_Injection
<1> QED BY <1>4, <1>5, FS_CardinalityType

(* The size of a set of files is a number.                                 *)
LEMMA SizeType ==
    ASSUME NEW F, \A f \in F : IsFile(f)
    PROVE  TotalFileSize(F) \in Nat
<1>1. EntriesOf(F) \subseteq Entry BY EntriesIn DEF IsFile, Distinct
<1> QED BY <1>1, EntryFinite, FS_Subset, FS_CardinalityType DEF TotalFileSize

(* The number of the open output only grows.                               *)
LEMMA PlacesGrow ==
    ASSUME NEW c, Distinct(Inputs(c))
    PROVE  \A e \in Inputs(c) :
             /\ Loop(c)[e].place \in Nat /\ Loop(c)[e].out \in Nat
             /\ Loop(c)[e].place <= Loop(c)[e].out
             /\ \A d \in Inputs(c) : Before(d, e) => Loop(c)[d].out <= Loop(c)[e].place
<1> DEFINE E == Inputs(c)  w == Loop(c)
           Good(e) == /\ w[e].place \in Nat /\ w[e].out \in Nat /\ w[e].place <= w[e].out
                      /\ \A d \in E : Before(d, e) => w[d].out <= w[e].place
           G == {e \in E : Good(e)}
<1>1. ASSUME NEW e \in E, NEW s, s.out \in Nat, w[e] = WorkOn(c, s, e)
      PROVE  /\ w[e].place \in Nat /\ w[e].out \in Nat /\ w[e].place <= w[e].out
             /\ s.out <= w[e].place
  <2> HIDE DEF w
  <2> QED BY <1>1 DEF WorkOn
<1>2. ASSUME NEW e \in E, \A d \in Earlier(E, e) : d \in G PROVE e \in G
  <2>1. w[e] = WorkOn(c, StateBefore(c, w, e), e) BY LoopStep
  <2>2. CASE Earlier(E, e) = {}
    <3>1. StateBefore(c, w, e).out = 0 BY <2>2 DEF StateBefore, Start
    <3>2. \A d \in E : ~Before(d, e) BY <2>2 DEF Earlier
    <3> HIDE DEF w
    <3> QED BY <2>1, <3>1, <3>2, <1>1
  <2>3. CASE Earlier(E, e) # {}
    <3> DEFINE p == Previous(E, e)
    <3>1. p \in E /\ Before(p, e) /\ \A d \in E : Before(d, e) <=> d = p \/ Before(d, p)
      BY <2>3, PreviousIs
    <3>2. StateBefore(c, w, e) = w[p] BY <2>3 DEF StateBefore
    <3> HIDE DEF w, p, E
    <3>3. Good(p) BY <3>1, <1>2 DEF Earlier
    <3>4. /\ w[e].place \in Nat /\ w[e].out \in Nat /\ w[e].place <= w[e].out
          /\ w[p].out <= w[e].place
      BY <3>2, <3>3, <2>1, <1>1
    <3>5. ASSUME NEW d \in E, Before(d, e) PROVE w[d].out <= w[e].place
      <4>1. CASE d = p BY <4>1, <3>4
      <4>2. CASE Before(d, p)
        <5>1. w[d].out <= w[p].place BY <3>3, <4>2
        <5>2. Good(d) BY <3>5, <1>2 DEF Earlier
        <5>3. /\ w[d].out \in Nat /\ w[p].place \in Nat /\ w[p].out \in Nat
              /\ w[p].place <= w[p].out
          BY <5>2, <3>3
        <5> HIDE DEF Good
        <5> QED BY <5>1, <5>3, <3>4
      <4> QED BY <4>1, <4>2, <3>1, <3>5
    <3> QED BY <3>4, <3>5
  <2> QED BY <2>2, <2>3
<1>3. E \subseteq G
  <2> HIDE DEF G, E
  <2> QED BY <1>2, EntryInduction DEF E
<1> QED BY <1>3

(* last_sequence_for_key: kMaxSequenceNumber, or the sequence of a newer   *)
(* entry for the same key, and none of these is lower.                     *)
LEMMA LastSequenceIs ==
    ASSUME NEW E, Distinct(E), NEW e \in E, NEW n, n = LastSequenceForKey(E, e)
    PROVE  /\ n \in Nat
           /\ \A d \in E : d.key = e.key /\ d.seq > e.seq => n <= d.seq
           /\ n <= MaxWrites => \E d \in E : d.key = e.key /\ d.seq > e.seq /\ d.seq = n
<1> DEFINE D == {d \in Earlier(E, e) : d.key = e.key}
           S == {MaxWrites + 1} \cup {d.seq : d \in D}
<1>1. \A d \in E : d \in D <=> d.key = e.key /\ d.seq > e.seq
  BY EntryTypes DEF Distinct, Earlier, Before
<1>2. D \subseteq E BY DEF Earlier
<1>3. S \subseteq Nat /\ S # {} BY <1>2, EntryTypes, LevelsAssumption DEF Distinct
<1> HIDE DEF S
<1>4. n \in S /\ \A x \in S : n <= x BY <1>3, MinIs DEF LastSequenceForKey, S, D
<1> HIDE DEF D
<1>5. n \in Nat BY <1>3, <1>4
<1>6. \A d \in D : n <= d.seq BY <1>4 DEF S
<1>7. n <= MaxWrites => \E d \in D : d.seq = n BY <1>4, LevelsAssumption DEF S
<1> QED BY <1>1, <1>2, <1>5, <1>6, <1>7

(* Rule (A): of a key's entries that no snapshot tells apart the newest    *)
(* is left.                                                                *)
LEMMA HiddenDropped ==
    ASSUME NEW c, Distinct(Inputs(c)), c.smallestSnapshot \in Nat,
           NEW d \in Inputs(c), NEW e \in Inputs(c),
           d.key = e.key, d.seq > e.seq, d.seq <= c.smallestSnapshot
    PROVE  e \notin Kept(c)
<1> DEFINE n == LastSequenceForKey(Inputs(c), e)
<1>1. n \in Nat /\ n <= d.seq BY LastSequenceIs
<1>2. d.seq \in Nat BY EntryTypes DEF Distinct
<1> HIDE DEF n
<1>3. n <= c.smallestSnapshot BY <1>1, <1>2
<1> QED BY <1>3 DEF Kept, Drop, n

(* What ShouldStopBefore relies on: the grandparents' last entries are     *)
(* older than the inputs for the same key.                                 *)
OlderGrandparents(c) ==
    \A g \in c.grandparents :
       /\ IsFile(g)
       /\ \A e \in Inputs(c) : g.largest.key = e.key => g.largest.seq < e.seq

(* When an output never fills up, the entries of a key stay together.      *)
LEMMA KeysStayTogether ==
    ASSUME NEW c, Distinct(Inputs(c)), OlderGrandparents(c),
           opts.target \in Nat, opts.target > MaxWrites
    PROVE  \A a, b \in Inputs(c) : a.key = b.key => Loop(c)[a].place = Loop(c)[b].place
<1> DEFINE E == Inputs(c)  w == Loop(c)
           Upto(e) == {d \in E : d = e \/ Before(d, e)}
           Good(e) == /\ w[e].bytes \in Nat /\ w[e].bytes <= MaxOverlap
                      /\ w[e].count \in Nat /\ w[e].count <= Cardinality(Upto(e))
                      /\ w[e].out = w[e].place
           G == {e \in E : Good(e)}
<1>M. MaxOverlap \in Nat /\ MaxWrites \in Nat BY LevelsAssumption
<1>P. ASSUME NEW e \in E PROVE TotalFileSize(Passed(c, e)) \in Nat
  BY SizeType DEF Passed, OlderGrandparents
<1>U. ASSUME NEW e \in E
      PROVE IsFiniteSet(Upto(e)) /\ Cardinality(Upto(e)) \in Nat /\ Cardinality(Upto(e)) <= MaxWrites
  <2>1. Distinct(Upto(e)) BY DEF Distinct
  <2> QED BY <2>1, EntriesCount
<1>1. ASSUME NEW e \in E, NEW s, NEW n \in Nat, w[e] = WorkOn(c, s, e),
             s.bytes \in Nat, s.count \in Nat, s.count <= n, n + 1 <= MaxWrites
      PROVE  /\ w[e].bytes \in Nat /\ w[e].bytes <= MaxOverlap
             /\ w[e].count \in Nat /\ w[e].count <= n + 1
             /\ w[e].out = w[e].place
             /\ (Passed(c, e) = {} /\ s.bytes <= MaxOverlap => w[e].place = s.out)
  <2> DEFINE size == TotalFileSize(Passed(c, e))
  <2>1. size \in Nat BY <1>P
  <2>2. Passed(c, e) = {} => size = 0 BY FS_EmptySet DEF TotalFileSize, EntriesOf
  <2> HIDE DEF w, size, E
  <2>3. w[e] = LET bytes == s.bytes + size
                   stop  == bytes > MaxOverlap
                   place == IF stop /\ s.count > 0 THEN s.out + 1 ELSE s.out
                   count == (IF stop THEN 0 ELSE s.count) + (IF e \in Kept(c) THEN 1 ELSE 0)
                   full  == e \in Kept(c) /\ count >= opts.target
               IN  [place |-> place, out |-> IF full THEN place + 1 ELSE place,
                    count |-> IF full THEN 0 ELSE count, bytes |-> IF stop THEN 0 ELSE bytes]
    BY <1>1 DEF WorkOn, size
  <2> QED BY <2>1, <2>2, <2>3, <1>1, <1>M
<1>2. ASSUME NEW e \in E, Earlier(E, e) # {}, NEW p, p = Previous(E, e)
      PROVE  /\ p \in E /\ Before(p, e) /\ \A d \in E : Before(d, e) <=> d = p \/ Before(d, p)
             /\ StateBefore(c, w, e) = w[p]
             /\ Cardinality(Upto(e)) = Cardinality(Upto(p)) + 1
  <2>1. p \in E /\ Before(p, e) /\ \A d \in E : Before(d, e) <=> d = p \/ Before(d, p)
    BY <1>2, PreviousIs
  <2>2. StateBefore(c, w, e) = w[p] BY <1>2 DEF StateBefore
  <2>3. Upto(e) = Upto(p) \cup {e} /\ e \notin Upto(p) BY <2>1, BeforeOrder
  <2>4. IsFiniteSet(Upto(p)) BY <2>1, <1>U
  <2> HIDE DEF Upto
  <2> QED BY <2>1, <2>2, <2>3, <2>4, FS_AddElement
<1>3. ASSUME NEW e \in E, \A d \in Earlier(E, e) : d \in G PROVE e \in G
  <2>1. w[e] = WorkOn(c, StateBefore(c, w, e), e) BY LoopStep
  <2>2. CASE Earlier(E, e) = {}
    <3>1. StateBefore(c, w, e) = Start BY <2>2 DEF StateBefore
    <3>2. Start.bytes \in Nat /\ Start.count \in Nat /\ Start.count <= 0 BY DEF Start
    <3>3. Upto(e) = {e} BY <2>2, BeforeOrder DEF Earlier
    <3>4. Cardinality(Upto(e)) = 1 BY <3>3, FS_Singleton
    <3>5. 0 + 1 <= MaxWrites BY <3>4, <1>U
    <3> HIDE DEF w, Upto, E
    <3> QED BY <2>1, <3>1, <3>2, <3>4, <3>5, <1>1
  <2>3. CASE Earlier(E, e) # {}
    <3> DEFINE p == Previous(E, e)  n == Cardinality(Upto(p))
    <3>1. /\ p \in E /\ Before(p, e) /\ StateBefore(c, w, e) = w[p]
          /\ Cardinality(Upto(e)) = n + 1
      BY <2>3, <1>2
    <3>2. n \in Nat /\ n + 1 <= MaxWrites BY <3>1, <1>U
    <3> HIDE DEF w, Upto, p, E
    <3>3. Good(p) BY <3>1, <1>3 DEF Earlier
    <3> QED BY <2>1, <3>1, <3>2, <3>3, <1>1
  <2> QED BY <2>2, <2>3
<1>4. E \subseteq G
  <2> HIDE DEF G, E
  <2> QED BY <1>3, EntryInduction DEF E
<1>5. ASSUME NEW e \in E, Earlier(E, e) # {}, NEW p, p = Previous(E, e), p.key = e.key
      PROVE  w[e].place = w[p].place
  <2>1. /\ p \in E /\ Before(p, e) /\ StateBefore(c, w, e) = w[p]
        /\ Cardinality(Upto(e)) = Cardinality(Upto(p)) + 1
    <3> HIDE DEF w, Upto, E
    <3> QED BY <1>5, <1>2
  <2>2. Passed(c, e) = {}
    <3> SUFFICES ASSUME NEW g \in Passed(c, e) PROVE FALSE OBVIOUS
    <3>1. g \in c.grandparents /\ Before(g.largest, e) /\ ~Before(g.largest, p)
      BY <2>1 DEF Passed, Earlier
    <3>2. IsFile(g) /\ (g.largest.key = e.key => g.largest.seq < e.seq)
      BY <3>1 DEF OlderGrandparents
    <3>3. g.largest \in Entry /\ p \in Entry /\ e \in Entry BY <3>2, <2>1, FileRange DEF Distinct
    <3> QED BY <3>1, <3>2, <3>3, <2>1, <1>5, EntryTypes DEF Before
  <2>3. w[e] = WorkOn(c, w[p], e) BY <2>1, LoopStep
  <2>4. Good(p) BY <2>1, <1>4
  <2>5. Cardinality(Upto(p)) \in Nat /\ Cardinality(Upto(p)) + 1 <= MaxWrites BY <2>1, <1>U
  <2> HIDE DEF w, Upto, E
  <2>6. w[e].place = w[p].out BY <2>2, <2>3, <2>4, <2>5, <1>1
  <2> QED BY <2>4, <2>6
<1> DEFINE H == {e \in E : \A d \in E : Before(d, e) /\ d.key = e.key => w[d].place = w[e].place}
<1>6. ASSUME NEW e \in E, \A d \in Earlier(E, e) : d \in H PROVE e \in H
  <2> SUFFICES ASSUME NEW d \in E, Before(d, e), d.key = e.key PROVE w[d].place = w[e].place
    OBVIOUS
  <2> DEFINE p == Previous(E, e)
  <2>1. Earlier(E, e) # {} BY DEF Earlier
  <2>2. p \in E /\ Before(p, e) /\ (d = p \/ Before(d, p)) BY <2>1, <1>2
  <2>3. p.key = e.key
    <3>1. d \in Entry /\ e \in Entry /\ p \in Entry BY <2>2 DEF Distinct
    <3> HIDE DEF p
    <3> QED BY <3>1, <2>2, EntryTypes DEF Before
  <2>4. w[e].place = w[p].place BY <2>1, <2>3, <1>5
  <2> HIDE DEF w, p, E
  <2>5. CASE d = p BY <2>4, <2>5
  <2>6. CASE Before(d, p)
    <3>1. p \in H BY <2>2, <1>6 DEF Earlier
    <3> QED BY <3>1, <2>3, <2>4, <2>6
  <2> QED BY <2>2, <2>5, <2>6
<1>7. E \subseteq H
  <2> HIDE DEF H, E
  <2> QED BY <1>6, EntryInduction DEF E
<1> SUFFICES ASSUME NEW a \in E, NEW b \in E, a.key = b.key PROVE w[a].place = w[b].place
  OBVIOUS
<1>8. a = b \/ Before(a, b) \/ Before(b, a) BY BeforeOrder
<1> HIDE DEF w, E
<1> QED BY <1>7, <1>8

(* All entries of a key that are kept go to one output.                    *)
LEMMA OneOutputPerKey ==
    ASSUME NEW c, Distinct(Inputs(c)), OlderGrandparents(c), c.smallestSnapshot \in Nat,
           \/ opts.target \in Nat /\ opts.target > MaxWrites
           \/ \A e \in Inputs(c) : e.seq <= c.smallestSnapshot,
           NEW a \in Kept(c), NEW b \in Kept(c), a.key = b.key
    PROVE  Loop(c)[a].place = Loop(c)[b].place
<1>0. a \in Inputs(c) /\ b \in Inputs(c) BY DEF Kept
<1>1. CASE opts.target \in Nat /\ opts.target > MaxWrites BY <1>0, <1>1, KeysStayTogether
<1>2. CASE \A e \in Inputs(c) : e.seq <= c.smallestSnapshot
  <2>1. ~(a.seq > b.seq) /\ ~(b.seq > a.seq) BY <1>0, <1>2, HiddenDropped
  <2>2. a.seq \in Nat /\ b.seq \in Nat BY <1>0, EntryTypes DEF Distinct
  <2>3. a.seq = b.seq BY <2>1, <2>2
  <2>4. a = b BY <2>3, <1>0 DEF Distinct
  <2> QED BY <2>4
<1> QED BY <1>1, <1>2

-----------------------------------------------------------------------------
(* The outputs of a compaction.                                            *)

(* The output number n of a compaction, and all of them.                   *)
Output(c, n) == Table(nextFile + n, {e \in Kept(c) : Loop(c)[e].place = n})
Added(c)     == {Output(c, n) : n \in {Loop(c)[e].place : e \in Kept(c)}}

(* What InstallCompactionResults changes: inputs out, outputs in, one      *)
(* level down.                                                             *)
LEMMA InstallIs ==
    ASSUME InstallCompactionResults
    PROVE  /\ comp # None /\ comp' = None
           /\ files' = SaveTo(SaveTo(files, comp.level, comp.in0, {}),
                              comp.level + 1, comp.in1, Added(comp))
           /\ nextFile' = nextFile + Cardinality(Added(comp))
           /\ UNCHANGED <<opts, mem, lastSequence, snapshots, compactPointer, manual>>
<1> DEFINE outs == DoCompactionWork(comp)
           Out(n) == Table(nextFile + n, {e \in DOMAIN outs : outs[e] = n})
<1>1. DOMAIN outs = Kept(comp) /\ \A e \in Kept(comp) : outs[e] = Loop(comp)[e].place
  BY DEF DoCompactionWork
<1> HIDE DEF outs
<1>2. Range(outs) = {Loop(comp)[e].place : e \in Kept(comp)} BY <1>1 DEF Range
<1>3. \A n : Out(n) = Output(comp, n)
  <2> SUFFICES ASSUME NEW n PROVE Out(n) = Output(comp, n) OBVIOUS
  <2>1. {e \in DOMAIN outs : outs[e] = n} = {e \in Kept(comp) : Loop(comp)[e].place = n} BY <1>1
  <2> QED BY <2>1 DEF Output
<1> HIDE DEF Out
<1>4. {Out(n) : n \in Range(outs)} = Added(comp) BY <1>2, <1>3 DEF Added
<1> QED BY <1>4 DEF InstallCompactionResults, outs, Out

(* The outputs are tables that hold each entry that was kept, once, and    *)
(* that do not overlap.                                                    *)
LEMMA OutputsAre ==
    ASSUME NEW c, Distinct(Inputs(c)), nextFile \in Nat
    PROVE  /\ IsFiniteSet(Added(c)) /\ Cardinality(Added(c)) \in Nat
           /\ Added(c) \subseteq FileType /\ \A f \in Added(c) : IsFile(f)
           /\ EntriesOf(Added(c)) = Kept(c)
           /\ Apart(Added(c))
           /\ \A f \in Added(c) : \E n \in Nat : /\ f = Output(c, n)
                                                /\ f.entries = {e \in Kept(c) : Loop(c)[e].place = n}
<1> DEFINE E == Kept(c)  w == Loop(c)  In(n) == {e \in E : w[e].place = n}
<1>0. E \subseteq Inputs(c) /\ Distinct(E) BY DEF Kept, Distinct
<1>1. \A e \in E : w[e].place \in Nat BY <1>0, PlacesGrow
<1>2. ASSUME NEW e \in E, NEW n, n = w[e].place
      PROVE  /\ n \in Nat /\ IsFile(Output(c, n)) /\ Output(c, n) \in FileType
             /\ Output(c, n).entries = In(n)
  <2>1. n \in Nat /\ nextFile + n \in Nat BY <1>1, <1>2
  <2>2. Distinct(In(n)) /\ In(n) # {} BY <1>0, <1>2 DEF Distinct
  <2>3. Output(c, n) = Table(nextFile + n, In(n)) BY DEF Output
  <2> HIDE DEF In, w
  <2>4. IsFile(Output(c, n)) /\ Output(c, n).entries = In(n) BY <2>1, <2>2, <2>3, TableIsFile
  <2>5. Output(c, n) \in FileType
    <3>1. Output(c, n) = [number |-> nextFile + n, entries |-> In(n),
                          smallest |-> Output(c, n).smallest, largest |-> Output(c, n).largest]
      BY <2>3 DEF Table
    <3>2. Output(c, n).smallest \in Entry /\ Output(c, n).largest \in Entry BY <2>4, FileRange
    <3>3. In(n) \subseteq Entry BY <2>2 DEF Distinct
    <3> QED BY <3>1, <3>2, <3>3, <2>1 DEF FileType
  <2> QED BY <2>1, <2>4, <2>5
<1>3. \A f \in Added(c) : \E e \in E : f = Output(c, w[e].place) BY DEF Added
<1>4. \A e \in E : Output(c, w[e].place) \in Added(c) BY DEF Added
<1>5. IsFiniteSet(Added(c))
  <2> DEFINE g == [e \in E |-> Output(c, w[e].place)]
  <2>1. g \in Surjection(E, Added(c)) BY <1>3, <1>4 DEF Surjection
  <2>2. IsFiniteSet(E) BY <1>0, EntriesCount
  <2> HIDE DEF g, E
  <2> QED BY <2>1, <2>2, FS_Surjection
<1>6. EntriesOf(Added(c)) = E
  <2>1. ASSUME NEW x \in EntriesOf(Added(c)) PROVE x \in E
    <3>1. PICK f \in Added(c) : x \in f.entries BY EntriesIn
    <3> QED BY <3>1, <1>2, <1>3
  <2>2. ASSUME NEW x \in E PROVE x \in EntriesOf(Added(c))
    <3>1. x \in Output(c, w[x].place).entries BY <1>2
    <3> QED BY <3>1, <1>4, InEntries
  <2> QED BY <2>1, <2>2
<1>7. Apart(Added(c))
  <2>1. ASSUME NEW a \in E, NEW b \in E, w[a].place < w[b].place PROVE Before(a, b)
    <3>1. a # b /\ a \in Inputs(c) /\ b \in Inputs(c) BY <2>1, <1>0, <1>1
    <3>2. ~Before(b, a)
      <4>1. w[b].place <= w[b].out /\ w[b].out \in Nat /\ (Before(b, a) => w[b].out <= w[a].place)
        BY <3>1, PlacesGrow
      <4> HIDE DEF w
      <4> QED BY <4>1, <2>1, <1>1
    <3> QED BY <3>1, <3>2, BeforeOrder
  <2> SUFFICES ASSUME NEW f \in Added(c), NEW g \in Added(c), f # g
               PROVE  Before(f.largest, g.smallest) \/ Before(g.largest, f.smallest)
    BY DEF Apart
  <2>2. PICK a \in E : f = Output(c, w[a].place) BY <1>3
  <2>3. PICK b \in E : g = Output(c, w[b].place) BY <1>3
  <2>4. w[a].place # w[b].place BY <2>2, <2>3
  <2>5. /\ f.largest \in E /\ f.smallest \in E
        /\ w[f.largest].place = w[a].place /\ w[f.smallest].place = w[a].place
    BY <2>2, <1>2 DEF IsFile
  <2>6. /\ g.largest \in E /\ g.smallest \in E
        /\ w[g.largest].place = w[b].place /\ w[g.smallest].place = w[b].place
    BY <2>3, <1>2 DEF IsFile
  <2> HIDE DEF w
  <2> QED BY <2>1, <2>4, <2>5, <2>6, <1>1
<1> QED BY <1>2, <1>3, <1>5, <1>6, <1>7, FS_CardinalityType

-----------------------------------------------------------------------------
(* What the steps that change files do.                                    *)

(* What CompactMemTable changes: one level has one more table.             *)
LEMMA FlushIs ==
    ASSUME TreeTypes, FilesDisjoint, CompactMemTable
    PROVE  \E m \in Levels, f \in FileType :
             /\ IsFile(f) /\ f.entries = mem /\ f.number = nextFile
             /\ files' = [files EXCEPT ![m] = @ \cup {f}]
             /\ m # 0 => \A l \in 0..m : Touching(files[l], f.smallest.key, f.largest.key) = {}
<1> DEFINE f == Table(nextFile, mem)
           m == PickLevelForMemTableOutput(files, f.smallest.key, f.largest.key)
<1>1. mem # {} /\ files' = SaveTo(files, m, {}, {f}) BY DEF CompactMemTable
<1>2. Distinct(mem) /\ nextFile \in Nat BY DEF TreeTypes, Distinct, Stored
<1>3. IsFile(f) /\ f.entries = mem /\ f.number = nextFile BY <1>1, <1>2, TableIsFile
<1>4. f \in FileType
  <2>1. f = [number |-> nextFile, entries |-> mem, smallest |-> f.smallest, largest |-> f.largest]
    BY DEF Table
  <2>2. f.smallest \in Entry /\ f.largest \in Entry BY <1>3, FileRange
  <2> HIDE DEF f
  <2> QED BY <2>1, <2>2, <1>2 DEF FileType, Distinct
<1>5. f.smallest.key \in Keys /\ f.largest.key \in Keys BY <1>4 DEF FileType, Entry
<1> HIDE DEF f
<1>6. m \in Levels /\ (m # 0 => \A l \in 0..m : Touching(files[l], f.smallest.key, f.largest.key) = {})
  BY <1>5, PickLevelFits
<1> HIDE DEF m
<1>7. files' = [files EXCEPT ![m] = @ \cup {f}] BY <1>1 DEF SaveTo
<1> QED BY <1>3, <1>4, <1>6, <1>7

(* What PickCompaction, moves included, changes.                           *)
LEMMA PickIs ==
    ASSUME TreeTypes, FilesDisjoint, PickSize \/ PickSeek
    PROVE  /\ comp = None /\ UNCHANGED <<opts, mem, lastSequence, snapshots, nextFile, manual>>
           /\ \E c : /\ Chosen(c)
                     /\ \/ comp' = c /\ files' = files
                        \/ \E f : /\ c.in0 = {f} /\ c.in1 = {} /\ comp' = comp
                                  /\ files' = SaveTo(SaveTo(files, c.level, {f}, {}),
                                                     c.level + 1, {}, {f})
<1>1. comp = None /\ UNCHANGED <<opts, mem, lastSequence, snapshots, nextFile, manual>>
  BY DEF PickSize, PickSeek, Begin
<1>2. PICK l \in 0..NumLevels - 2 :
        \E f \in files[l] : Begin(SetupOtherInputs(l, Picked(l, f), FALSE))
  <2>1. CASE PickSize
    <3>1. PICK l \in SizeCompaction(files) :
            \E f \in NextFile(l) : Begin(SetupOtherInputs(l, Picked(l, f), FALSE))
      BY <2>1 DEF PickSize
    <3>2. PICK f \in NextFile(l) : Begin(SetupOtherInputs(l, Picked(l, f), FALSE)) BY <3>1
    <3>3. l \in 0..NumLevels - 2 BY DEF SizeCompaction
    <3>4. f \in files[l] BY DEF NextFile, FirstFile
    <3> QED BY <3>2, <3>3, <3>4
  <2>2. CASE PickSeek
    <3>1. PICK p \in Charged : Begin(SetupOtherInputs(p[1], Picked(p[1], p[2]), FALSE))
      BY <2>2 DEF PickSeek
    <3>2. p[1] \in 0..NumLevels - 2 /\ p[2] \in files[p[1]] BY ChargedFits
    <3> QED BY <3>1, <3>2
  <2> QED BY <2>1, <2>2
<1>f. PICK f \in files[l] : Begin(SetupOtherInputs(l, Picked(l, f), FALSE)) BY <1>2
<1>0. PICK in0 : in0 = Picked(l, f) OBVIOUS
<1>c. PICK c : c = SetupOtherInputs(l, in0, FALSE) OBVIOUS
<1>3. l \in Levels BY LevelsAssumption DEF Levels
<1>4. in0 \subseteq files[l] /\ in0 # {} /\ NoGap(in0) /\ (l = 0 => Closed(in0))
  BY <1>0, <1>3, PickedFits
<1>5. Chosen(c) /\ c.isManual = FALSE BY <1>4, <1>c, SetupFits
<1>6. Begin(c) BY <1>f, <1>0, <1>c
<1>7. CASE ~IsTrivialMove(c)
  <2>1. comp' = c /\ files' = files BY <1>6, <1>7 DEF Begin
  <2> QED BY <1>1, <1>5, <2>1
<1>8. CASE IsTrivialMove(c)
  <2>1. /\ files' = SaveTo(SaveTo(files, c.level, c.in0, {}), c.level + 1, {}, c.in0)
        /\ comp' = comp
    BY <1>5, <1>6, <1>8 DEF Begin
  <2>2. c.in1 = {} /\ Cardinality(c.in0) = 1 BY <1>8 DEF IsTrivialMove
  <2>3. IsFiniteSet(c.in0)
    <3>1. c.in0 \subseteq files[c.level] /\ c.level \in Levels
      BY <1>5, LevelsAssumption DEF Chosen, CompShape, Levels
    <3>2. IsFiniteSet(files[c.level]) BY <3>1 DEF TreeTypes
    <3> QED BY <3>1, <3>2, FS_Subset
  <2>4. PICK g : c.in0 = {g} BY <2>2, <2>3, FS_Singleton
  <2> QED BY <1>1, <1>5, <2>1, <2>2, <2>4
<1> QED BY <1>7, <1>8

(* The files of every level after those of level l are replaced in part.   *)
LEMMA Replaced ==
    ASSUME TreeTypes, NEW l \in 0..NumLevels - 2, NEW A, NEW B, NEW C,
           files' = SaveTo(SaveTo(files, l, A, {}), l + 1, B, C)
    PROVE  /\ l \in Levels /\ l + 1 \in Levels /\ l + 1 # 0 /\ l # l + 1
           /\ files' \in [Levels -> SUBSET (FileType \cup C)]
           /\ files'[l] = files[l] \ A
           /\ files'[l + 1] = (files[l + 1] \ B) \cup C
           /\ \A i \in Levels \ {l, l + 1} : files'[i] = files[i]
<1>1. l \in Levels /\ l + 1 \in Levels /\ l + 1 # 0 /\ l # l + 1 BY LevelsAssumption DEF Levels
<1>2. files \in [Levels -> SUBSET FileType] BY DEF TreeTypes
<1> QED BY <1>1, <1>2 DEF SaveTo

-----------------------------------------------------------------------------
(* Levels above 0 stay disjoint.                                           *)

(* A table that touches none of the inputs is to one side of all of them.  *)
LEMMA FlushOutside ==
    ASSUME NEW F, \A g \in F : IsFile(g), NoGap(F), NEW f, IsFile(f),
           Touching(F, f.smallest.key, f.largest.key) = {}
    PROVE  Outside({f}, EntriesOf(F))
<1>0. \A g \in F \cup {f} : /\ g.smallest.key \in Nat /\ g.largest.key \in Nat
                            /\ g.smallest.key <= g.largest.key
                            /\ g.smallest \in Entry /\ g.largest \in Entry
                            /\ g.entries \subseteq Entry
                            /\ \A e \in g.entries : g.smallest.key <= e.key /\ e.key <= g.largest.key
  BY FileRange, EntryTypes DEF IsFile, Distinct
<1>1. \A g \in F : g.largest.key < f.smallest.key \/ g.smallest.key > f.largest.key
  BY DEF Touching
<1>2. ASSUME NEW a \in F, NEW b \in F, a.largest.key < f.smallest.key, b.smallest.key > f.largest.key
      PROVE  FALSE
  <2>1. f.smallest.key \in Keys BY <1>0 DEF Entry
  <2>2. a.smallest.key <= f.smallest.key /\ f.smallest.key <= b.largest.key BY <1>0, <1>2
  <2>3. PICK h \in F : h.smallest.key <= f.smallest.key /\ f.smallest.key <= h.largest.key
    BY <2>1, <2>2 DEF NoGap, Covers
  <2> QED BY <2>3, <1>0, <1>1
<1>3. \/ \A g \in F : g.largest.key < f.smallest.key
      \/ \A g \in F : g.smallest.key > f.largest.key
  BY <1>1, <1>2
<1>4. ASSUME NEW e \in EntriesOf(F)
      PROVE  \E g \in F : e \in g.entries /\ g.smallest.key <= e.key /\ e.key <= g.largest.key /\ e.key \in Nat
  BY <1>0, EntriesIn, EntryTypes
<1>5. CASE \A g \in F : g.largest.key < f.smallest.key
  <2>1. \A e \in EntriesOf(F) : e.key < f.smallest.key BY <1>0, <1>4, <1>5
  <2> QED BY <2>1 DEF Outside, Before
<1>6. CASE \A g \in F : g.smallest.key > f.largest.key
  <2>1. \A e \in EntriesOf(F) : f.largest.key < e.key BY <1>0, <1>4, <1>6
  <2> QED BY <2>1 DEF Outside, Before
<1> QED BY <1>3, <1>5, <1>6

(* The entries of a level are in the tree.                                 *)
LEMMA InStored ==
    ASSUME NEW l \in Levels, NEW e \in EntriesOf(files[l])
    PROVE  e \in Stored
BY DEF Stored, EntriesOf

(* The inputs of the compaction under way are files of two adjacent        *)
(* levels.                                                                 *)
LEMMA InputsStored ==
    ASSUME TreeTypes, NEW c, CompShape(c)
    PROVE  /\ c.level \in Levels /\ c.level + 1 \in Levels
           /\ \A f \in c.in0 \cup c.in1 : IsFile(f)
           /\ Inputs(c) \subseteq Stored /\ Distinct(Inputs(c))
<1>1. /\ c.level \in Levels /\ c.level + 1 \in Levels
      /\ c.in0 \subseteq files[c.level] /\ c.in1 \subseteq files[c.level + 1]
  BY LevelsAssumption DEF CompShape, Levels
<1>2. \A f \in c.in0 \cup c.in1 : IsFile(f) BY <1>1 DEF TreeTypes
<1>3. Inputs(c) \subseteq Stored
  <2> SUFFICES ASSUME NEW e \in Inputs(c) PROVE e \in Stored OBVIOUS
  <2>1. PICK f \in c.in0 \cup c.in1 : e \in f.entries BY EntriesIn DEF Inputs
  <2>2. e \in EntriesOf(files[c.level]) \/ e \in EntriesOf(files[c.level + 1])
    BY <2>1, <1>1, InEntries
  <2> QED BY <2>2, <1>1, InStored
<1> QED BY <1>1, <1>2, <1>3 DEF TreeTypes, Distinct

(* A flush puts its table where nothing overlaps it, even when a           *)
(* compaction that is running is to write to that level: the table is to   *)
(* one side of all inputs.                                                 *)
LEMMA FlushKeepsDisjoint ==
    ASSUME DisjointInv, CompactMemTable
    PROVE  DisjointInv'
<1>0. /\ TreeTypes /\ FilesDisjoint /\ manual = None /\ (comp = None \/ CompShape(comp))
  BY DEF DisjointInv
<1>1. PICK m \in Levels, f \in FileType :
        /\ IsFile(f) /\ f.entries = mem /\ f.number = nextFile
        /\ files' = [files EXCEPT ![m] = @ \cup {f}]
        /\ m # 0 => \A l \in 0..m : Touching(files[l], f.smallest.key, f.largest.key) = {}
  BY <1>0, FlushIs
<1>2. /\ mem' = {} /\ nextFile' = nextFile + 1
      /\ UNCHANGED <<opts, lastSequence, snapshots, compactPointer, comp, manual>>
  BY DEF CompactMemTable
<1>3. files \in [Levels -> SUBSET FileType] BY <1>0 DEF TreeTypes
<1>4. /\ files' \in [Levels -> SUBSET FileType] /\ files'[m] = files[m] \cup {f}
      /\ \A l \in Levels : l # m => files'[l] = files[l]
  BY <1>1, <1>3
<1>5. Stored' = Stored
  <2> DEFINE U == UNION {files[l] : l \in Levels}
  <2>1. UNION {files'[l] : l \in Levels} = U \cup {f} BY <1>4
  <2>2. Stored' = mem' \cup EntriesOf(UNION {files'[l] : l \in Levels})
    BY Zenon DEF Stored, EntriesOf
  <2>3. EntriesOf(U \cup {f}) = EntriesOf(U) \cup mem BY <1>1, EntriesUnion
  <2>4. Stored = mem \cup EntriesOf(U) BY DEF Stored
  <2> HIDE DEF U
  <2>5. Stored' = EntriesOf(U \cup {f}) BY <2>1, <2>2, <1>2
  <2> QED BY <2>3, <2>4, <2>5
<1>6. TreeTypes'
  <2>1. ASSUME NEW l \in Levels PROVE IsFiniteSet(files'[l]) /\ \A g \in files'[l] : IsFile(g)
    <3>1. IsFiniteSet(files[l]) /\ \A g \in files[l] : IsFile(g) BY <1>0 DEF TreeTypes
    <3>2. CASE l = m BY <3>1, <3>2, <1>1, <1>4, FS_AddElement
    <3>3. CASE l # m BY <3>1, <3>3, <1>4
    <3> QED BY <3>2, <3>3
  <2>2. ASSUME NEW x \in files'[0], NEW y \in files'[0]
        PROVE  x.number < nextFile' /\ (x.number = y.number => x = y)
    <3>1. 0 \in Levels BY LevelsAssumption DEF Levels
    <3>2. nextFile \in Nat /\ \A g, h \in files[0] : /\ g.number \in Nat /\ g.number < nextFile
                                                     /\ g.number = h.number => g = h
      BY <3>1, <1>0 DEF TreeTypes, IsFile
    <3>3. x \in files[0] \cup {f} /\ y \in files[0] \cup {f} BY <3>1, <1>4
    <3> QED BY <3>2, <3>3, <1>1, <1>2
  <2>3. /\ opts' \in Options /\ lastSequence' \in 0..MaxWrites /\ nextFile' \in Nat
        /\ snapshots' \subseteq 0..lastSequence' /\ (opts'.snapshots = 0 => snapshots' = {})
        /\ Distinct(Stored) /\ \A e \in Stored : e.seq <= lastSequence'
    BY <1>0, <1>2 DEF TreeTypes
  <2>4. Distinct(Stored') /\ \A e \in Stored' : e.seq <= lastSequence' BY <2>3, <1>5
  <2> QED BY <2>1, <2>2, <2>3, <2>4, <1>4 DEF TreeTypes, Distinct
<1>7. FilesDisjoint'
  <2> SUFFICES ASSUME NEW l \in Levels \ {0}, NEW x \in files'[l], NEW y \in files'[l], x # y
               PROVE  Before(x.largest, y.smallest) \/ Before(y.largest, x.smallest)
    BY DEF FilesDisjoint, Before
  <2>1. ASSUME NEW g \in files[l], l = m
        PROVE  Before(g.largest, f.smallest) \/ Before(f.largest, g.smallest)
    <3>1. Touching(files[m], f.smallest.key, f.largest.key) = {}
      BY <1>1, <2>1, LevelsAssumption DEF Levels
    <3> QED BY <3>1, <2>1 DEF Touching, Before
  <2>2. (x \in files[l] \/ (x = f /\ l = m)) /\ (y \in files[l] \/ (y = f /\ l = m)) BY <1>4
  <2> QED BY <2>1, <2>2, <1>0 DEF FilesDisjoint
<1>8. ASSUME CompShape(comp) PROVE CompShape(comp)'
  <2> DEFINE c == comp  F == c.in0 \cup c.in1
  <2>1. /\ c.level \in 0..NumLevels - 2 /\ c.in0 # {} /\ c.in0 \subseteq files[c.level]
        /\ c.in1 \subseteq files[c.level + 1]
        /\ NoGap(F) /\ Outside(files[c.level + 1] \ c.in1, Inputs(c))
    BY <1>8 DEF CompShape
  <2>2. c.level \in Levels /\ c.level + 1 \in Levels /\ \A g \in F : IsFile(g)
    BY <1>0, <1>8, InputsStored
  <2>3. c.in0 \subseteq files'[c.level] /\ c.in1 \subseteq files'[c.level + 1]
    BY <2>1, <2>2, <1>4
  <2>4. ASSUME m = c.level + 1 PROVE Outside({f}, Inputs(c))
    <3>1. c.level \in 0..m /\ m \in 0..m /\ m # 0 BY <2>1, <2>4
    <3>2. /\ Touching(files[c.level], f.smallest.key, f.largest.key) = {}
          /\ Touching(files[m], f.smallest.key, f.largest.key) = {}
      BY <3>1, <1>1
    <3>3. Touching(F, f.smallest.key, f.largest.key) = {} BY <3>2, <2>1, <2>4 DEF Touching
    <3>4. Outside({f}, EntriesOf(F)) BY <3>3, <2>1, <2>2, <1>1, FlushOutside
    <3> QED BY <3>4 DEF Inputs
  <2>5. Outside(files'[c.level + 1] \ c.in1, Inputs(c)) BY <2>1, <2>2, <2>4, <1>4 DEF Outside
  <2>6. comp' = comp BY <1>2
  <2> HIDE DEF c
  <2>7. /\ c.level \in 0..NumLevels - 2 /\ c.in0 # {} /\ c.in0 \subseteq files'[c.level]
        /\ c.in1 \subseteq files'[c.level + 1]
        /\ NoGap(c.in0 \cup c.in1) /\ Outside(files'[c.level + 1] \ c.in1, Inputs(c))
    BY <2>1, <2>3, <2>5
  <2> QED BY <2>6, <2>7 DEF CompShape, c, NoGap, Covers, Outside, Inputs, EntriesOf, Before
<1> QED BY <1>0, <1>2, <1>6, <1>7, <1>8 DEF DisjointInv

(* Files are replaced by files of fewer entries.                           *)
LEMMA ReplaceKeepsTypes ==
    ASSUME TreeTypes, NEW l \in 0..NumLevels - 2, NEW A, NEW B, NEW C,
           files' = SaveTo(SaveTo(files, l, A, {}), l + 1, B, C),
           IsFiniteSet(C), C \subseteq FileType, \A f \in C : IsFile(f), EntriesOf(C) \subseteq Stored,
           nextFile' \in Nat, nextFile' >= nextFile, UNCHANGED <<opts, mem, lastSequence, snapshots>>
    PROVE  TreeTypes' /\ Stored' \subseteq Stored
<1>1. /\ l \in Levels /\ l + 1 \in Levels /\ l + 1 # 0 /\ l # l + 1
      /\ files' \in [Levels -> SUBSET (FileType \cup C)]
      /\ files'[l] = files[l] \ A
      /\ files'[l + 1] = (files[l + 1] \ B) \cup C
      /\ \A i \in Levels \ {l, l + 1} : files'[i] = files[i]
  BY Replaced
<1>2. FileType \cup C = FileType OBVIOUS
<1>3. ASSUME NEW i \in Levels PROVE IsFiniteSet(files'[i]) /\ \A f \in files'[i] : IsFile(f)
  <2>1. IsFiniteSet(files[i]) /\ \A f \in files[i] : IsFile(f) BY DEF TreeTypes
  <2>2. CASE i = l BY <2>1, <2>2, <1>1, FS_Subset
  <2>3. CASE i = l + 1
    <3>1. IsFiniteSet(files[i] \ B) BY <2>1, FS_Subset
    <3>2. IsFiniteSet((files[i] \ B) \cup C) BY <3>1, FS_Union
    <3> QED BY <3>2, <2>1, <2>3, <1>1
  <2>4. CASE i \notin {l, l + 1} BY <2>1, <2>4, <1>1
  <2> QED BY <2>2, <2>3, <2>4
<1>4. files'[0] \subseteq files[0]
  <2>1. 0 \in Levels BY LevelsAssumption DEF Levels
  <2> QED BY <2>1, <1>1
<1>5. ASSUME NEW f \in files'[0], NEW g \in files'[0]
      PROVE  f.number < nextFile' /\ (f.number = g.number => f = g)
  <2>1. 0 \in Levels BY LevelsAssumption DEF Levels
  <2>2. f.number < nextFile /\ (f.number = g.number => f = g) BY <1>4 DEF TreeTypes
  <2>3. f.number \in Nat /\ nextFile \in Nat BY <2>1, <1>4 DEF TreeTypes, IsFile
  <2> QED BY <2>2, <2>3
<1>6. Stored' \subseteq Stored
  <2> SUFFICES ASSUME NEW e \in Stored' PROVE e \in Stored OBVIOUS
  <2>1. e \in mem' \/ \E i \in Levels : \E f \in files'[i] : e \in f.entries
    BY DEF Stored, EntriesOf
  <2>2. CASE e \in mem' BY <2>2 DEF Stored
  <2>3. CASE \E i \in Levels : \E f \in files'[i] : e \in f.entries
    <3>0. PICK i \in Levels : \E f \in files'[i] : e \in f.entries BY <2>3
    <3>1. PICK f \in files'[i] : e \in f.entries BY <3>0
    <3>2. f \in files[i] \/ f \in C BY <3>1, <1>1
    <3>3. CASE f \in C BY <3>1, <3>3, InEntries
    <3>4. CASE f \in files[i] BY <3>1, <3>4, InEntries, InStored
    <3> QED BY <3>2, <3>3, <3>4
  <2> QED BY <2>1, <2>2, <2>3
<1>7. Distinct(Stored)' /\ \A e \in Stored' : e.seq <= lastSequence'
  <2>1. Distinct(Stored') BY <1>6 DEF TreeTypes, Distinct
  <2>2. \A e \in Stored' : e.seq <= lastSequence' BY <1>6 DEF TreeTypes
  <2> QED BY <2>1, <2>2 DEF Distinct
<1> QED BY <1>1, <1>2, <1>3, <1>5, <1>6, <1>7 DEF TreeTypes

(* What a compaction starts with.                                          *)
LEMMA ChosenShape ==
    ASSUME NEW c, Chosen(c)
    PROVE  /\ c.level \in 0..NumLevels - 2
           /\ c.in0 # {} /\ c.in0 \subseteq files[c.level] /\ c.in1 \subseteq files[c.level + 1]
           /\ Outside(files[c.level + 1] \ c.in1, Inputs(c))
BY DEF Chosen, CompShape

(* A file that is moved overlaps nothing in the next level.                *)
LEMMA PickKeepsDisjoint ==
    ASSUME DisjointInv, PickSize \/ PickSeek
    PROVE  DisjointInv'
<1>0. TreeTypes /\ FilesDisjoint /\ manual = None BY DEF DisjointInv
<1>1. comp = None /\ UNCHANGED <<opts, mem, lastSequence, snapshots, nextFile, manual>>
  BY <1>0, PickIs
<1>2. PICK c : /\ Chosen(c)
               /\ \/ comp' = c /\ files' = files
                  \/ \E f : /\ c.in0 = {f} /\ c.in1 = {} /\ comp' = comp
                            /\ files' = SaveTo(SaveTo(files, c.level, {f}, {}),
                                               c.level + 1, {}, {f})
  BY <1>0, PickIs
<1>3. CASE comp' = c /\ files' = files
  <2>1. TreeTypes'
    <3>1. Stored' = Stored BY <1>1, <1>3 DEF Stored
    <3>2. Distinct(Stored)' /\ \A d \in Stored' : d.seq <= lastSequence'
      BY <3>1, <1>0, <1>1 DEF TreeTypes, Distinct
    <3> QED BY <3>2, <1>0, <1>1, <1>3 DEF TreeTypes
  <2>2. FilesDisjoint' BY <1>0, <1>3 DEF FilesDisjoint
  <2>3. CompShape(c) BY <1>2 DEF Chosen
  <2>4. CompShape(comp)'
    BY <2>3, <1>3 DEF CompShape, NoGap, Covers, Outside, Inputs, EntriesOf, Before
  <2> QED BY <1>0, <1>1, <2>1, <2>2, <2>4 DEF DisjointInv
<1>4. CASE \E f : /\ c.in0 = {f} /\ c.in1 = {} /\ comp' = comp
                  /\ files' = SaveTo(SaveTo(files, c.level, {f}, {}), c.level + 1, {}, {f})
  <2>1. PICK f : /\ c.in0 = {f} /\ c.in1 = {} /\ comp' = comp
                 /\ files' = SaveTo(SaveTo(files, c.level, {f}, {}), c.level + 1, {}, {f})
    BY <1>4
  <2>2. /\ c.level \in 0..NumLevels - 2 /\ f \in files[c.level]
        /\ Outside(files[c.level + 1], Inputs(c))
    BY <1>2, <2>1, ChosenShape
  <2> DEFINE l == c.level
  <2>3. /\ l \in Levels /\ l + 1 \in Levels /\ l + 1 # 0 /\ l # l + 1
        /\ files'[l] = files[l] \ {f}
        /\ files'[l + 1] = files[l + 1] \cup {f}
        /\ \A i \in Levels \ {l, l + 1} : files'[i] = files[i]
    <3>1. files' = SaveTo(SaveTo(files, l, {f}, {}), l + 1, {}, {f}) BY <2>1
    <3>2. l \in 0..NumLevels - 2 BY <2>2
    <3> HIDE DEF l
    <3>3. l \in Levels /\ l + 1 \in Levels /\ l + 1 # 0 /\ l # l + 1
      BY <3>2, LevelsAssumption DEF Levels
    <3>4. files \in [Levels -> SUBSET FileType] BY <1>0 DEF TreeTypes
    <3> QED BY <3>1, <3>3, <3>4 DEF SaveTo
  <2>4. IsFile(f) /\ f \in FileType BY <1>0, <2>2, <2>3 DEF TreeTypes
  <2>5. f.entries = Inputs(c) BY <2>1 DEF Inputs, EntriesOf
  <2>6. EntriesOf({f}) \subseteq Stored /\ IsFiniteSet({f})
    <3>1. f.entries \subseteq Stored BY <2>2, <2>3, InEntries, InStored
    <3>2. EntriesOf({f}) = f.entries BY DEF EntriesOf
    <3> QED BY <3>1, <3>2, FS_Singleton
  <2>7. TreeTypes'
    <3>1. nextFile' \in Nat /\ nextFile' >= nextFile BY <1>0, <1>1 DEF TreeTypes
    <3> QED BY <1>0, <1>1, <2>1, <2>2, <2>4, <2>6, <3>1, ReplaceKeepsTypes
  <2>8. FilesDisjoint'
    <3> SUFFICES ASSUME NEW i \in Levels \ {0}, NEW x \in files'[i], NEW y \in files'[i], x # y
                 PROVE  Before(x.largest, y.smallest) \/ Before(y.largest, x.smallest)
      BY DEF FilesDisjoint, Before
    <3>1. ASSUME NEW h \in files[l + 1]
          PROVE  Before(h.largest, f.smallest) \/ Before(f.largest, h.smallest)
      BY <2>2, <2>4, <2>5 DEF Outside, IsFile
    <3>2. CASE i = l + 1 BY <3>1, <3>2, <2>3, <1>0 DEF FilesDisjoint
    <3>3. CASE i # l + 1 BY <3>3, <2>3, <1>0 DEF FilesDisjoint
    <3> QED BY <3>2, <3>3
  <2> QED BY <1>0, <1>1, <2>1, <2>7, <2>8 DEF DisjointInv
<1> QED BY <1>2, <1>3, <1>4

(* The outputs overlap none of the files that the compaction left in       *)
(* their level, those included that were flushed there meanwhile.          *)
LEMMA InstallKeepsDisjoint ==
    ASSUME DisjointInv, InstallCompactionResults
    PROVE  DisjointInv'
<1> DEFINE l == comp.level  New == Added(comp)
<1>0. TreeTypes /\ FilesDisjoint /\ manual = None BY DEF DisjointInv
<1>1. /\ comp # None /\ comp' = None
      /\ files' = SaveTo(SaveTo(files, l, comp.in0, {}), l + 1, comp.in1, New)
      /\ nextFile' = nextFile + Cardinality(New)
      /\ UNCHANGED <<opts, mem, lastSequence, snapshots, compactPointer, manual>>
  BY InstallIs
<1>2. CompShape(comp) BY <1>1 DEF DisjointInv
<1>3. l \in 0..NumLevels - 2 /\ Outside(files[l + 1] \ comp.in1, Inputs(comp))
  BY <1>2 DEF CompShape
<1>4. Inputs(comp) \subseteq Stored /\ Distinct(Inputs(comp)) BY <1>0, <1>2, InputsStored
<1>5. nextFile \in Nat BY <1>0 DEF TreeTypes
<1>6. /\ IsFiniteSet(New) /\ Cardinality(New) \in Nat
      /\ New \subseteq FileType /\ \A f \in New : IsFile(f)
      /\ EntriesOf(New) = Kept(comp) /\ Apart(New)
  BY <1>4, <1>5, OutputsAre
<1>7. Kept(comp) \subseteq Inputs(comp) BY DEF Kept
<1> HIDE DEF New, l
<1>8. TreeTypes'
  <2>1. nextFile' \in Nat /\ nextFile' >= nextFile BY <1>1, <1>5, <1>6
  <2>2. EntriesOf(New) \subseteq Stored BY <1>4, <1>6, <1>7
  <2> QED BY <2>1, <2>2, <1>0, <1>1, <1>3, <1>6, ReplaceKeepsTypes
<1>9. /\ l \in Levels /\ l + 1 \in Levels /\ l + 1 # 0 /\ l # l + 1
      /\ files'[l] = files[l] \ comp.in0
      /\ files'[l + 1] = (files[l + 1] \ comp.in1) \cup New
      /\ \A i \in Levels \ {l, l + 1} : files'[i] = files[i]
  BY <1>0, <1>1, <1>3, Replaced
<1>10. FilesDisjoint'
  <2> SUFFICES ASSUME NEW i \in Levels \ {0}, NEW x \in files'[i], NEW y \in files'[i], x # y
               PROVE  Before(x.largest, y.smallest) \/ Before(y.largest, x.smallest)
    BY DEF FilesDisjoint, Before
  <2>1. ASSUME NEW h \in files[l + 1] \ comp.in1, NEW f \in New
        PROVE  Before(h.largest, f.smallest) \/ Before(f.largest, h.smallest)
    <3>1. f.smallest \in Inputs(comp) /\ f.largest \in Inputs(comp)
      BY <1>6, <1>7, InEntries DEF IsFile
    <3> QED BY <3>1, <1>3 DEF Outside
  <2>2. CASE i = l + 1 BY <2>1, <2>2, <1>6, <1>9, <1>0 DEF FilesDisjoint, Apart
  <2>3. CASE i # l + 1 BY <2>3, <1>9, <1>0 DEF FilesDisjoint
  <2> QED BY <2>2, <2>3
<1> QED BY <1>0, <1>1, <1>8, <1>10 DEF DisjointInv

(* An execution in which no compaction is asked for by hand: the Java      *)
(* wrapper never calls DB::CompactRange.  The inputs of such a compaction  *)
(* may leave a key between them free, and a table for that key may be      *)
(* flushed to the output level before the output is installed around it.   *)
NoManual == opts.ranges = {}

(* It stays one.                                                           *)
LEMMA NoManualStays ==
    ASSUME [Next]_vars
    PROVE  opts' = opts
BY DEF Next, vars, Write, GetSnapshot, ReleaseSnapshot, CompactMemTable, PickSize, PickSeek, Begin,
   CompactRange, CompactManual, ManualDone, InstallCompactionResults

(* Writes and snapshots change no file.                                    *)
LEMMA OtherStepsKeepDisjoint ==
    ASSUME DisjointInv, NoManual, [Next]_vars,
           ~CompactMemTable, ~PickSize, ~PickSeek, ~InstallCompactionResults
    PROVE  DisjointInv' /\ UNCHANGED <<opts, files, comp, manual, nextFile>>
<1>0. TreeTypes /\ FilesDisjoint /\ manual = None /\ (comp = None \/ CompShape(comp))
  BY DEF DisjointInv
<1>1. UNCHANGED <<opts, files, comp, manual, nextFile>> /\ TreeTypes'
  <2>T. /\ opts \in Options /\ lastSequence \in 0..MaxWrites /\ nextFile \in Nat
        /\ snapshots \subseteq 0..lastSequence /\ (opts.snapshots = 0 => snapshots = {})
        /\ files \in [Levels -> SUBSET FileType]
        /\ \A l \in Levels : IsFiniteSet(files[l]) /\ \A f \in files[l] : IsFile(f)
        /\ \A f, g \in files[0] : f.number < nextFile /\ (f.number = g.number => f = g)
        /\ Distinct(Stored) /\ \A e \in Stored : e.seq <= lastSequence
    BY <1>0 DEF TreeTypes
  <2>1. ASSUME NEW k \in Keys, NEW del \in BOOLEAN, Write(k, del)
        PROVE  UNCHANGED <<opts, files, comp, manual, nextFile>> /\ TreeTypes'
    <3> DEFINE e == [key |-> k, seq |-> lastSequence + 1, del |-> del]
    <3>1. /\ lastSequence < MaxWrites /\ lastSequence' = lastSequence + 1
          /\ mem' = mem \cup {e}
          /\ UNCHANGED <<opts, snapshots, files, nextFile, compactPointer, comp, manual>>
      BY <2>1 DEF Write
    <3>2. Stored' = Stored \cup {e}
      <4>1. UNION {files'[l] : l \in Levels} = UNION {files[l] : l \in Levels} BY <3>1
      <4> QED BY <3>1, <4>1, Zenon DEF Stored, EntriesOf
    <3>3. e \in Entry /\ e.seq = lastSequence + 1 BY <3>1, <2>T, LevelsAssumption DEF Entry
    <3> HIDE DEF e
    <3>4. \A d \in Stored : d \in Entry /\ d.seq \in Nat /\ d.seq <= lastSequence
      BY <2>T, EntryTypes DEF Distinct
    <3>5. lastSequence' \in 0..MaxWrites /\ lastSequence \in Nat BY <2>T, <3>1, LevelsAssumption
    <3>6. Distinct(Stored)' /\ \A d \in Stored' : d.seq <= lastSequence'
      <4>1. Distinct(Stored') BY <3>2, <3>3, <3>4, <3>5, <2>T DEF Distinct
      <4>2. \A d \in Stored' : d.seq <= lastSequence' BY <3>1, <3>2, <3>3, <3>4, <3>5
      <4> QED BY <4>1, <4>2 DEF Distinct
    <3>7. snapshots' \subseteq 0..lastSequence' BY <3>1, <3>5, <2>T
    <3> QED BY <3>1, <3>5, <3>6, <3>7, <2>T DEF TreeTypes
  <2>2. ASSUME GetSnapshot PROVE UNCHANGED <<opts, files, comp, manual, nextFile>> /\ TreeTypes'
    <3>1. /\ Cardinality(snapshots) < opts.snapshots
          /\ snapshots' = snapshots \cup {lastSequence}
          /\ UNCHANGED <<opts, mem, lastSequence, files, nextFile, compactPointer, comp, manual>>
      BY <2>2 DEF GetSnapshot
    <3>2. opts.snapshots # 0
      <4> SUFFICES ASSUME opts.snapshots = 0 PROVE FALSE OBVIOUS
      <4>1. snapshots = {} BY <2>T
      <4>2. Cardinality(snapshots) = 0 BY <4>1, FS_EmptySet
      <4> QED BY <3>1, <4>2
    <3>3. Stored' = Stored BY <3>1 DEF Stored
    <3>4. Distinct(Stored)' /\ \A d \in Stored' : d.seq <= lastSequence'
      BY <3>1, <3>3, <2>T DEF Distinct
    <3>5. snapshots' \subseteq 0..lastSequence' BY <3>1, <2>T
    <3> QED BY <3>1, <3>2, <3>4, <3>5, <2>T DEF TreeTypes
  <2>3. ASSUME NEW s \in snapshots, ReleaseSnapshot(s)
        PROVE  UNCHANGED <<opts, files, comp, manual, nextFile>> /\ TreeTypes'
    <3>1. /\ snapshots' = snapshots \ {s}
          /\ UNCHANGED <<opts, mem, lastSequence, files, nextFile, compactPointer, comp, manual>>
      BY <2>3 DEF ReleaseSnapshot
    <3>2. Stored' = Stored BY <3>1 DEF Stored
    <3>3. Distinct(Stored)' /\ \A d \in Stored' : d.seq <= lastSequence'
      BY <3>1, <3>2, <2>T DEF Distinct
    <3> QED BY <3>1, <3>3, <2>T DEF TreeTypes
  <2>4. ~(\E r \in opts.ranges : CompactRange(r[1], r[2])) /\ opts.keys \subseteq Keys
    BY <2>T, LevelsAssumption DEF NoManual
  <2>5. ~CompactManual /\ ~ManualDone BY <1>0 DEF CompactManual, ManualDone
  <2>6. CASE UNCHANGED vars
    <3>1. Stored' = Stored BY <2>6 DEF Stored, vars
    <3>2. Distinct(Stored)' /\ \A d \in Stored' : d.seq <= lastSequence'
      BY <3>1, <2>6, <2>T DEF Distinct, vars
    <3> QED BY <2>6, <3>2, <2>T DEF TreeTypes, vars
  <2> QED BY <2>1, <2>2, <2>3, <2>4, <2>5, <2>6 DEF Next
<1>2. FilesDisjoint' BY <1>0, <1>1 DEF FilesDisjoint
<1>3. CompShape(comp) => CompShape(comp)'
  BY <1>1 DEF CompShape, NoGap, Covers, Outside, Inputs, EntriesOf, Before
<1> QED BY <1>0, <1>1, <1>2, <1>3 DEF DisjointInv

(* The invariant is inductive ...                                          *)
LEMMA DisjointStep ==
    ASSUME DisjointInv, NoManual, [Next]_vars
    PROVE  DisjointInv'
BY FlushKeepsDisjoint, PickKeepsDisjoint, InstallKeepsDisjoint, OtherStepsKeepDisjoint

(* ... and holds of an empty database.                                     *)
LEMMA DisjointStart ==
    ASSUME Init
    PROVE  DisjointInv
<1>1. files = [l \in Levels |-> {}] /\ mem = {} /\ lastSequence = 0 /\ nextFile = 1
      /\ snapshots = {} /\ opts \in Options /\ comp = None /\ manual = None
  BY DEF Init
<1>2. Stored = {} BY <1>1 DEF Stored, EntriesOf
<1>3. 0 \in Levels /\ MaxWrites \in Nat BY LevelsAssumption DEF Levels
<1>4. TreeTypes BY <1>1, <1>2, <1>3, FS_EmptySet DEF TreeTypes, Distinct
<1>5. FilesDisjoint BY <1>1 DEF FilesDisjoint
<1> QED BY <1>1, <1>4, <1>5 DEF DisjointInv

(* In an execution without manual compactions the files of a level above 0 *)
(* never overlap: Builder::SaveTo's check never aborts, whatever is        *)
(* flushed while a compaction runs with mutex_ released.                   *)
THEOREM LevelsDisjointHolds == Spec => []LevelsDisjoint
<1> DEFINE Inv == NoManual => DisjointInv
<1>1. Init => Inv BY DisjointStart
<1>2. Inv /\ [Next]_vars => Inv'
  <2> SUFFICES ASSUME Inv, [Next]_vars, NoManual' PROVE DisjointInv'
    OBVIOUS
  <2>1. NoManual BY NoManualStays DEF NoManual
  <2> QED BY <2>1, DisjointStep
<1>3. Inv => LevelsDisjoint BY DEF DisjointInv, NoManual, LevelsDisjoint
<1> QED BY <1>1, <1>2, <1>3, PTL DEF Spec

-----------------------------------------------------------------------------
(* Upper levels hold the newer entries of a key.                           *)

(* Of each key, the entries of A are newer than those of B; A and B have   *)
(* no key in common.                                                       *)
NewerThan(A, B) == \A a \in A, b \in B : a.key = b.key => a.seq > b.seq
Unshared(A, B)  == \A a \in A, b \in B : a.key # b.key

(* NewestOnTop, in terms of entries.                                       *)
Ordered ==
    /\ \A l \in Levels : NewerThan(mem, EntriesOf(files[l]))
    /\ \A f, g \in files[0] : f.number > g.number => NewerThan(f.entries, g.entries)
    /\ \A l, m \in Levels : l < m => NewerThan(EntriesOf(files[l]), EntriesOf(files[m]))

(* Above level 0, the entries of a user key are in one file.               *)
WholeKeys ==
    \A l \in Levels \ {0} : \A f, g \in files[l] : f # g => Unshared(f.entries, g.entries)

(* What a compaction relies on until it ends: no reader is older than its  *)
(* smallestSnapshot; the files left behind in its level are newer than its *)
(* inputs, those left in the next share no key with them, grandparents are *)
(* older, and what came to the levels below after the compaction found no  *)
(* file around a key there is newer.                                       *)
CompOrder(c) ==
    /\ c.smallestSnapshot \in Nat
    /\ \A s \in snapshots \cup {lastSequence} : c.smallestSnapshot <= s
    /\ opts.snapshots = 0 => \A e \in Inputs(c) : e.seq <= c.smallestSnapshot
    /\ NewerThan(EntriesOf(files[c.level] \ c.in0), EntriesOf(c.in0))
    /\ Unshared(EntriesOf(files[c.level + 1] \ c.in1), Inputs(c))
    /\ OlderGrandparents(c)
    /\ \A l \in Levels, e \in Inputs(c) :
          l >= c.level + 2 /\ IsBaseLevelForKey(c, e.key) => NewerThan(EntriesOf(files[l]), {e})

(* The inductive invariant of NewestOnTop, and of what readers see.        *)
OrderInv ==
    /\ DisjointInv /\ WholeKeys /\ Ordered
    /\ comp = None \/ CompOrder(comp)

(* No snapshot is ever open, or an output file is as large as it needs to  *)
(* be: then no compaction ends one file and begins the next between two    *)
(* entries of a user key.                                                  *)
KeysUnsplit == \A o \in Options : o.snapshots = 0 \/ o.target > MaxWrites

(* NewestOnTop says what Ordered says, key by key.                         *)
LEMMA OrderedIs ==
    ASSUME TreeTypes, Ordered
    PROVE  NewestOnTop
<1>1. ASSUME NEW A, NEW B, NewerThan(EntriesOf(A), EntriesOf(B))
      PROVE  \A k \in Keys : \A a \in Hits(k, A), b \in Hits(k, B) : a.seq > b.seq
  BY <1>1 DEF NewerThan, Hits
<1>2. \A F : EntriesOf({[entries |-> F]}) = F BY DEF EntriesOf
<1>3. \A f : EntriesOf({f}) = f.entries BY DEF EntriesOf
<1>4. \A l \in Levels : NewerThan(EntriesOf({[entries |-> mem]}), EntriesOf(files[l]))
  BY <1>2 DEF Ordered
<1>5. \A f, g \in files[0] : f.number > g.number => NewerThan(EntriesOf({f}), EntriesOf({g}))
  BY <1>3 DEF Ordered
<1>6. \A l, m \in Levels : l < m => NewerThan(EntriesOf(files[l]), EntriesOf(files[m]))
  BY DEF Ordered
<1> QED BY <1>1, <1>4, <1>5, <1>6 DEF NewestOnTop

(* A file that touches no file of a set has no key in common with them.    *)
LEMMA UntouchedUnshared ==
    ASSUME NEW F, \A g \in F : IsFile(g), NEW f, IsFile(f),
           Touching(F, f.smallest.key, f.largest.key) = {}
    PROVE  Unshared(f.entries, EntriesOf(F))
<1> SUFFICES ASSUME NEW a \in f.entries, NEW b \in EntriesOf(F), a.key = b.key PROVE FALSE
  BY DEF Unshared
<1>1. PICK g \in F : b \in g.entries BY EntriesIn
<1>2. g.smallest.key <= b.key /\ b.key <= g.largest.key BY <1>1, FileRange
<1>3. f.smallest.key <= b.key /\ b.key <= f.largest.key BY FileRange
<1>4. g.largest.key < f.smallest.key \/ g.smallest.key > f.largest.key BY DEF Touching
<1>5. {b.key, g.smallest.key, g.largest.key, f.smallest.key, f.largest.key} \subseteq Nat
  BY <1>1, FileRange, EntryTypes DEF IsFile, Distinct
<1> QED BY <1>2, <1>3, <1>4, <1>5

(* A compaction that PickCompaction chose meets what CompOrder asks for,   *)
(* at its start.                                                           *)
LEMMA ChosenOrder ==
    ASSUME OrderInv, NEW c, Chosen(c)
    PROVE  CompOrder(c)
<1> DEFINE l == c.level  in0 == c.in0  in1 == c.in1
<1>0. TreeTypes /\ FilesDisjoint /\ WholeKeys /\ Ordered BY DEF OrderInv, DisjointInv
<1>1. /\ CompShape(c) /\ c.version = files
      /\ c.smallestSnapshot = (IF snapshots = {} THEN lastSequence ELSE Min(snapshots))
      /\ in1 = Touching(files[l + 1], Low(in0), High(in0))
      /\ l = 0 => Closed(in0)
      /\ c.grandparents = {} \/ (l + 2 \in Levels /\ c.grandparents \subseteq files[l + 2])
  BY DEF Chosen
<1>2. /\ l \in 0..NumLevels - 2 /\ l \in Levels /\ l + 1 \in Levels
      /\ in0 # {} /\ in0 \subseteq files[l] /\ in1 \subseteq files[l + 1]
      /\ \A f \in in0 \cup in1 : IsFile(f)
      /\ Inputs(c) \subseteq Stored /\ Distinct(Inputs(c))
  BY <1>0, <1>1, InputsStored DEF CompShape
<1>3. \A f \in files[l] \cup files[l + 1] : IsFile(f) BY <1>0, <1>2 DEF TreeTypes
<1>4. ASSUME NEW e \in Inputs(c)
      PROVE  e \in EntriesOf(in0) \/ (e \in EntriesOf(in1) /\ \E g \in in1 : e \in g.entries)
  BY DEF Inputs, EntriesOf
<1>5. /\ c.smallestSnapshot \in Nat
      /\ \A s \in snapshots \cup {lastSequence} : c.smallestSnapshot <= s
      /\ opts.snapshots = 0 => \A e \in Inputs(c) : e.seq <= c.smallestSnapshot
  <2>1. /\ snapshots \subseteq 0..lastSequence /\ lastSequence \in Nat
        /\ opts.snapshots = 0 => snapshots = {}
        /\ \A e \in Inputs(c) : e.seq <= lastSequence
    BY <1>0, <1>2, LevelsAssumption DEF TreeTypes
  <2>2. CASE snapshots = {} BY <2>1, <2>2, <1>1
  <2>3. CASE snapshots # {}
    <3>1. snapshots \subseteq Nat BY <2>1
    <3>2. Min(snapshots) \in snapshots /\ \A s \in snapshots : Min(snapshots) <= s
      BY <2>3, <3>1, MinIs
    <3>3. c.smallestSnapshot = Min(snapshots) BY <1>1, <2>3
    <3>4. c.smallestSnapshot \in snapshots /\ \A s \in snapshots : c.smallestSnapshot <= s
      BY <3>2, <3>3
    <3>5. c.smallestSnapshot \in Nat /\ c.smallestSnapshot <= lastSequence
      <4>1. \A s \in snapshots : s \in Nat /\ s <= lastSequence BY <2>1
      <4> QED BY <3>4, <4>1
    <3>6. opts.snapshots # 0 BY <2>1, <2>3
    <3> QED BY <3>4, <3>5, <3>6
  <2> QED BY <2>2, <2>3
<1>6. NewerThan(EntriesOf(files[l] \ in0), EntriesOf(in0))
  <2> SUFFICES ASSUME NEW a \in EntriesOf(files[l] \ in0), NEW b \in EntriesOf(in0)
               PROVE  a.key # b.key
    BY DEF NewerThan
  <2>1. PICK f \in files[l] \ in0 : a \in f.entries BY EntriesIn
  <2>2. PICK g \in in0 : b \in g.entries BY EntriesIn
  <2>3. CASE l = 0
    <3>1. g.largest.key < f.smallest.key \/ f.largest.key < g.smallest.key
      BY <2>1, <2>2, <2>3, <1>1 DEF Closed
    <3>2. /\ f.smallest.key <= a.key /\ a.key <= f.largest.key
          /\ g.smallest.key <= b.key /\ b.key <= g.largest.key
          /\ {a.key, b.key, g.smallest.key, g.largest.key, f.smallest.key, f.largest.key} \subseteq Nat
      BY <2>1, <2>2, <1>2, <1>3, FileRange, EntryTypes DEF IsFile, Distinct
    <3> QED BY <3>1, <3>2
  <2>4. CASE l # 0
    <3>1. Unshared(f.entries, g.entries) BY <2>1, <2>2, <2>4, <1>0, <1>2 DEF WholeKeys
    <3> QED BY <3>1, <2>1, <2>2 DEF Unshared
  <2> QED BY <2>3, <2>4
<1>7. Unshared(EntriesOf(files[l + 1] \ in1), Inputs(c))
  <2> SUFFICES ASSUME NEW a \in EntriesOf(files[l + 1] \ in1), NEW b \in Inputs(c), a.key = b.key
               PROVE  FALSE
    BY DEF Unshared
  <2>1. PICK h \in files[l + 1] \ in1 : a \in h.entries BY EntriesIn
  <2>2. CASE b \in EntriesOf(in0)
    <3>1. PICK g \in in0 : b \in g.entries BY <2>2, EntriesIn
    <3>2. Low(in0) <= g.smallest.key /\ g.largest.key <= High(in0) BY <3>1, <1>2, RangeOfFiles
    <3>3. Low(in0) \in Nat /\ High(in0) \in Nat
      BY <1>2, RangeOfFiles, LevelsAssumption DEF Keys
    <3>4. h.largest.key < Low(in0) \/ h.smallest.key > High(in0) BY <2>1, <1>1 DEF Touching
    <3>5. /\ h.smallest.key <= a.key /\ a.key <= h.largest.key
          /\ g.smallest.key <= b.key /\ b.key <= g.largest.key
          /\ {a.key, b.key, g.smallest.key, g.largest.key, h.smallest.key, h.largest.key} \subseteq Nat
      BY <2>1, <3>1, <1>2, <1>3, FileRange, EntryTypes DEF IsFile, Distinct
    <3> HIDE DEF in0, in1, l
    <3> QED BY <3>2, <3>3, <3>4, <3>5
  <2>3. CASE \E g \in in1 : b \in g.entries
    <3>1. PICK g \in in1 : b \in g.entries BY <2>3
    <3>2. l + 1 \in Levels \ {0} BY <1>2
    <3>3. Unshared(h.entries, g.entries) BY <2>1, <3>1, <3>2, <1>0, <1>2 DEF WholeKeys
    <3> QED BY <3>1, <3>3, <2>1 DEF Unshared
  <2> QED BY <2>2, <2>3, <1>4
<1>8. OlderGrandparents(c)
  <2> SUFFICES ASSUME NEW g \in c.grandparents
               PROVE  /\ IsFile(g)
                      /\ \A e \in Inputs(c) : g.largest.key = e.key => g.largest.seq < e.seq
    BY DEF OlderGrandparents
  <2>1. l + 2 \in Levels /\ g \in files[l + 2] BY <1>1
  <2>2. IsFile(g) BY <2>1, <1>0 DEF TreeTypes
  <2>3. g.largest \in EntriesOf(files[l + 2]) BY <2>1, <2>2, InEntries DEF IsFile
  <2>4. l < l + 2 /\ l + 1 < l + 2 BY <1>2
  <2>5. ASSUME NEW e \in Inputs(c), g.largest.key = e.key PROVE g.largest.seq < e.seq
    <3>1. e \in EntriesOf(files[l]) \/ e \in EntriesOf(files[l + 1])
      BY <1>2, <1>4 DEF EntriesOf
    <3>2. e.seq > g.largest.seq
      BY <3>1, <2>1, <2>3, <2>4, <2>5, <1>0, <1>2 DEF Ordered, NewerThan
    <3> QED BY <3>2
  <2> QED BY <2>2, <2>5
<1>9. ASSUME NEW i \in Levels, NEW e \in Inputs(c), i >= l + 2, IsBaseLevelForKey(c, e.key)
      PROVE  NewerThan(EntriesOf(files[i]), {e})
  <2>1. i \in l + 2..NumLevels - 1 BY <1>2, <1>9, LevelsAssumption DEF Levels
  <2>2. Touching(files[i], e.key, e.key) = {} BY <2>1, <1>1, <1>9 DEF IsBaseLevelForKey
  <2>3. ASSUME NEW a \in EntriesOf(files[i]), a.key = e.key PROVE FALSE
    <3>1. PICK f \in files[i] : a \in f.entries BY EntriesIn
    <3>2. IsFile(f) BY <3>1, <1>0 DEF TreeTypes
    <3>3. /\ f.smallest.key <= a.key /\ a.key <= f.largest.key
          /\ {a.key, f.smallest.key, f.largest.key} \subseteq Nat
      BY <3>1, <3>2, FileRange, EntryTypes DEF IsFile, Distinct
    <3>4. f \in Touching(files[i], e.key, e.key) BY <3>1, <3>3, <2>3 DEF Touching
    <3> QED BY <3>4, <2>2
  <2> QED BY <2>3 DEF NewerThan
<1> QED BY <1>5, <1>6, <1>7, <1>8, <1>9 DEF CompOrder

(* Files of two levels are replaced, in the lower one, by files of their   *)
(* entries: a move, or the end of a compaction.                            *)
LEMMA ReplaceKeepsOrder ==
    ASSUME TreeTypes, WholeKeys, Ordered,
           NEW l \in 0..NumLevels - 2, NEW A, A \subseteq files[l],
           NEW B, B \subseteq files[l + 1], NEW C, EntriesOf(C) \subseteq EntriesOf(A \cup B),
           files' = SaveTo(SaveTo(files, l, A, {}), l + 1, B, C), mem' = mem,
           NewerThan(EntriesOf(files[l] \ A), EntriesOf(A)),
           Unshared(EntriesOf(files[l + 1] \ B), EntriesOf(A \cup B)),
           \A f, g \in C : f # g => Unshared(f.entries, g.entries)
    PROVE  WholeKeys' /\ Ordered'
<1>1. /\ l \in Levels /\ l + 1 \in Levels /\ l + 1 # 0 /\ l # l + 1
      /\ files'[l] = files[l] \ A
      /\ files'[l + 1] = (files[l + 1] \ B) \cup C
      /\ \A i \in Levels \ {l, l + 1} : files'[i] = files[i]
  BY Replaced
<1>2. 0 \in Levels /\ l + 1 # 0 /\ l \in Nat /\ Levels \subseteq Nat
  BY LevelsAssumption DEF Levels
<1>3. WholeKeys'
  <2> SUFFICES ASSUME NEW i \in Levels \ {0}, NEW f \in files'[i], NEW g \in files'[i], f # g
               PROVE  Unshared(f.entries, g.entries)
    BY DEF WholeKeys, Unshared
  <2>1. ASSUME NEW h \in files[l + 1] \ B, NEW x \in C
        PROVE  Unshared(h.entries, x.entries) /\ Unshared(x.entries, h.entries)
    <3>1. h.entries \subseteq EntriesOf(files[l + 1] \ B) BY InEntries
    <3>2. x.entries \subseteq EntriesOf(A \cup B) BY InEntries
    <3> QED BY <3>1, <3>2 DEF Unshared
  <2>2. CASE i = l + 1 BY <2>1, <2>2, <1>1 DEF WholeKeys
  <2>3. CASE i # l + 1 BY <2>3, <1>1 DEF WholeKeys
  <2> QED BY <2>2, <2>3
<1>4. \A i \in Levels : i # l + 1 => EntriesOf(files'[i]) \subseteq EntriesOf(files[i])
  BY <1>1 DEF EntriesOf
<1>5. EntriesOf(A \cup B) \subseteq EntriesOf(files[l]) \cup EntriesOf(files[l + 1])
  BY DEF EntriesOf
<1>6. EntriesOf(files'[l + 1]) \subseteq EntriesOf(files[l]) \cup EntriesOf(files[l + 1])
  <2>1. EntriesOf(files'[l + 1]) = EntriesOf(files[l + 1] \ B) \cup EntriesOf(C)
    BY <1>1, EntriesUnion
  <2>2. EntriesOf(files[l + 1] \ B) \subseteq EntriesOf(files[l + 1]) BY DEF EntriesOf
  <2> QED BY <2>1, <2>2, <1>5
<1>7. EntriesOf(files'[l + 1]) \subseteq EntriesOf(A) \cup EntriesOf(files[l + 1])
  <2>1. EntriesOf(files'[l + 1]) = EntriesOf(files[l + 1] \ B) \cup EntriesOf(C)
    BY <1>1, EntriesUnion
  <2>2. EntriesOf(files[l + 1] \ B) \subseteq EntriesOf(files[l + 1]) BY DEF EntriesOf
  <2>3. EntriesOf(A \cup B) \subseteq EntriesOf(A) \cup EntriesOf(files[l + 1]) BY DEF EntriesOf
  <2> QED BY <2>1, <2>2, <2>3
<1>8. ASSUME NEW i \in Levels PROVE NewerThan(mem', EntriesOf(files'[i]))
  <2>1. NewerThan(mem, EntriesOf(files[i])) /\ NewerThan(mem, EntriesOf(files[l]))
        /\ NewerThan(mem, EntriesOf(files[l + 1]))
    BY <1>1 DEF Ordered
  <2>2. CASE i = l + 1 BY <2>1, <2>2, <1>6 DEF NewerThan
  <2>3. CASE i # l + 1 BY <2>1, <2>3, <1>4 DEF NewerThan
  <2> QED BY <2>2, <2>3
<1>9. \A f, g \in files'[0] : f.number > g.number => NewerThan(f.entries, g.entries)
  <2>1. files'[0] \subseteq files[0] BY <1>1, <1>2
  <2> QED BY <2>1 DEF Ordered
<1>10. ASSUME NEW i \in Levels, NEW j \in Levels, i < j
       PROVE  NewerThan(EntriesOf(files'[i]), EntriesOf(files'[j]))
  <2>1. \A x, y \in Levels : x < y => NewerThan(EntriesOf(files[x]), EntriesOf(files[y]))
    BY DEF Ordered
  <2>2. CASE j = l + 1
    <3>1. CASE i = l
      <4>1. NewerThan(EntriesOf(files[l] \ A), EntriesOf(files[l + 1]))
        <5>1. EntriesOf(files[l] \ A) \subseteq EntriesOf(files[l]) BY DEF EntriesOf
        <5>2. l < l + 1 BY <1>2
        <5>3. NewerThan(EntriesOf(files[l]), EntriesOf(files[l + 1])) BY <5>2, <2>1, <1>1
        <5> QED BY <5>1, <5>3 DEF NewerThan
      <4>2. files'[i] = files[l] \ A BY <3>1, <1>1
      <4> QED BY <4>1, <4>2, <2>2, <1>7 DEF NewerThan
    <3>2. CASE i # l
      <4>1. i < l /\ i # l + 1 BY <2>2, <3>2, <1>2, <1>10
      <4>2. NewerThan(EntriesOf(files[i]), EntriesOf(files[l])) BY <4>1, <2>1, <1>1
      <4>3. NewerThan(EntriesOf(files[i]), EntriesOf(files[l + 1])) BY <1>10, <2>2, <2>1
      <4> QED BY <4>1, <4>2, <4>3, <2>2, <1>4, <1>6 DEF NewerThan
    <3> QED BY <3>1, <3>2
  <2>3. CASE i = l + 1
    <3>1. l < j /\ j # l + 1 BY <2>3, <1>2, <1>10
    <3>2. NewerThan(EntriesOf(files[l]), EntriesOf(files[j])) BY <3>1, <2>1, <1>1
    <3>3. NewerThan(EntriesOf(files[l + 1]), EntriesOf(files[j])) BY <1>10, <2>3, <2>1
    <3> QED BY <3>1, <3>2, <3>3, <2>3, <1>4, <1>6 DEF NewerThan
  <2>4. CASE i # l + 1 /\ j # l + 1
    <3>1. NewerThan(EntriesOf(files[i]), EntriesOf(files[j])) BY <1>10, <2>1
    <3> QED BY <3>1, <2>4, <1>4 DEF NewerThan
  <2> QED BY <2>2, <2>3, <2>4
<1>11. Ordered' BY <1>8, <1>9, <1>10 DEF Ordered, NewerThan, EntriesOf
<1> QED BY <1>3, <1>11

(* The memtable's entries are the newest of their keys, also after they    *)
(* went to a table, which goes below level 0 only where no file above it   *)
(* has any of their keys.                                                  *)
LEMMA FlushKeepsOrder ==
    ASSUME OrderInv, CompactMemTable
    PROVE  OrderInv'
<1>0. /\ TreeTypes /\ FilesDisjoint /\ WholeKeys /\ Ordered /\ DisjointInv
      /\ comp = None \/ CompOrder(comp)
  BY DEF OrderInv, DisjointInv
<1>1. PICK m \in Levels, f \in FileType :
        /\ IsFile(f) /\ f.entries = mem /\ f.number = nextFile
        /\ files' = [files EXCEPT ![m] = @ \cup {f}]
        /\ m # 0 => \A l \in 0..m : Touching(files[l], f.smallest.key, f.largest.key) = {}
  BY <1>0, FlushIs
<1>2. mem' = {} /\ UNCHANGED <<opts, lastSequence, snapshots, comp>> BY DEF CompactMemTable
<1>3. files \in [Levels -> SUBSET FileType] /\ 0 \in Levels /\ Levels \subseteq Nat
  BY <1>0, LevelsAssumption DEF TreeTypes, Levels
<1>4. /\ files'[m] = files[m] \cup {f}
      /\ \A l \in Levels : l # m => files'[l] = files[l]
  BY <1>1, <1>3
<1>5. \A l \in Levels : NewerThan(f.entries, EntriesOf(files[l])) BY <1>0, <1>1 DEF Ordered
<1>6. ASSUME NEW l \in Levels, l <= m, m # 0 PROVE Unshared(f.entries, EntriesOf(files[l]))
  <2>1. l \in 0..m BY <1>3, <1>6
  <2>2. \A g \in files[l] : IsFile(g) BY <1>0 DEF TreeTypes
  <2> QED BY <2>1, <2>2, <1>1, <1>6, UntouchedUnshared
<1>7. /\ EntriesOf(files'[m]) = EntriesOf(files[m]) \cup f.entries
      /\ \A l \in Levels : l # m => EntriesOf(files'[l]) = EntriesOf(files[l])
  BY <1>4, EntriesUnion
<1>8. WholeKeys'
  <2> SUFFICES ASSUME NEW i \in Levels \ {0}, NEW x \in files'[i], NEW y \in files'[i], x # y
               PROVE  Unshared(x.entries, y.entries)
    BY DEF WholeKeys, Unshared
  <2>1. ASSUME NEW g \in files[m], m # 0
        PROVE  Unshared(f.entries, g.entries) /\ Unshared(g.entries, f.entries)
    <3>1. m <= m BY <1>3
    <3>2. Unshared(f.entries, EntriesOf(files[m])) BY <3>1, <2>1, <1>6
    <3>3. g.entries \subseteq EntriesOf(files[m]) BY InEntries
    <3> QED BY <3>2, <3>3 DEF Unshared
  <2>2. CASE i = m BY <2>1, <2>2, <1>4, <1>0 DEF WholeKeys
  <2>3. CASE i # m BY <2>3, <1>4, <1>0 DEF WholeKeys
  <2> QED BY <2>2, <2>3
<1>9. Ordered'
  <2>1. \A l \in Levels : NewerThan(mem', EntriesOf(files'[l])) BY <1>2 DEF NewerThan
  <2>2. ASSUME NEW x \in files'[0], NEW y \in files'[0], x.number > y.number
        PROVE  NewerThan(x.entries, y.entries)
    <3>1. x \in files[0] \/ (x = f /\ m = 0) BY <1>3, <1>4
    <3>2. y \in files[0] \/ (y = f /\ m = 0) BY <1>3, <1>4
    <3>3. \A g \in files[0] : g.number \in Nat /\ g.number < nextFile /\ nextFile \in Nat
      BY <1>0, <1>3 DEF TreeTypes, IsFile
    <3>4. y # f \/ x = f
      <4>1. CASE x = f BY <4>1
      <4>2. CASE x # f
        <5>1. x.number < nextFile /\ x.number \in Nat /\ nextFile \in Nat BY <3>1, <3>3, <4>2
        <5> QED BY <5>1, <2>2, <1>1
      <4> QED BY <4>1, <4>2
    <3>5. x = f => y # f
      <4>1. f.number \in Nat BY <1>1 DEF IsFile
      <4> QED BY <4>1, <2>2
    <3>6. y \in files[0] BY <3>2, <3>4, <3>5
    <3>7. CASE x = f
      <4>1. y.entries \subseteq EntriesOf(files[0]) BY <3>6, InEntries
      <4> QED BY <4>1, <3>7, <1>3, <1>5 DEF NewerThan
    <3>8. CASE x # f BY <3>1, <3>6, <3>8, <2>2, <1>0 DEF Ordered
    <3> QED BY <3>7, <3>8
  <2>3. ASSUME NEW i \in Levels, NEW j \in Levels, i < j
        PROVE  NewerThan(EntriesOf(files'[i]), EntriesOf(files'[j]))
    <3>1. NewerThan(EntriesOf(files[i]), EntriesOf(files[j])) BY <2>3, <1>0 DEF Ordered
    <3>2. CASE j = m
      <4>1. i # m /\ i <= m /\ m # 0 BY <2>3, <3>2, <1>3
      <4>2. Unshared(f.entries, EntriesOf(files[i])) BY <4>1, <1>6
      <4> QED BY <4>1, <4>2, <3>1, <3>2, <1>7 DEF NewerThan, Unshared
    <3>3. CASE i = m
      <4>1. j # m BY <2>3, <3>3, <1>3
      <4>2. NewerThan(f.entries, EntriesOf(files[j])) BY <1>5
      <4> QED BY <4>1, <4>2, <3>1, <3>3, <1>7 DEF NewerThan
    <3>4. CASE i # m /\ j # m BY <3>1, <3>4, <1>7
    <3> QED BY <3>2, <3>3, <3>4
  <2> QED BY <2>1, <2>2, <2>3 DEF Ordered, NewerThan, EntriesOf
<1>10. ASSUME comp # None PROVE CompOrder(comp)'
  <2>1. CompShape(comp) /\ CompOrder(comp) BY <1>0, <1>10 DEF DisjointInv
  <2>2. PICK c : c = comp OBVIOUS
  <2>3. /\ c.level \in 0..NumLevels - 2 /\ c.in0 \subseteq files[c.level]
        /\ c.in1 \subseteq files[c.level + 1]
        /\ c.level \in Levels /\ c.level + 1 \in Levels /\ c.level + 1 # 0
    BY <2>1, <2>2, LevelsAssumption DEF CompShape, Levels
  <2>4. /\ c.smallestSnapshot \in Nat
        /\ \A s \in snapshots \cup {lastSequence} : c.smallestSnapshot <= s
        /\ opts.snapshots = 0 => \A e \in Inputs(c) : e.seq <= c.smallestSnapshot
        /\ NewerThan(EntriesOf(files[c.level] \ c.in0), EntriesOf(c.in0))
        /\ Unshared(EntriesOf(files[c.level + 1] \ c.in1), Inputs(c))
        /\ OlderGrandparents(c)
        /\ \A l \in Levels, e \in Inputs(c) :
              l >= c.level + 2 /\ IsBaseLevelForKey(c, e.key) => NewerThan(EntriesOf(files[l]), {e})
    BY <2>1, <2>2 DEF CompOrder
  <2>5. Inputs(c) \subseteq EntriesOf(files[c.level]) \cup EntriesOf(files[c.level + 1])
    BY <2>3 DEF Inputs, EntriesOf
  <2>6. NewerThan(f.entries, Inputs(c)) BY <2>3, <2>5, <1>5 DEF NewerThan
  <2>7. NewerThan(EntriesOf(files'[c.level] \ c.in0), EntriesOf(c.in0))
    <3>1. EntriesOf(files'[c.level] \ c.in0) \subseteq EntriesOf(files[c.level] \ c.in0) \cup f.entries
      <4>1. files'[c.level] \ c.in0 \subseteq (files[c.level] \ c.in0) \cup {f} BY <2>3, <1>4
      <4> QED BY <4>1 DEF EntriesOf
    <3>2. EntriesOf(c.in0) \subseteq Inputs(c) BY DEF EntriesOf, Inputs
    <3> QED BY <3>1, <3>2, <2>4, <2>6 DEF NewerThan
  <2>8. Unshared(EntriesOf(files'[c.level + 1] \ c.in1), Inputs(c))
    <3>1. CASE m = c.level + 1
      <4>1. c.level <= m /\ m <= m /\ m # 0 BY <3>1, <2>3, <1>3
      <4>2. Unshared(f.entries, Inputs(c)) BY <4>1, <3>1, <2>3, <2>5, <1>6 DEF Unshared
      <4>3. EntriesOf(files'[c.level + 1] \ c.in1)
              \subseteq EntriesOf(files[c.level + 1] \ c.in1) \cup f.entries
        <5>1. files'[c.level + 1] \ c.in1 \subseteq (files[c.level + 1] \ c.in1) \cup {f}
          BY <3>1, <1>4
        <5> QED BY <5>1 DEF EntriesOf
      <4> QED BY <4>2, <4>3, <2>4 DEF Unshared
    <3>2. CASE m # c.level + 1 BY <3>2, <2>3, <2>4, <1>4
    <3> QED BY <3>1, <3>2
  <2>9. ASSUME NEW l \in Levels, NEW e \in Inputs(c), l >= c.level + 2, IsBaseLevelForKey(c, e.key)
        PROVE  NewerThan(EntriesOf(files'[l]), {e})
    <3>1. NewerThan(EntriesOf(files[l]), {e}) BY <2>4, <2>9
    <3>2. NewerThan(f.entries, {e}) BY <2>6 DEF NewerThan
    <3> QED BY <3>1, <3>2, <1>7 DEF NewerThan
  <2>10. \A s \in snapshots' \cup {lastSequence'} : c.smallestSnapshot <= s BY <2>4, <1>2
  <2>11. opts'.snapshots = 0 => \A e \in Inputs(c) : e.seq <= c.smallestSnapshot BY <2>4, <1>2
  <2>12. comp' = c BY <2>2, <1>2
  <2> QED BY <2>4, <2>7, <2>8, <2>9, <2>10, <2>11, <2>12
          DEF CompOrder, NewerThan, Unshared, EntriesOf, Inputs, OlderGrandparents, IsFile, Distinct,
              IsBaseLevelForKey, Touching, Before
<1>11. DisjointInv' BY <1>0, FlushKeepsDisjoint
<1>12. comp' = comp BY <1>2
<1> QED BY <1>8, <1>9, <1>10, <1>11, <1>12 DEF OrderInv

(* A move takes a file below nothing older.                                *)
LEMMA PickKeepsOrder ==
    ASSUME OrderInv, PickSize \/ PickSeek
    PROVE  OrderInv'
<1>0. /\ TreeTypes /\ FilesDisjoint /\ WholeKeys /\ Ordered /\ DisjointInv
  BY DEF OrderInv, DisjointInv
<1>1. comp = None /\ UNCHANGED <<opts, mem, lastSequence, snapshots, nextFile, manual>>
  BY <1>0, PickIs
<1>2. PICK c : /\ Chosen(c)
               /\ \/ comp' = c /\ files' = files
                  \/ \E f : /\ c.in0 = {f} /\ c.in1 = {} /\ comp' = comp
                            /\ files' = SaveTo(SaveTo(files, c.level, {f}, {}),
                                               c.level + 1, {}, {f})
  BY <1>0, PickIs
<1>3. CompOrder(c) BY <1>2, ChosenOrder
<1>4. DisjointInv' BY <1>0, PickKeepsDisjoint
<1>5. CASE comp' = c /\ files' = files
  <2>1. WholeKeys' BY <1>0, <1>5 DEF WholeKeys, Unshared
  <2>2. Ordered' BY <1>0, <1>1, <1>5 DEF Ordered, NewerThan, EntriesOf
  <2>3. CompOrder(comp)'
    BY <1>1, <1>3, <1>5 DEF CompOrder, NewerThan, Unshared, EntriesOf, Inputs, OlderGrandparents,
       IsFile, Distinct, IsBaseLevelForKey, Touching, Before
  <2> QED BY <1>4, <2>1, <2>2, <2>3 DEF OrderInv
<1>6. CASE \E f : /\ c.in0 = {f} /\ c.in1 = {} /\ comp' = comp
                  /\ files' = SaveTo(SaveTo(files, c.level, {f}, {}), c.level + 1, {}, {f})
  <2>1. PICK f : /\ c.in0 = {f} /\ c.in1 = {} /\ comp' = comp
                 /\ files' = SaveTo(SaveTo(files, c.level, {f}, {}), c.level + 1, {}, {f})
    BY <1>6
  <2>2. PICK l : l = c.level OBVIOUS
  <2>3. l \in 0..NumLevels - 2 /\ {f} \subseteq files[l] BY <1>2, <2>1, <2>2, ChosenShape
  <2>4. NewerThan(EntriesOf(files[l] \ {f}), EntriesOf({f})) BY <1>3, <2>1, <2>2 DEF CompOrder
  <2>5. PICK B : B = {} OBVIOUS
  <2>6. B \subseteq files[l + 1] /\ {f} \cup B = {f} BY <2>5
  <2>7. Unshared(EntriesOf(files[l + 1] \ B), EntriesOf({f} \cup B))
    BY <1>3, <2>1, <2>2, <2>5 DEF CompOrder, Inputs
  <2>8. files' = SaveTo(SaveTo(files, l, {f}, {}), l + 1, B, {f}) BY <2>1, <2>2, <2>5
  <2>9. EntriesOf({f}) \subseteq EntriesOf({f} \cup B) BY <2>6
  <2>10. \A x, y \in {f} : x # y => Unshared(x.entries, y.entries) OBVIOUS
  <2>11. WholeKeys' /\ Ordered'
    BY <1>0, <1>1, <2>3, <2>4, <2>6, <2>7, <2>8, <2>9, <2>10, ReplaceKeepsOrder
  <2>12. comp' = None BY <1>1, <2>1
  <2> QED BY <1>4, <2>11, <2>12 DEF OrderInv
<1> QED BY <1>2, <1>5, <1>6

(* Two outputs hold no entries of the same user key.                       *)
LEMMA OutputsUnshared ==
    ASSUME TreeTypes, KeysUnsplit, NEW c, Distinct(Inputs(c)), CompOrder(c)
    PROVE  \A f, g \in Added(c) : f # g => Unshared(f.entries, g.entries)
<1>1. \/ opts.target \in Nat /\ opts.target > MaxWrites
      \/ \A e \in Inputs(c) : e.seq <= c.smallestSnapshot
  <2>1. opts \in Options /\ opts.target \in Nat BY LevelsAssumption DEF TreeTypes
  <2>2. opts.snapshots = 0 \/ opts.target > MaxWrites BY <2>1 DEF KeysUnsplit
  <2> QED BY <2>1, <2>2 DEF CompOrder
<1>2. OlderGrandparents(c) /\ c.smallestSnapshot \in Nat BY DEF CompOrder
<1> SUFFICES ASSUME NEW f \in Added(c), NEW g \in Added(c), f # g,
                    NEW a \in f.entries, NEW b \in g.entries, a.key = b.key
             PROVE  FALSE
  BY DEF Unshared
<1>3. nextFile \in Nat BY DEF TreeTypes
<1>4. PICK m \in Nat : f = Output(c, m) /\ f.entries = {e \in Kept(c) : Loop(c)[e].place = m}
  BY <1>3, OutputsAre
<1>5. PICK n \in Nat : g = Output(c, n) /\ g.entries = {e \in Kept(c) : Loop(c)[e].place = n}
  BY <1>3, OutputsAre
<1>6. a \in Kept(c) /\ b \in Kept(c) /\ Loop(c)[a].place = m /\ Loop(c)[b].place = n
  BY <1>4, <1>5
<1>7. Loop(c)[a].place = Loop(c)[b].place BY <1>1, <1>2, <1>6, OneOutputPerKey
<1> QED BY <1>4, <1>5, <1>6, <1>7

(* Outputs are newer than what is below them and older than what is        *)
(* above, as their inputs were.                                            *)
LEMMA InstallKeepsOrder ==
    ASSUME OrderInv, KeysUnsplit, InstallCompactionResults
    PROVE  OrderInv'
<1>0. /\ TreeTypes /\ FilesDisjoint /\ WholeKeys /\ Ordered /\ DisjointInv
  BY DEF OrderInv, DisjointInv
<1>1. /\ comp # None /\ comp' = None
      /\ files' = SaveTo(SaveTo(files, comp.level, comp.in0, {}),
                         comp.level + 1, comp.in1, Added(comp))
      /\ mem' = mem
  BY InstallIs
<1>2. PICK c : c = comp OBVIOUS
<1>3. PICK l, C : l = c.level /\ C = Added(c) OBVIOUS
<1>4. CompShape(c) /\ CompOrder(c) BY <1>1, <1>2 DEF OrderInv, DisjointInv
<1>5. Distinct(Inputs(c)) BY <1>0, <1>4, InputsStored
<1>6. l \in 0..NumLevels - 2 /\ c.in0 \subseteq files[l] /\ c.in1 \subseteq files[l + 1]
  BY <1>3, <1>4 DEF CompShape
<1>7. EntriesOf(C) \subseteq EntriesOf(c.in0 \cup c.in1)
  <2>1. nextFile \in Nat BY <1>0 DEF TreeTypes
  <2>2. EntriesOf(C) = Kept(c) BY <2>1, <1>3, <1>5, OutputsAre
  <2> QED BY <2>2 DEF Kept, Inputs
<1>8. /\ NewerThan(EntriesOf(files[l] \ c.in0), EntriesOf(c.in0))
      /\ Unshared(EntriesOf(files[l + 1] \ c.in1), EntriesOf(c.in0 \cup c.in1))
  BY <1>3, <1>4 DEF CompOrder, Inputs
<1>9. \A f, g \in C : f # g => Unshared(f.entries, g.entries)
  BY <1>0, <1>3, <1>4, <1>5, OutputsUnshared
<1>10. files' = SaveTo(SaveTo(files, l, c.in0, {}), l + 1, c.in1, C) BY <1>1, <1>2, <1>3
<1>11. WholeKeys' /\ Ordered'
  BY <1>0, <1>1, <1>6, <1>7, <1>8, <1>9, <1>10, ReplaceKeepsOrder
<1>12. DisjointInv' BY <1>0, InstallKeepsDisjoint
<1> QED BY <1>1, <1>11, <1>12 DEF OrderInv

(* The other steps of an execution without manual compactions.             *)
LEMMA OtherSteps ==
    ASSUME DisjointInv, NoManual, [Next]_vars
    PROVE  \/ CompactMemTable \/ PickSize \/ PickSeek \/ InstallCompactionResults
           \/ \E k \in Keys, del \in BOOLEAN : Write(k, del)
           \/ GetSnapshot \/ (\E s \in snapshots : ReleaseSnapshot(s)) \/ UNCHANGED vars
<1>1. manual = None /\ opts \in Options BY DEF DisjointInv, TreeTypes
<1>2. ~(\E r \in opts.ranges : CompactRange(r[1], r[2])) /\ opts.keys \subseteq Keys
  BY <1>1, LevelsAssumption DEF NoManual
<1>3. ~CompactManual /\ ~ManualDone BY <1>1 DEF CompactManual, ManualDone
<1> QED BY <1>2, <1>3 DEF Next

(* A write is newer than all there is, and a snapshot taken while a        *)
(* compaction runs is not older than its smallestSnapshot.                 *)
LEMMA OtherStepsKeepOrder ==
    ASSUME OrderInv, NoManual, [Next]_vars,
           ~CompactMemTable, ~PickSize, ~PickSeek, ~InstallCompactionResults
    PROVE  OrderInv'
<1>0. /\ TreeTypes /\ WholeKeys /\ Ordered /\ DisjointInv /\ (comp = None \/ CompOrder(comp))
  BY DEF OrderInv, DisjointInv
<1>1. DisjointInv' /\ UNCHANGED <<opts, files, comp>> BY <1>0, OtherStepsKeepDisjoint
<1>2. lastSequence \in Nat /\ snapshots \subseteq Nat /\ lastSequence' \in Nat
      /\ \A s \in snapshots : s \in Nat
  BY <1>0, <1>1, LevelsAssumption DEF TreeTypes, DisjointInv
<1>3. /\ \A a \in mem' : a \in mem \/ a.seq = lastSequence + 1
      /\ \A s \in snapshots' \cup {lastSequence'} :
            \E t \in snapshots \cup {lastSequence} : t <= s /\ s \in Nat
  <2>1. ASSUME NEW k \in Keys, NEW del \in BOOLEAN, Write(k, del)
        PROVE  /\ \A a \in mem' : a \in mem \/ a.seq = lastSequence + 1
               /\ \A s \in snapshots' \cup {lastSequence'} :
                     \E t \in snapshots \cup {lastSequence} : t <= s /\ s \in Nat
    BY <2>1, <1>2 DEF Write
  <2>2. CASE GetSnapshot BY <2>2, <1>2 DEF GetSnapshot
  <2>3. CASE \E s \in snapshots : ReleaseSnapshot(s) BY <2>3, <1>2 DEF ReleaseSnapshot
  <2>4. CASE UNCHANGED vars BY <2>4, <1>2 DEF vars
  <2> QED BY <1>0, <2>1, <2>2, <2>3, <2>4, OtherSteps
<1>4. WholeKeys' BY <1>0, <1>1 DEF WholeKeys, Unshared
<1>5. Ordered'
  <2>1. ASSUME NEW l \in Levels, NEW a \in mem', NEW b \in EntriesOf(files[l]), a.key = b.key
        PROVE  a.seq > b.seq
    <3>1. CASE a \in mem BY <3>1, <2>1, <1>0 DEF Ordered, NewerThan
    <3>2. CASE a.seq = lastSequence + 1
      <4>1. b \in Stored BY InStored
      <4>2. b.seq <= lastSequence /\ b.seq \in Nat
        BY <4>1, <1>0, EntryTypes DEF TreeTypes, Distinct
      <4> QED BY <3>2, <4>2, <1>2
    <3> QED BY <3>1, <3>2, <1>3
  <2>2. \A l \in Levels : NewerThan(mem', EntriesOf(files[l])) BY <2>1 DEF NewerThan
  <2> QED BY <2>2, <1>0, <1>1 DEF Ordered, NewerThan, EntriesOf
<1>6. CompOrder(comp) => CompOrder(comp)'
  <2> SUFFICES ASSUME CompOrder(comp) PROVE CompOrder(comp)' OBVIOUS
  <2>1. comp.smallestSnapshot \in Nat
        /\ \A s \in snapshots \cup {lastSequence} : comp.smallestSnapshot <= s
    BY DEF CompOrder
  <2>2. \A s \in snapshots' \cup {lastSequence'} : comp.smallestSnapshot <= s
    <3> SUFFICES ASSUME NEW s \in snapshots' \cup {lastSequence'}
                 PROVE  comp.smallestSnapshot <= s
      OBVIOUS
    <3>1. PICK t \in snapshots \cup {lastSequence} : t <= s /\ s \in Nat BY <1>3
    <3> QED BY <3>1, <2>1, <1>2
  <2> QED BY <2>2, <1>1 DEF CompOrder, NewerThan, Unshared, EntriesOf, Inputs, OlderGrandparents,
       IsFile, Distinct, IsBaseLevelForKey, Touching, Before
<1> QED BY <1>0, <1>1, <1>4, <1>5, <1>6 DEF OrderInv

(* The invariant is inductive, as long as keys are not split ...           *)
LEMMA OrderStep ==
    ASSUME OrderInv, NoManual, KeysUnsplit, [Next]_vars
    PROVE  OrderInv'
BY FlushKeepsOrder, PickKeepsOrder, InstallKeepsOrder, OtherStepsKeepOrder

(* ... and holds of an empty database.                                     *)
LEMMA OrderStart ==
    ASSUME Init
    PROVE  OrderInv
<1>1. files = [l \in Levels |-> {}] /\ mem = {} /\ comp = None BY DEF Init
<1>2. 0 \in Levels BY LevelsAssumption DEF Levels
<1>3. WholeKeys BY <1>1 DEF WholeKeys
<1>4. Ordered BY <1>1, <1>2 DEF Ordered, NewerThan, EntriesOf
<1> QED BY <1>1, <1>3, <1>4, DisjointStart DEF OrderInv

(* Entries never hop across levels: what Version::Get relies on when it    *)
(* stops at the first level that has the key holds after every flush, move *)
(* and compaction of an execution without manual compactions, provided     *)
(* that no compaction separates the entries of a user key.  Without that   *)
(* it does not: the run lsm_split_key is the counterexample.               *)
THEOREM NewestOnTopHolds ==
    ASSUME KeysUnsplit
    PROVE  Spec /\ NoManual => []NewestOnTop
<1>1. Init => OrderInv BY OrderStart
<1>2. OrderInv /\ NoManual /\ [Next]_vars => OrderInv' /\ NoManual'
  BY OrderStep, NoManualStays DEF NoManual
<1>3. OrderInv => NewestOnTop BY OrderedIs DEF OrderInv, DisjointInv
<1> QED BY <1>1, <1>2, <1>3, PTL DEF Spec

-----------------------------------------------------------------------------
(* What readers see.                                                       *)

(* The newest entry for k up to s, wherever it is, decides what a read of  *)
(* k at sequence s returns.                                                *)
See(k, s) == Result(Visible(Stored, k, s))

(* What a reader sees is the newest of the entries it may see.             *)
LEMMA VisibleIs ==
    ASSUME NEW E, Distinct(E), NEW k, NEW s, NEW v \in E, v.key = k, v.seq <= s,
           \A d \in E : d.key = k /\ d.seq <= s => d.seq <= v.seq
    PROVE  Visible(E, k, s) = {v}
<1>1. v \in Visible(E, k, s) BY DEF Visible
<1>2. ASSUME NEW e \in Visible(E, k, s) PROVE e = v
  <2>1. e \in E /\ e.key = k /\ e.seq <= s /\ v.seq <= e.seq BY DEF Visible
  <2>2. e.seq <= v.seq /\ e.seq \in Nat /\ v.seq \in Nat BY <2>1, EntryTypes DEF Distinct
  <2>3. e.seq = v.seq BY <2>1, <2>2
  <2> QED BY <2>1, <2>3 DEF Distinct
<1> QED BY <1>1, <1>2

(* If there is any such entry a reader sees exactly one.                   *)
LEMMA VisibleExists ==
    ASSUME NEW E, Distinct(E), NEW k, NEW s \in Nat, NEW d \in E, d.key = k, d.seq <= s
    PROVE  \E v \in E : /\ v.key = k /\ v.seq <= s /\ Visible(E, k, s) = {v}
                        /\ \A e \in E : e.key = k /\ e.seq <= s => e.seq <= v.seq
<1> DEFINE S == {e.seq : e \in {e \in E : e.key = k /\ e.seq <= s}}
<1>1. S \subseteq Nat /\ S # {} /\ \A n \in S : n <= s BY EntryTypes DEF Distinct
<1>2. PICK m \in S : \A n \in S : m >= n
  <2> HIDE DEF S
  <2> QED BY <1>1, NatMax
<1>3. PICK v \in E : v.key = k /\ v.seq <= s /\ v.seq = m OBVIOUS
<1>4. \A e \in E : e.key = k /\ e.seq <= s => e.seq <= v.seq
  BY <1>2, <1>3, EntryTypes DEF Distinct
<1> HIDE DEF S
<1>5. Visible(E, k, s) = {v} BY <1>3, <1>4, VisibleIs
<1> QED BY <1>3, <1>4, <1>5

(* A reader sees nothing only if there is nothing for it.                  *)
LEMMA VisibleNone ==
    ASSUME NEW E, NEW k, NEW s, Visible(E, k, s) = {}, Distinct(E), s \in Nat
    PROVE  \A d \in E : ~(d.key = k /\ d.seq <= s)
BY VisibleExists

(* The binary search of FindFile comes to the file that has what a reader  *)
(* is to see.                                                              *)
LEMMA SearchFinds ==
    ASSUME OrderInv, NEW k \in Keys, NEW s \in Nat,
           NEW l \in Levels, NEW f \in files[l], NEW d \in f.entries, d.key = k, d.seq <= s
    PROVE  <<l, f>> \in ForEachOverlapping(files, k, s)
<1>0. TreeTypes /\ FilesDisjoint /\ WholeKeys BY DEF OrderInv, DisjointInv
<1>1. \A g \in files[l] : IsFile(g) BY <1>0 DEF TreeTypes
<1>2. /\ f.smallest.key <= k /\ k <= f.largest.key
      /\ {k, f.smallest.key, f.largest.key} \subseteq Nat
  BY <1>1, FileRange, EntryTypes DEF IsFile, Distinct
<1>3. CASE l = 0
  <2>1. f \in Touching(files[0], k, k) BY <1>2, <1>3 DEF Touching
  <2> QED BY <1>3, <2>1 DEF ForEachOverlapping
<1>4. CASE l # 0
  <2> DEFINE key == [key |-> k, seq |-> s]
  <2>0. {d, f.smallest, f.largest} \subseteq Entry BY <1>1, FileRange DEF IsFile, Distinct
  <2>1. ~Before(f.largest, key)
    <3>1. d = f.largest \/ Before(d, f.largest) BY <1>1 DEF IsFile
    <3>2. f.largest.key = k => f.largest.seq <= d.seq BY <3>1, <2>0, EntryTypes DEF Before
    <3>3. d.seq \in Nat /\ f.largest.seq \in Nat BY <2>0, EntryTypes
    <3> QED BY <3>2, <3>3, <1>2 DEF Before
  <2>2. ASSUME NEW g \in files[l], BySmallestKey(g, f) PROVE Before(g.largest, key)
    <3>1. IsFile(g) /\ {g.smallest, g.largest} \subseteq Entry BY <1>1, FileRange
    <3>2. g.smallest = g.largest \/ Before(g.smallest, g.largest) BY <3>1 DEF IsFile
    <3>3. f.smallest = f.largest \/ Before(f.smallest, f.largest) BY <1>1 DEF IsFile
    <3>4. g # f
      <4>1. ~Before(f.smallest, f.smallest) BY <2>0, EntryTypes DEF Before
      <4>2. f.number \in Nat BY <1>1 DEF IsFile
      <4> QED BY <4>1, <4>2, <2>2 DEF BySmallestKey
    <3>5. Before(g.largest, f.smallest)
      <4>1. Before(g.largest, f.smallest) \/ Before(f.largest, g.smallest)
        BY <3>4, <1>0, <1>4 DEF FilesDisjoint
      <4>2. ~Before(f.largest, g.smallest)
        BY <2>0, <2>2, <3>1, <3>3, EntryTypes DEF BySmallestKey, Before
      <4> QED BY <4>1, <4>2
    <3>6. g.largest.key <= f.smallest.key BY <3>5, <2>0, <3>1, EntryTypes DEF Before
    <3>7. g.largest.key # k
      <4>1. Unshared(g.entries, f.entries) BY <3>4, <1>0, <1>4 DEF WholeKeys
      <4> QED BY <4>1, <3>1 DEF Unshared, IsFile
    <3>8. g.largest.key \in Nat BY <3>1, EntryTypes
    <3>9. g.largest.key < k BY <3>6, <3>7, <3>8, <1>2
    <3> QED BY <3>9 DEF Before
  <2>3. f \in FindFile(files[l], key) BY <2>1, <2>2 DEF FindFile
  <2>4. ~BeforeFile(k, f) BY <1>2 DEF BeforeFile
  <2> QED BY <2>3, <2>4, <1>4 DEF ForEachOverlapping
<1> QED BY <1>3, <1>4

(* What is not in a memtable is in a file.                                 *)
LEMMA StoredAt ==
    ASSUME NEW e \in Stored, e \notin mem
    PROVE  \E l \in Levels : \E f \in files[l] : e \in f.entries
BY DEF Stored, EntriesOf

(* The search of DBImpl::Get and Version::Get, memtable first, then level  *)
(* by level, newest file first in level 0, stops at the newest entry of    *)
(* the whole tree that the reader may see.                                 *)
LEMMA GetSees ==
    ASSUME OrderInv, NEW k \in Keys, NEW s \in Nat
    PROVE  Get(k, s) = See(k, s)
<1>0. TreeTypes /\ FilesDisjoint /\ WholeKeys /\ Ordered BY DEF OrderInv, DisjointInv
<1>1. Distinct(Stored) /\ Distinct(mem) BY <1>0 DEF TreeTypes, Distinct, Stored
<1>2. \A e \in Stored : e.seq \in Nat BY <1>1, EntryTypes DEF Distinct
<1>3. CASE Visible(mem, k, s) # {}
  <2>1. PICK x \in mem : x.key = k /\ x.seq <= s BY <1>3 DEF Visible
  <2>2. PICK v \in mem : /\ v.key = k /\ v.seq <= s /\ Visible(mem, k, s) = {v}
                         /\ \A e \in mem : e.key = k /\ e.seq <= s => e.seq <= v.seq
    BY <2>1, <1>1, VisibleExists
  <2>3. v \in Stored BY DEF Stored
  <2>4. ASSUME NEW d \in Stored, d.key = k, d.seq <= s PROVE d.seq <= v.seq
    <3>1. CASE d \in mem BY <3>1, <2>2, <2>4
    <3>2. CASE d \notin mem
      <4>1. PICK l \in Levels : \E f \in files[l] : d \in f.entries BY <3>2, StoredAt
      <4>2. d \in EntriesOf(files[l]) BY <4>1, InEntries
      <4>3. v.seq > d.seq BY <4>2, <2>2, <2>4, <1>0 DEF Ordered, NewerThan
      <4> QED BY <4>3, <2>3, <1>2
    <3> QED BY <3>1, <3>2
  <2>5. Visible(Stored, k, s) = {v} BY <2>2, <2>3, <2>4, <1>1, VisibleIs
  <2> QED BY <1>3, <2>2, <2>5 DEF Get, See
<1>4. CASE Visible(mem, k, s) = {}
  <2> DEFINE F == ForEachOverlapping(files, k, s)
             H == {p \in F : Visible(p[2].entries, k, s) # {}}
  <2>1. Get(k, s) = Found(H, k, s)
    <3>1. Get(k, s) = CHOOSE r \in {Found(X, k, s) : X \in {H}} : TRUE BY <1>4 DEF Get
    <3> HIDE DEF H
    <3>2. {Found(X, k, s) : X \in {H}} = {Found(H, k, s)} OBVIOUS
    <3>3. (CHOOSE r \in {Found(H, k, s)} : TRUE) = Found(H, k, s) OBVIOUS
    <3> QED BY <3>1, <3>2, <3>3
  <2>2. ASSUME NEW d \in Stored, d.key = k, d.seq <= s
        PROVE  \E l \in Levels : \E f \in files[l] : d \in f.entries /\ <<l, f>> \in H
    <3>1. d \notin mem BY <2>2, <1>1, <1>4, VisibleNone
    <3>2. PICK l \in Levels : \E f \in files[l] : d \in f.entries BY <3>1, StoredAt
    <3>3. PICK f \in files[l] : d \in f.entries BY <3>2
    <3>4. <<l, f>> \in F BY <3>3, <2>2, SearchFinds
    <3>5. Distinct(f.entries) BY <1>0, <3>3 DEF TreeTypes, IsFile
    <3>6. Visible(f.entries, k, s) # {} BY <3>3, <3>5, <2>2, VisibleNone
    <3> QED BY <3>2, <3>3, <3>4, <3>6
  <2>3. CASE H = {}
    <3>1. Visible(Stored, k, s) = {} BY <2>2, <2>3 DEF Visible
    <3> QED BY <2>1, <2>3, <3>1 DEF Found, See, Result
  <2>4. CASE H # {}
    <3> DEFINE p == First(H)
    <3>1. /\ \A q \in H : q = <<q[1], q[2]>> /\ q[1] \in Levels /\ q[2] \in files[q[1]]
          /\ \A q, r \in H : q[1] = r[1] /\ q[1] # 0 => q = r
          /\ p \in H
          /\ \A q \in H \ {p} : p[1] < q[1] \/ (p[1] = q[1] /\ p[2].number > q[2].number)
      <4>1. H \subseteq F OBVIOUS
      <4> HIDE DEF H
      <4> QED BY <4>1, <2>4, <1>0, SearchOrder
    <3>2. Visible(p[2].entries, k, s) # {} BY <3>1
    <3> HIDE DEF p
    <3>3. p[1] \in Levels /\ p[2] \in files[p[1]] BY <3>1
    <3>4. Distinct(p[2].entries) BY <3>3, <1>0 DEF TreeTypes, IsFile
    <3>5. PICK x \in p[2].entries : x.key = k /\ x.seq <= s BY <3>2 DEF Visible
    <3>6. PICK v \in p[2].entries :
            /\ v.key = k /\ v.seq <= s /\ Visible(p[2].entries, k, s) = {v}
            /\ \A e \in p[2].entries : e.key = k /\ e.seq <= s => e.seq <= v.seq
      BY <3>4, <3>5, VisibleExists
    <3>7. v \in EntriesOf(files[p[1]]) /\ v \in Stored BY <3>3, <3>6, InEntries, InStored
    <3>8. ASSUME NEW d \in Stored, d.key = k, d.seq <= s PROVE d.seq <= v.seq
      <4>1. PICK l \in Levels : \E f \in files[l] : d \in f.entries /\ <<l, f>> \in H BY <3>8, <2>2
      <4>2. PICK f \in files[l] : d \in f.entries /\ <<l, f>> \in H BY <4>1
      <4>3. PICK q : q = <<l, f>> OBVIOUS
      <4>4. q \in H /\ q[1] = l /\ q[2] = f BY <4>2, <4>3
      <4>5. d \in EntriesOf(files[l]) BY <4>2, InEntries
      <4>6. CASE q = p BY <4>2, <4>4, <4>6, <3>6, <3>8
      <4>7. CASE p[1] < l
        <5>1. v.seq > d.seq BY <4>5, <4>7, <3>3, <3>6, <3>7, <3>8, <1>0 DEF Ordered, NewerThan
        <5> QED BY <5>1, <3>7, <1>2
      <4>8. CASE p[1] = l /\ p[2].number > f.number /\ q # p
        <5>1. l = 0 BY <4>4, <4>8, <3>1
        <5>2. NewerThan(p[2].entries, f.entries) BY <5>1, <4>8, <3>3, <1>0 DEF Ordered
        <5>3. v.seq > d.seq BY <5>2, <4>2, <3>6, <3>8 DEF NewerThan
        <5> QED BY <5>3, <3>7, <1>2
      <4> HIDE DEF H
      <4> QED BY <4>4, <4>6, <4>7, <4>8, <3>1
    <3>9. Visible(Stored, k, s) = {v} BY <3>6, <3>7, <3>8, <1>1, VisibleIs
    <3>10. Found(H, k, s) = Result({v}) BY <2>4, <3>6 DEF Found, p
    <3> QED BY <2>1, <3>9, <3>10 DEF See
  <2> QED BY <2>3, <2>4
<1> QED BY <1>3, <1>4

(* What a read returns.                                                    *)
LEMMA ResultType ==
    ASSUME NEW E, Distinct(E), NEW k, NEW s \in Nat
    PROVE  Result(Visible(E, k, s)) \in 0..MaxWrites
<1>1. MaxWrites \in Nat BY LevelsAssumption
<1>2. CASE Visible(E, k, s) = {} BY <1>1, <1>2 DEF Result
<1>3. CASE Visible(E, k, s) # {}
  <2>1. PICK x \in E : x.key = k /\ x.seq <= s BY <1>3 DEF Visible
  <2>2. PICK v \in E : Visible(E, k, s) = {v} BY <2>1, VisibleExists
  <2>3. v.seq \in 0..MaxWrites BY <2>2, EntryTypes DEF Distinct
  <2>4. Result({v}) \in {0, v.seq} BY DEF Result
  <2> QED BY <1>1, <2>2, <2>3, <2>4
<1> QED BY <1>2, <1>3

(* Nothing leaves the tree but what a compaction drops.                    *)
LEMMA InstallStored ==
    ASSUME DisjointInv, InstallCompactionResults
    PROVE  /\ Stored' \subseteq Stored
           /\ \A x \in Stored : x \notin Stored' => x \in Inputs(comp) /\ x \notin Kept(comp)
           /\ \A x \in Stored' :
                 \/ x \in mem \/ x \in Kept(comp)
                 \/ x \in EntriesOf(files[comp.level] \ comp.in0)
                 \/ x \in EntriesOf(files[comp.level + 1] \ comp.in1)
                 \/ \E i \in Levels \ {comp.level, comp.level + 1} : x \in EntriesOf(files[i])
<1>0. TreeTypes BY DEF DisjointInv
<1>1. /\ comp # None
      /\ files' = SaveTo(SaveTo(files, comp.level, comp.in0, {}),
                         comp.level + 1, comp.in1, Added(comp))
      /\ mem' = mem
  BY InstallIs
<1>2. PICK c : c = comp OBVIOUS
<1>3. PICK l, C : l = c.level /\ C = Added(c) OBVIOUS
<1>4. CompShape(c) BY <1>1, <1>2 DEF DisjointInv
<1>5. Distinct(Inputs(c)) /\ Inputs(c) \subseteq Stored BY <1>0, <1>4, InputsStored
<1>6. l \in 0..NumLevels - 2 BY <1>3, <1>4 DEF CompShape
<1>7. EntriesOf(C) = Kept(c)
  <2>1. nextFile \in Nat BY <1>0 DEF TreeTypes
  <2> QED BY <2>1, <1>3, <1>5, OutputsAre
<1>8. files' = SaveTo(SaveTo(files, l, c.in0, {}), l + 1, c.in1, C) BY <1>1, <1>2, <1>3
<1>9. /\ l \in Levels /\ l + 1 \in Levels
      /\ files'[l] = files[l] \ c.in0
      /\ files'[l + 1] = (files[l + 1] \ c.in1) \cup C
      /\ \A i \in Levels \ {l, l + 1} : files'[i] = files[i]
  BY <1>0, <1>6, <1>8, Replaced
<1>10. \A x : x \in Stored' <=> x \in mem \/ \E i \in Levels : \E f \in files'[i] : x \in f.entries
  BY <1>1 DEF Stored, EntriesOf
<1>11. \A x : x \in Stored <=> x \in mem \/ \E i \in Levels : \E f \in files[i] : x \in f.entries
  BY DEF Stored, EntriesOf
<1>12. ASSUME NEW x \in Stored'
       PROVE  \/ x \in mem \/ x \in Kept(c)
              \/ x \in EntriesOf(files[l] \ c.in0) \/ x \in EntriesOf(files[l + 1] \ c.in1)
              \/ \E i \in Levels \ {l, l + 1} : x \in EntriesOf(files[i])
  <2>1. CASE x \in mem BY <2>1
  <2>2. CASE \E i \in Levels : \E f \in files'[i] : x \in f.entries
    <3>1. PICK i \in Levels : \E f \in files'[i] : x \in f.entries BY <2>2
    <3>2. PICK f \in files'[i] : x \in f.entries BY <3>1
    <3>3. CASE i = l BY <3>2, <3>3, <1>9, InEntries
    <3>4. CASE i = l + 1
      <4>1. f \in files[l + 1] \ c.in1 \/ f \in C BY <3>2, <3>4, <1>9
      <4> QED BY <4>1, <3>2, <1>7, InEntries
    <3>5. CASE i \notin {l, l + 1} BY <3>2, <3>5, <1>9, InEntries
    <3> QED BY <3>3, <3>4, <3>5
  <2> QED BY <2>1, <2>2, <1>10
<1>13. ASSUME NEW x \in Stored, x \notin Stored' PROVE x \in Inputs(c) /\ x \notin Kept(c)
  <2>1. PICK i \in Levels : \E f \in files[i] : x \in f.entries BY <1>10, <1>11, <1>13
  <2>2. PICK f \in files[i] : x \in f.entries BY <2>1
  <2>3. f \notin files'[i] BY <2>2, <1>10, <1>13
  <2>4. f \in c.in0 \cup c.in1 BY <2>2, <2>3, <1>9
  <2>5. x \in Inputs(c) BY <2>2, <2>4, InEntries DEF Inputs
  <2>6. x \notin Kept(c)
    <3> SUFFICES ASSUME x \in Kept(c) PROVE FALSE OBVIOUS
    <3>1. PICK g \in C : x \in g.entries BY <1>7, EntriesIn
    <3>2. g \in files'[l + 1] BY <1>9
    <3> QED BY <3>1, <3>2, <1>9, <1>10, <1>13
  <2> QED BY <2>5, <2>6
<1>14. Stored' \subseteq Stored
  <2> SUFFICES ASSUME NEW x \in Stored' PROVE x \in Stored OBVIOUS
  <2>1. Kept(c) \subseteq Inputs(c) BY DEF Kept
  <2>2. \A i \in Levels : EntriesOf(files[i]) \subseteq Stored BY InStored
  <2>3. /\ EntriesOf(files[l] \ c.in0) \subseteq EntriesOf(files[l])
        /\ EntriesOf(files[l + 1] \ c.in1) \subseteq EntriesOf(files[l + 1])
    BY DEF EntriesOf
  <2>4. mem \subseteq Stored BY DEF Stored
  <2> QED BY <1>5, <1>9, <1>12, <2>1, <2>2, <2>3, <2>4
<1> QED BY <1>2, <1>3, <1>12, <1>13, <1>14

(* A compaction changes nothing for a reader at the last sequence or at a  *)
(* snapshot: what it drops is hidden from all of them, or is a deletion    *)
(* marker that hides nothing.                                              *)
LEMMA InstallKeepsReads ==
    ASSUME OrderInv, InstallCompactionResults, NEW k, NEW s \in snapshots \cup {lastSequence}
    PROVE  Result(Visible(Stored', k, s)) = See(k, s)
<1>0. TreeTypes /\ WholeKeys /\ Ordered /\ DisjointInv BY DEF OrderInv, DisjointInv
<1>1. PICK c : c = comp OBVIOUS
<1>2. PICK l : l = c.level OBVIOUS
<1>3. CompShape(c) /\ CompOrder(c)
  <2>1. comp # None BY InstallIs
  <2> QED BY <2>1, <1>1 DEF OrderInv, DisjointInv
<1>4. Distinct(Inputs(c)) /\ l \in Levels /\ l + 1 \in Levels
  BY <1>0, <1>2, <1>3, InputsStored
<1>5. /\ Stored' \subseteq Stored
      /\ \A x \in Stored : x \notin Stored' => x \in Inputs(c) /\ x \notin Kept(c)
      /\ \A x \in Stored' :
            \/ x \in mem \/ x \in Kept(c)
            \/ x \in EntriesOf(files[l] \ c.in0) \/ x \in EntriesOf(files[l + 1] \ c.in1)
            \/ \E i \in Levels \ {l, l + 1} : x \in EntriesOf(files[i])
  BY <1>0, <1>1, <1>2, InstallStored
<1>6. Distinct(Stored) /\ Distinct(Stored') BY <1>0, <1>5 DEF TreeTypes, Distinct
<1>7. c.smallestSnapshot \in Nat /\ c.smallestSnapshot <= s /\ s \in Nat /\ s <= MaxWrites
      /\ MaxWrites \in Nat
  <2>1. /\ snapshots \subseteq 0..lastSequence /\ lastSequence \in 0..MaxWrites /\ MaxWrites \in Nat
    BY <1>0, LevelsAssumption DEF TreeTypes
  <2> QED BY <2>1, <1>3 DEF CompOrder
<1> HIDE DEF Stored
<1>8. CASE Visible(Stored, k, s) = {}
  <2>1. \A d \in Stored : ~(d.key = k /\ d.seq <= s) BY <1>6, <1>7, <1>8, VisibleNone
  <2>2. Visible(Stored', k, s) = {} BY <1>5, <2>1 DEF Visible
  <2> QED BY <1>8, <2>2 DEF See
<1>9. CASE Visible(Stored, k, s) # {}
  <2>1. PICK w \in Stored : w.key = k /\ w.seq <= s BY <1>9 DEF Visible
  <2>2. PICK v \in Stored : /\ v.key = k /\ v.seq <= s /\ Visible(Stored, k, s) = {v}
                            /\ \A d \in Stored : d.key = k /\ d.seq <= s => d.seq <= v.seq
    BY <2>1, <1>6, <1>7, VisibleExists
  <2>3. CASE v \in Stored'
    <3>1. \A d \in Stored' : d.key = k /\ d.seq <= s => d.seq <= v.seq BY <2>2, <1>5
    <3>2. Visible(Stored', k, s) = {v} BY <2>2, <2>3, <3>1, <1>6, VisibleIs
    <3> QED BY <3>2, <2>2 DEF See
  <2>4. CASE v \notin Stored'
    <3>1. v \in Inputs(c) /\ v \notin Kept(c) BY <2>4, <1>5
    <3>2. Inputs(c) \subseteq Stored BY <1>0, <1>3, InputsStored
    <3>3. \A d \in Stored : d.seq \in Nat BY <1>6, EntryTypes DEF Distinct
    <3>4. PICK n : n = LastSequenceForKey(Inputs(c), v) OBVIOUS
    <3>5. ~(n <= c.smallestSnapshot)
      <4> SUFFICES ASSUME n <= c.smallestSnapshot PROVE FALSE OBVIOUS
      <4>1. n \in Nat /\ (n <= MaxWrites =>
                 \E d \in Inputs(c) : d.key = v.key /\ d.seq > v.seq /\ d.seq = n)
        BY <3>1, <3>4, <1>4, LastSequenceIs
      <4>2. n <= s /\ n <= MaxWrites BY <4>1, <1>7
      <4>3. PICK d \in Inputs(c) : d.key = v.key /\ d.seq > v.seq /\ d.seq = n BY <4>1, <4>2
      <4>4. d.seq <= v.seq BY <4>2, <4>3, <3>2, <2>2
      <4> QED BY <4>3, <4>4, <3>2, <3>3
    <3>6. v.del /\ v.seq <= c.smallestSnapshot /\ IsBaseLevelForKey(c, v.key)
      BY <3>1, <3>4, <3>5 DEF Kept, Drop
    <3>7. Result({v}) = 0 BY <3>6 DEF Result
    <3>8. ASSUME NEW x \in Stored', x.key = k, x.seq <= s PROVE FALSE
      <4>1. x \in Stored /\ x.seq <= v.seq /\ x # v BY <3>8, <2>2, <2>4, <1>5
      <4>2. x.seq < v.seq BY <4>1, <3>3, <1>6 DEF Distinct
      <4>3. ~(x.seq > v.seq) BY <4>1, <4>2, <3>3
      <4>4. v \in EntriesOf(c.in0) \/ v \in EntriesOf(c.in1) BY <3>1 DEF Inputs, EntriesOf
      <4>5. /\ EntriesOf(c.in0) \subseteq EntriesOf(files[l])
            /\ EntriesOf(c.in1) \subseteq EntriesOf(files[l + 1])
            /\ EntriesOf(files[l] \ c.in0) \subseteq EntriesOf(files[l])
        BY <1>2, <1>3 DEF CompShape, EntriesOf
      <4>6. CASE x \in mem BY <4>3, <4>4, <4>5, <4>6, <3>8, <2>2, <1>0, <1>4 DEF Ordered, NewerThan
      <4>7. CASE x \in Kept(c)
        <5>1. x \in Inputs(c) BY <4>7 DEF Kept
        <5>2. v.seq > x.seq BY <4>1, <4>2, <3>3
        <5>3. x \notin Kept(c) BY <5>1, <5>2, <3>1, <3>6, <3>8, <2>2, <1>4, <1>7, HiddenDropped
        <5> QED BY <4>7, <5>3
      <4>8. CASE x \in EntriesOf(files[l] \ c.in0)
        <5>1. CASE v \in EntriesOf(c.in0)
          BY <4>3, <4>8, <5>1, <3>8, <2>2, <1>2, <1>3 DEF CompOrder, NewerThan
        <5>2. CASE v \in EntriesOf(c.in1)
          <6>1. l < l + 1 BY <1>4 DEF Levels
          <6>2. NewerThan(EntriesOf(files[l]), EntriesOf(files[l + 1])) BY <6>1, <1>0, <1>4 DEF Ordered
          <6> QED BY <4>3, <4>5, <4>8, <5>2, <6>2, <3>8, <2>2 DEF NewerThan
        <5> QED BY <4>4, <5>1, <5>2
      <4>9. CASE x \in EntriesOf(files[l + 1] \ c.in1)
        BY <4>9, <3>1, <3>8, <2>2, <1>2, <1>3 DEF CompOrder, Unshared
      <4>10. CASE \E i \in Levels \ {l, l + 1} : x \in EntriesOf(files[i])
        <5>1. PICK i \in Levels \ {l, l + 1} : x \in EntriesOf(files[i]) BY <4>10
        <5>2. i < l \/ i >= l + 2 BY <1>4 DEF Levels
        <5>3. CASE i < l
          <6>1. i < l + 1 BY <5>3, <1>4 DEF Levels
          <6>2. /\ NewerThan(EntriesOf(files[i]), EntriesOf(files[l]))
                /\ NewerThan(EntriesOf(files[i]), EntriesOf(files[l + 1]))
            BY <5>3, <6>1, <1>0, <1>4 DEF Ordered
          <6> QED BY <4>3, <4>4, <4>5, <5>1, <6>2, <3>8, <2>2 DEF NewerThan
        <5>4. CASE i >= l + 2
          <6>1. NewerThan(EntriesOf(files[i]), {v})
            BY <5>4, <3>1, <3>6, <1>2, <1>3 DEF CompOrder
          <6> QED BY <4>3, <5>1, <6>1, <3>8, <2>2 DEF NewerThan
        <5> QED BY <5>2, <5>3, <5>4
      <4> QED BY <4>6, <4>7, <4>8, <4>9, <4>10, <1>5
    <3>9. Visible(Stored', k, s) = {} BY <3>8 DEF Visible
    <3>10. Result(Visible(Stored', k, s)) = 0 BY <3>9 DEF Result
    <3> QED BY <3>7, <3>10, <2>2 DEF See
  <2> QED BY <2>3, <2>4
<1> QED BY <1>8, <1>9

(* A flush moves entries from the memtable to a table.                     *)
LEMMA FlushStored ==
    ASSUME DisjointInv, CompactMemTable
    PROVE  Stored' = Stored /\ UNCHANGED <<lastSequence, snapshots>>
<1>0. TreeTypes /\ FilesDisjoint BY DEF DisjointInv
<1>1. PICK m \in Levels, f \in FileType :
        f.entries = mem /\ files' = [files EXCEPT ![m] = @ \cup {f}]
  BY <1>0, FlushIs
<1>2. mem' = {} /\ UNCHANGED <<lastSequence, snapshots>> BY DEF CompactMemTable
<1>3. files' \in [Levels -> SUBSET FileType] /\ files'[m] = files[m] \cup {f}
      /\ \A i \in Levels \ {m} : files'[i] = files[i]
  BY <1>0, <1>1 DEF TreeTypes
<1>4. \A x : x \in Stored' <=> \E i \in Levels : \E g \in files'[i] : x \in g.entries
  BY <1>2 DEF Stored, EntriesOf
<1>5. \A x : x \in Stored <=> x \in mem \/ \E i \in Levels : \E g \in files[i] : x \in g.entries
  BY DEF Stored, EntriesOf
<1>6. ASSUME NEW x \in Stored' PROVE x \in Stored BY <1>1, <1>3, <1>4, <1>5
<1>7. ASSUME NEW x \in Stored PROVE x \in Stored'
  <2>1. CASE x \in mem BY <2>1, <1>1, <1>3, <1>4
  <2>2. CASE \E i \in Levels : \E g \in files[i] : x \in g.entries
    <3>1. \A i \in Levels : files[i] \subseteq files'[i] BY <1>3
    <3> QED BY <2>2, <3>1, <1>4
  <2> QED BY <2>1, <2>2, <1>5
<1> QED BY <1>2, <1>6, <1>7

(* So does a move, from one level to the next.                             *)
LEMMA PickStored ==
    ASSUME DisjointInv, PickSize \/ PickSeek
    PROVE  Stored' = Stored /\ UNCHANGED <<lastSequence, snapshots>>
<1>0. TreeTypes /\ FilesDisjoint BY DEF DisjointInv
<1>1. UNCHANGED <<mem, lastSequence, snapshots>> BY <1>0, PickIs
<1>2. PICK c : /\ Chosen(c)
               /\ \/ files' = files
                  \/ \E f : /\ c.in0 = {f}
                            /\ files' = SaveTo(SaveTo(files, c.level, {f}, {}), c.level + 1, {}, {f})
  BY <1>0, PickIs
<1>3. CASE files' = files BY <1>1, <1>3 DEF Stored
<1>4. CASE \E f : /\ c.in0 = {f}
                  /\ files' = SaveTo(SaveTo(files, c.level, {f}, {}), c.level + 1, {}, {f})
  <2>1. PICK f : /\ c.in0 = {f}
                 /\ files' = SaveTo(SaveTo(files, c.level, {f}, {}), c.level + 1, {}, {f})
    BY <1>4
  <2>2. PICK l : l = c.level OBVIOUS
  <2>3. l \in 0..NumLevels - 2 /\ f \in files[l] BY <1>2, <2>1, <2>2, ChosenShape
  <2>4. PICK A, B : A = {f} /\ B = {} OBVIOUS
  <2>5. files' = SaveTo(SaveTo(files, l, A, {}), l + 1, B, A) BY <2>1, <2>2, <2>4
  <2>6. /\ l \in Levels /\ l + 1 \in Levels
        /\ files'[l] = files[l] \ A /\ files'[l + 1] = (files[l + 1] \ B) \cup A
        /\ \A i \in Levels \ {l, l + 1} : files'[i] = files[i]
    BY <1>0, <2>3, <2>5, Replaced
  <2>7. \A x : x \in Stored' <=> x \in mem \/ \E i \in Levels : \E g \in files'[i] : x \in g.entries
    BY <1>1 DEF Stored, EntriesOf
  <2>8. \A x : x \in Stored <=> x \in mem \/ \E i \in Levels : \E g \in files[i] : x \in g.entries
    BY DEF Stored, EntriesOf
  <2>9. \A i \in Levels : \A g \in files'[i] : \E j \in Levels : g \in files[j]
    BY <2>3, <2>4, <2>6
  <2>10. \A i \in Levels : \A g \in files[i] : \E j \in Levels : g \in files'[j]
    BY <2>3, <2>4, <2>6
  <2>11. Stored' \subseteq Stored BY <2>7, <2>8, <2>9
  <2>12. Stored \subseteq Stored' BY <2>7, <2>8, <2>10
  <2> QED BY <1>1, <2>11, <2>12
<1> QED BY <1>2, <1>3, <1>4

(* No flush, move or compaction changes what anybody reads.                *)
LEMMA BackgroundKeepsReads ==
    ASSUME OrderInv, CompactMemTable \/ PickSize \/ PickSeek \/ InstallCompactionResults
    PROVE  /\ UNCHANGED <<lastSequence, snapshots>>
           /\ \A k \in Keys, s \in snapshots \cup {lastSequence} :
                 Result(Visible(Stored', k, s)) = See(k, s)
<1>0. DisjointInv BY DEF OrderInv
<1>1. CASE InstallCompactionResults
  <2>1. UNCHANGED <<lastSequence, snapshots>> BY <1>1, InstallIs
  <2> QED BY <1>1, <2>1, InstallKeepsReads
<1>2. CASE CompactMemTable \/ PickSize \/ PickSeek
  <2>1. Stored' = Stored /\ UNCHANGED <<lastSequence, snapshots>>
    BY <1>0, <1>2, FlushStored, PickStored
  <2> QED BY <2>1 DEF See
<1> QED BY <1>1, <1>2

(* An entry that is newer than a reader, or for another key, is not seen.  *)
LEMMA VisibleSame ==
    ASSUME NEW E, NEW e, NEW k, NEW s, e.key # k \/ ~(e.seq <= s)
    PROVE  Visible(E \cup {e}, k, s) = Visible(E, k, s)
BY DEF Visible

-----------------------------------------------------------------------------
(* The refinement.                                                         *)

(* What the search of DBImpl::Get finds, for every key, for readers        *)
(* without a snapshot and with each of the open ones.                      *)
FoundNow  == [k \in Keys |-> Get(k, lastSequence)]
FoundAt == [s \in snapshots |-> [k \in Keys |-> Get(k, s)]]
Seen    == [k \in Keys |-> See(k, lastSequence)]
SeenAt  == [s \in snapshots |-> [k \in Keys |-> See(k, s)]]

(* The search finds what there is to be seen.                              *)
GetsMatch == FoundNow = Seen /\ FoundAt = SeenAt

(* So it does for all readers there are.                                   *)
LEMMA GetsSee ==
    ASSUME OrderInv
    PROVE  GetsMatch
<1>1. lastSequence \in Nat /\ snapshots \subseteq Nat
  BY LevelsAssumption DEF OrderInv, DisjointInv, TreeTypes
<1>2. \A k \in Keys : Get(k, lastSequence) = See(k, lastSequence) BY <1>1, GetSees
<1>3. \A s \in snapshots, k \in Keys : Get(k, s) = See(k, s) BY <1>1, GetSees
<1> QED BY <1>2, <1>3 DEF GetsMatch, FoundNow, FoundAt, Seen, SeenAt

(* What they are to see after a step.                                      *)
LEMMA SeenIs ==
    /\ Seen' = [k \in Keys |-> Result(Visible(Stored', k, lastSequence'))]
    /\ SeenAt' = [s \in snapshots' |-> [k \in Keys |-> Result(Visible(Stored', k, s))]]
BY DEF Seen, SeenAt, See

(* The steps of MVStore, in terms of what readers are to see.              *)
LEMMA ReadsIs ==
    ASSUME GetsMatch, GetsMatch'
    PROVE  /\ \A k \in Keys : Reads!Put(k) <=>
                /\ lastSequence' = lastSequence + 1
                /\ Seen' = [Seen EXCEPT ![k] = lastSequence + 1]
                /\ SeenAt' = SeenAt
           /\ \A k \in Keys : Reads!Delete(k) <=>
                /\ lastSequence' = lastSequence + 1
                /\ Seen' = [Seen EXCEPT ![k] = 0]
                /\ SeenAt' = SeenAt
           /\ Reads!GetSnapshot <=>
                /\ lastSequence \notin DOMAIN SeenAt
                /\ SeenAt' = [s \in DOMAIN SeenAt \cup {lastSequence} |->
                                IF s = lastSequence THEN Seen ELSE SeenAt[s]]
                /\ lastSequence' = lastSequence /\ Seen' = Seen
           /\ \A s \in snapshots : Reads!ReleaseSnapshot(s) <=>
                /\ SeenAt' = [r \in DOMAIN SeenAt \ {s} |-> SeenAt[r]]
                /\ lastSequence' = lastSequence /\ Seen' = Seen
           /\ UNCHANGED Reads!vars <=>
                lastSequence' = lastSequence /\ Seen' = Seen /\ SeenAt' = SeenAt
<1>1. FoundNow = Seen /\ FoundNow' = Seen' /\ FoundAt = SeenAt /\ FoundAt' = SeenAt' BY DEF GetsMatch
<1>2. \A k \in Keys : Reads!Put(k) <=>
                /\ lastSequence' = lastSequence + 1
                /\ FoundNow' = [FoundNow EXCEPT ![k] = lastSequence + 1]
                /\ FoundAt' = FoundAt
  BY DEF Reads!Put, FoundNow, FoundAt
<1>3. \A k \in Keys : Reads!Delete(k) <=>
                /\ lastSequence' = lastSequence + 1
                /\ FoundNow' = [FoundNow EXCEPT ![k] = 0]
                /\ FoundAt' = FoundAt
  BY DEF Reads!Delete, Reads!NotFound, FoundNow, FoundAt
<1>4. Reads!GetSnapshot <=>
                /\ lastSequence \notin DOMAIN FoundAt
                /\ FoundAt' = [s \in DOMAIN FoundAt \cup {lastSequence} |->
                                IF s = lastSequence THEN FoundNow ELSE FoundAt[s]]
                /\ lastSequence' = lastSequence /\ FoundNow' = FoundNow
  BY DEF Reads!GetSnapshot, FoundNow, FoundAt
<1>5. \A s \in snapshots : Reads!ReleaseSnapshot(s) <=>
                /\ FoundAt' = [r \in DOMAIN FoundAt \ {s} |-> FoundAt[r]]
                /\ lastSequence' = lastSequence /\ FoundNow' = FoundNow
  BY DEF Reads!ReleaseSnapshot, FoundNow, FoundAt
<1>6. UNCHANGED Reads!vars <=>
        lastSequence' = lastSequence /\ FoundNow' = FoundNow /\ FoundAt' = FoundAt
  BY DEF Reads!vars, FoundNow, FoundAt
<1> QED BY <1>1, <1>2, <1>3, <1>4, <1>5, <1>6

(* A write changes what is read for its key, to what it wrote, and nothing *)
(* at any snapshot.                                                        *)
LEMMA WriteRefines ==
    ASSUME OrderInv, OrderInv', NEW key \in Keys, NEW del \in BOOLEAN, Write(key, del)
    PROVE  /\ lastSequence' = lastSequence + 1
           /\ Seen' = [Seen EXCEPT ![key] = IF del THEN 0 ELSE lastSequence + 1]
           /\ SeenAt' = SeenAt
<1> DEFINE e == [key |-> key, seq |-> lastSequence + 1, del |-> del]
<1>0. TreeTypes /\ TreeTypes' BY DEF OrderInv, DisjointInv
<1>1. /\ lastSequence' = lastSequence + 1 /\ mem' = mem \cup {e}
      /\ UNCHANGED <<snapshots, files>>
  BY DEF Write
<1>2. e.key = key /\ e.seq = lastSequence + 1 /\ e.del = del OBVIOUS
<1> HIDE DEF e
<1>3. Stored' = Stored \cup {e}
  <2>1. UNION {files'[l] : l \in Levels} = UNION {files[l] : l \in Levels} BY <1>1
  <2> QED BY <1>1, <2>1, Zenon DEF Stored, EntriesOf
<1>4. /\ lastSequence \in Nat /\ snapshots \subseteq 0..lastSequence
      /\ \A d \in Stored : d.seq <= lastSequence /\ d.seq \in Nat
  BY <1>0, LevelsAssumption, EntryTypes DEF TreeTypes, Distinct
<1>5. Seen'[key] = IF del THEN 0 ELSE lastSequence + 1
  <2>1. PICK E, s : E = Stored' /\ s = lastSequence' OBVIOUS
  <2>2. Distinct(E)
    <3>1. Distinct(Stored)' BY <1>0 DEF TreeTypes
    <3> QED BY <3>1, <2>1 DEF Distinct
  <2>3. e \in E /\ e.key = key /\ e.seq <= s BY <1>1, <1>2, <1>3, <1>4, <2>1
  <2>4. \A d \in E : d.key = key /\ d.seq <= s => d.seq <= e.seq
    BY <1>1, <1>2, <1>3, <1>4, <2>1
  <2>5. Visible(E, key, s) = {e} BY <2>2, <2>3, <2>4, VisibleIs
  <2>6. Result({e}) = IF del THEN 0 ELSE lastSequence + 1
    <3>1. (CHOOSE x \in {e} : TRUE) = e OBVIOUS
    <3> QED BY <3>1, <1>2 DEF Result
  <2>7. Seen'[key] = Result(Visible(E, key, s)) BY <2>1, SeenIs
  <2> QED BY <2>5, <2>6, <2>7
<1>6. ASSUME NEW k \in Keys \ {key} PROVE Seen'[k] = Seen[k]
  <2>1. Visible(Stored', k, lastSequence') = Visible(Stored, k, lastSequence')
    BY <1>2, <1>3, VisibleSame
  <2>2. \A d \in Stored : d.seq <= lastSequence' <=> d.seq <= lastSequence BY <1>1, <1>4
  <2>3. Visible(Stored, k, lastSequence') = Visible(Stored, k, lastSequence) BY <2>2 DEF Visible
  <2>4. Seen'[k] = Result(Visible(Stored', k, lastSequence')) BY SeenIs
  <2>5. Seen[k] = Result(Visible(Stored, k, lastSequence)) BY DEF Seen, See
  <2> QED BY <2>1, <2>3, <2>4, <2>5
<1>7. ASSUME NEW s \in snapshots, NEW k \in Keys
      PROVE  Result(Visible(Stored', k, s)) = See(k, s)
  <2>1. ~(e.seq <= s) BY <1>2, <1>4
  <2>2. Visible(Stored', k, s) = Visible(Stored, k, s) BY <2>1, <1>3, VisibleSame
  <2> QED BY <2>2 DEF See
<1>8. SeenAt' = SeenAt BY <1>1, <1>7, SeenIs DEF SeenAt
<1>9. Seen' = [Seen EXCEPT ![key] = IF del THEN 0 ELSE lastSequence + 1]
  <2>1. Seen' = [k \in Keys |-> Seen'[k]] BY SeenIs
  <2>2. Seen = [k \in Keys |-> Seen[k]] BY DEF Seen
  <2> QED BY <2>1, <2>2, <1>5, <1>6
<1> QED BY <1>1, <1>8, <1>9

(* Every step of the tree is a step of MVStore, or changes nothing there.  *)
LEMMA ReadsStep ==
    ASSUME OrderInv, OrderInv', GetsMatch, GetsMatch', NoManual, [Next]_vars
    PROVE  [Reads!Next]_(Reads!vars)
<1>0. DisjointInv BY DEF OrderInv
<1>1. CASE CompactMemTable \/ PickSize \/ PickSeek \/ InstallCompactionResults
  <2>1. /\ UNCHANGED <<lastSequence, snapshots>>
        /\ \A k \in Keys, s \in snapshots \cup {lastSequence} :
              Result(Visible(Stored', k, s)) = See(k, s)
    BY <1>1, BackgroundKeepsReads
  <2>2. Seen' = Seen BY <2>1, SeenIs DEF Seen
  <2>3. SeenAt' = SeenAt BY <2>1, SeenIs DEF SeenAt
  <2> QED BY <2>1, <2>2, <2>3, ReadsIs
<1>2. CASE \E k \in Keys, del \in BOOLEAN : Write(k, del)
  <2>1. PICK k \in Keys, del \in BOOLEAN : Write(k, del) BY <1>2
  <2>2. /\ lastSequence' = lastSequence + 1
        /\ Seen' = [Seen EXCEPT ![k] = IF del THEN 0 ELSE lastSequence + 1]
        /\ SeenAt' = SeenAt
    BY <2>1, WriteRefines
  <2>3. CASE del BY <2>2, <2>3, ReadsIs DEF Reads!Next
  <2>4. CASE ~del BY <2>2, <2>4, ReadsIs DEF Reads!Next
  <2> QED BY <2>3, <2>4
<1>3. CASE GetSnapshot \/ (\E s \in snapshots : ReleaseSnapshot(s)) \/ UNCHANGED vars
  <2>1. UNCHANGED <<mem, files, lastSequence>>
    BY <1>3 DEF GetSnapshot, ReleaseSnapshot, vars
  <2>2. Stored' = Stored BY <2>1 DEF Stored
  <2>3. Seen' = Seen BY <2>1, <2>2, SeenIs DEF Seen, See
  <2>4. SeenAt' = [s \in snapshots' |-> [k \in Keys |-> See(k, s)]] BY <2>2, SeenIs DEF See
  <2>5. DOMAIN SeenAt = snapshots /\ DOMAIN SeenAt' = snapshots' BY <2>4 DEF SeenAt
  <2>6. CASE GetSnapshot
    <3>1. lastSequence \notin snapshots /\ snapshots' = snapshots \cup {lastSequence}
      BY <2>6 DEF GetSnapshot
    <3>2. SeenAt' = [s \in DOMAIN SeenAt \cup {lastSequence} |->
                      IF s = lastSequence THEN Seen ELSE SeenAt[s]]
      <4>1. Seen = [k \in Keys |-> See(k, lastSequence)] BY DEF Seen
      <4>2. \A x \in snapshots : SeenAt[x] = [k \in Keys |-> See(k, x)] BY DEF SeenAt
      <4> QED BY <3>1, <4>1, <4>2, <2>4, <2>5
    <3>3. Reads!GetSnapshot BY <3>1, <3>2, <2>1, <2>3, <2>5, ReadsIs
    <3> QED BY <3>3 DEF Reads!Next
  <2>7. CASE \E s \in snapshots : ReleaseSnapshot(s)
    <3>1. PICK s \in snapshots : snapshots' = snapshots \ {s} BY <2>7 DEF ReleaseSnapshot
    <3>2. \A x \in snapshots : SeenAt[x] = [k \in Keys |-> See(k, x)] BY DEF SeenAt
    <3>3. SeenAt' = [x \in DOMAIN SeenAt \ {s} |-> SeenAt[x]] BY <3>1, <3>2, <2>4, <2>5
    <3>4. Reads!ReleaseSnapshot(s) BY <3>3, <2>1, <2>3, ReadsIs
    <3>5. s \in DOMAIN FoundAt BY DEF FoundAt
    <3> QED BY <3>4, <3>5 DEF Reads!Next, FoundAt
  <2>8. CASE UNCHANGED vars
    <3>1. snapshots' = snapshots BY <2>8 DEF vars
    <3>2. SeenAt' = SeenAt BY <3>1, <2>4 DEF SeenAt
    <3> QED BY <3>2, <2>1, <2>3, ReadsIs
  <2> QED BY <1>3, <2>6, <2>7, <2>8
<1> QED BY <1>0, <1>1, <1>2, <1>3, OtherSteps

(* An empty database is an empty map.                                      *)
LEMMA ReadsStart ==
    ASSUME Init, GetsMatch
    PROVE  Reads!Init
<1>1. FoundNow = Seen /\ FoundAt = SeenAt BY DEF GetsMatch
<1>2. mem = {} /\ files = [l \in Levels |-> {}] /\ snapshots = {} /\ lastSequence = 0 BY DEF Init
<1>3. Stored = {} BY <1>2 DEF Stored, EntriesOf
<1>4. \A k \in Keys : See(k, lastSequence) = 0 BY <1>3 DEF See, Visible, Result
<1>5. FoundNow = [k \in Keys |-> 0] BY <1>1, <1>4 DEF Seen
<1>6. FoundAt = [s \in {} |-> FoundNow] BY <1>2 DEF FoundAt
<1>7. Reads!NotFound = 0 BY DEF Reads!NotFound
<1> QED BY <1>2, <1>5, <1>6, <1>7 DEF Reads!Init, FoundNow, FoundAt

(* The tree of tables implements the map with snapshots of MVStore, in     *)
(* executions without manual compactions whose keys are not split: reads   *)
(* with and without a snapshot find exactly what was last put or deleted,  *)
(* wherever among the levels it lies, and a step that is no Put, Delete,   *)
(* GetSnapshot or ReleaseSnapshot changes no answer.                       *)
THEOREM ReadsAreStableHolds ==
    ASSUME KeysUnsplit
    PROVE  Spec /\ NoManual => ReadsAreStable
<1>1. Init => OrderInv BY OrderStart
<1>2. OrderInv /\ NoManual /\ [Next]_vars => OrderInv' /\ NoManual'
  BY OrderStep, NoManualStays DEF NoManual
<1>3. OrderInv => GetsMatch BY GetsSee
<1>4. Init /\ GetsMatch => Reads!Init BY ReadsStart
<1>5. OrderInv /\ OrderInv' /\ GetsMatch /\ GetsMatch' /\ NoManual /\ [Next]_vars
        => [Reads!Next]_(Reads!vars)
  BY ReadsStep
<1> QED BY <1>1, <1>2, <1>3, <1>4, <1>5, PTL DEF Spec, ReadsAreStable
=============================================================================
