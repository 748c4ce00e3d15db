----------------------------- MODULE CacheProofs -----------------------------
(***************************************************************************)
(* Proofs about Cache, for any threads, files, hashes, charges and         *)
(* capacity: no thread holds a freed handle, the hash table and the LRU    *)
(* list hold the same entries, the usage is what the allocated handles     *)
(* charge, no slot of the MmapLimiter is lost, and an open table reads     *)
(* what was written to its file.                                           *)
(*                                                                         *)
(* The invariant relates the shard to the threads: a handle has as many    *)
(* references as threads that hold it, and one more while it is in the     *)
(* hash table (RefsCounted).  FilesInv counts the references of a          *)
(* FileState in the same way: its names, the tables in the cache and those *)
(* being opened.                                                           *)
(***************************************************************************)
EXTENDS Cache, FiniteSetTheorems, WellFoundedInduction, TLAPS

-----------------------------------------------------------------------------
(* Numbers, sequences and finite sets.                                     *)

(* A nonempty set of numbers has a least element.                          *)
LEMMA NatMin ==
    ASSUME NEW S, S \subseteq Nat, S # {}
    PROVE  \E m \in S : \A n \in S : m <= n
<1>1. PICK m \in S : \A n \in S : ~(<<n, m>> \in OpToRel(<, Nat))
  BY NatLessThanWellFounded, WFMin
<1>2. \A n \in S : ~(n < m)
  BY <1>1 DEF OpToRel
<1> QED BY <1>2

(* What the Min of the library is.                                         *)
LEMMA MinIs ==
    ASSUME NEW S, S \subseteq Nat, S # {}
    PROVE  Min(S) \in S
BY NatMin DEF Min

(* A finite set of numbers has a greatest element.                         *)
LEMMA MaxIs ==
    ASSUME NEW S, S \subseteq Nat, IsFiniteSet(S), S # {}
    PROVE  Max(S) \in S /\ \A n \in S : n <= Max(S)
<1>1. PICK b \in Nat : \A n \in S : n <= b
  <2> DEFINE Bad == {k \in Nat : \E T \in SUBSET Nat : /\ IsFiniteSet(T) /\ Cardinality(T) = k
                                                       /\ ~\E b \in Nat : \A n \in T : n <= b}
  <2>1. Bad = {}
    <3> SUFFICES ASSUME Bad # {} PROVE FALSE OBVIOUS
    <3>1. PICK k \in Bad : \A j \in Bad : k <= j BY NatMin
    <3>2. PICK T \in SUBSET Nat : /\ IsFiniteSet(T) /\ Cardinality(T) = k
                                  /\ ~\E b \in Nat : \A n \in T : n <= b
      BY <3>1
    <3>3. T # {} BY <3>2
    <3>4. PICK x \in T : TRUE BY <3>3
    <3>5. IsFiniteSet(T \ {x}) /\ Cardinality(T \ {x}) = k - 1
      BY <3>2, <3>4, FS_RemoveElement
    <3>6. k - 1 \in Nat BY <3>5, FS_CardinalityType
    <3>7. k - 1 \notin Bad BY <3>1, <3>6
    <3>8. PICK b \in Nat : \A n \in T \ {x} : n <= b BY <3>2, <3>5, <3>6, <3>7
    <3>9. x \in Nat BY <3>2
    <3>10. PICK c \in Nat : c >= b /\ c >= x
      <4>1. CASE b >= x BY <4>1
      <4>2. CASE ~(b >= x) BY <4>2, <3>9
      <4> QED BY <4>1, <4>2
    <3>11. \A n \in T : n <= c BY <3>2, <3>8, <3>9, <3>10
    <3> QED BY <3>2, <3>11
  <2>2. Cardinality(S) \in Nat BY FS_CardinalityType
  <2> QED BY <2>1, <2>2
<1>2. PICK m \in {k \in Nat : \A n \in S : n <= k} :
         \A j \in {k \in Nat : \A n \in S : n <= k} : m <= j
  <2>1. {k \in Nat : \A n \in S : n <= k} \subseteq Nat /\ b \in {k \in Nat : \A n \in S : n <= k}
    BY <1>1
  <2> QED BY <2>1, NatMin
<1>3. m \in S
  <2> SUFFICES ASSUME m \notin S PROVE FALSE OBVIOUS
  <2>1. PICK n \in S : TRUE OBVIOUS
  <2>2. n <= m /\ n # m /\ n \in Nat /\ m \in Nat BY <1>2
  <2>3. m - 1 \in Nat BY <2>2
  <2>4. \A j \in S : j <= m - 1 BY <1>2, <2>2
  <2>5. m <= m - 1 BY <2>3, <2>4, <1>2
  <2> QED BY <2>2, <2>5
<1>4. \A n \in S : n <= m BY <1>2
<1>5. \A n \in S : m >= n BY <1>2, <1>4
<1>6. \E x \in S : \A n \in S : x >= n BY <1>3, <1>5
<1>7. Max(S) = CHOOSE x \in S : \A n \in S : x >= n BY DEF Max
<1>8. Max(S) \in S /\ \A n \in S : Max(S) >= n BY <1>6, <1>7
<1> QED BY <1>8

(* RemoveAt: a sequence without its i-th element.                          *)
LEMMA RemoveAtIs ==
    ASSUME NEW S, NEW s \in Seq(S), NEW i \in DOMAIN s
    PROVE  /\ RemoveAt(s, i) \in Seq(S) /\ Len(RemoveAt(s, i)) = Len(s) - 1
           /\ \A j \in 1..Len(s) - 1 : RemoveAt(s, i)[j] = IF j < i THEN s[j] ELSE s[j + 1]
<1>1. i \in 1..Len(s) /\ Len(s) \in Nat OBVIOUS
<1>2. SubSeq(s, 1, i - 1) \in Seq(S) /\ Len(SubSeq(s, 1, i - 1)) = i - 1 BY <1>1
<1>3. SubSeq(s, i + 1, Len(s)) \in Seq(S) /\ Len(SubSeq(s, i + 1, Len(s))) = Len(s) - i BY <1>1
<1>4. PICK a, b : a = SubSeq(s, 1, i - 1) /\ b = SubSeq(s, i + 1, Len(s)) OBVIOUS
<1>5. \A j \in 1..i - 1 : a[j] = s[j] BY <1>1, <1>4
<1>6. \A j \in 1..Len(s) - i : b[j] = s[i + j] BY <1>1, <1>4
<1>7. /\ a \in Seq(S) /\ Len(a) = i - 1 /\ b \in Seq(S) /\ Len(b) = Len(s) - i
      /\ RemoveAt(s, i) = a \o b
  BY <1>2, <1>3, <1>4 DEF RemoveAt
<1>8. a \o b \in Seq(S) /\ Len(a \o b) = Len(s) - 1 BY <1>1, <1>7
<1>9. \A j \in 1..Len(s) - 1 : (a \o b)[j] = IF j <= i - 1 THEN a[j] ELSE b[j - (i - 1)]
  BY <1>1, <1>7
<1>10. ASSUME NEW j \in 1..Len(s) - 1
       PROVE  (a \o b)[j] = IF j < i THEN s[j] ELSE s[j + 1]
  <2>1. CASE j < i
    <3>1. j \in 1..i - 1 /\ j <= i - 1 BY <2>1, <1>1
    <3> QED BY <3>1, <2>1, <1>1, <1>5, <1>9
  <2>2. CASE ~(j < i)
    <3>1. j - (i - 1) \in 1..Len(s) - i /\ i + (j - (i - 1)) = j + 1 /\ ~(j <= i - 1) BY <2>2, <1>1
    <3>2. b[j - (i - 1)] = s[j + 1] BY <3>1, <1>6
    <3> QED BY <3>1, <3>2, <2>2, <1>9
  <2> QED BY <2>1, <2>2
<1> QED BY <1>7, <1>8, <1>10

(* A sequence in which no element is twice, as the LRU list.               *)
Once(s) == \A i, j \in DOMAIN s : s[i] = s[j] => i = j

(* It has as many elements as places.                                      *)
LEMMA OnceCounts ==
    ASSUME NEW S, NEW s \in Seq(S), Once(s)
    PROVE  IsFiniteSet(Range(s)) /\ Cardinality(Range(s)) = Len(s)
<1>1. s \in Bijection(1..Len(s), Range(s))
  BY DEF Once, Range, Bijection, Injection, Surjection, IsInjective
<1>2. IsFiniteSet(1..Len(s)) /\ Cardinality(1..Len(s)) = Len(s)
  <2>1. Len(s) \in Nat OBVIOUS
  <2> QED BY <2>1, FS_Interval
<1> QED BY <1>1, <1>2, FS_Bijection DEF ExistsBijection

(* Without the place of one of its elements it has the others.             *)
LEMMA OnceRemove ==
    ASSUME NEW S, NEW s \in Seq(S), Once(s), NEW i \in DOMAIN s
    PROVE  /\ RemoveAt(s, i) \in Seq(S) /\ Once(RemoveAt(s, i))
           /\ Range(RemoveAt(s, i)) = Range(s) \ {s[i]}
<1> DEFINE r == RemoveAt(s, i)
<1>0. i \in 1..Len(s) /\ Len(s) \in Nat /\ DOMAIN s = 1..Len(s) OBVIOUS
<1>1. /\ r \in Seq(S) /\ Len(r) = Len(s) - 1
      /\ \A j \in 1..Len(s) - 1 : r[j] = IF j < i THEN s[j] ELSE s[j + 1]
  BY RemoveAtIs
<1> HIDE DEF r
<1>2. DOMAIN r = 1..Len(s) - 1 BY <1>1, <1>0
<1>3. Once(r)
  <2> SUFFICES ASSUME NEW j \in 1..Len(s) - 1, NEW k \in 1..Len(s) - 1, r[j] = r[k] PROVE j = k
    BY <1>2 DEF Once
  <2>1. PICK a \in 1..Len(s) : a = IF j < i THEN j ELSE j + 1 BY <1>0
  <2>2. PICK b \in 1..Len(s) : b = IF k < i THEN k ELSE k + 1 BY <1>0
  <2>3. s[a] = s[b] BY <2>1, <2>2, <1>1
  <2>4. a = b BY <2>3, <1>0 DEF Once
  <2> QED BY <2>1, <2>2, <2>4, <1>0
<1>4. ASSUME NEW x PROVE x \in Range(r) <=> x \in Range(s) \ {s[i]}
  <2>1. ASSUME NEW j \in 1..Len(s) - 1, x = r[j] PROVE x \in Range(s) \ {s[i]}
    <3>1. PICK a \in 1..Len(s) : a = IF j < i THEN j ELSE j + 1 BY <1>0
    <3>2. x = s[a] /\ a # i BY <2>1, <3>1, <1>1, <1>0
    <3> QED BY <3>2, <1>0 DEF Once, Range
  <2>2. ASSUME NEW a \in 1..Len(s), x = s[a], x # s[i] PROVE x \in Range(r)
    <3>1. PICK j \in 1..Len(s) - 1 : a = IF j < i THEN j ELSE j + 1
      <4>1. CASE a < i BY <4>1, <1>0
      <4>2. CASE a > i
        <5>1. a - 1 \in 1..Len(s) - 1 /\ ~(a - 1 < i) /\ a = (a - 1) + 1 BY <4>2, <1>0
        <5> QED BY <5>1
      <4> QED BY <4>1, <4>2, <2>2, <1>0
    <3>2. x = r[j] BY <3>1, <2>2, <1>1
    <3> QED BY <3>2, <1>2 DEF Range
  <2> QED BY <2>1, <2>2, <1>0, <1>2 DEF Range
<1> QED BY <1>1, <1>3, <1>4 DEF r

(* With a new element at its end.                                          *)
LEMMA OnceAppend ==
    ASSUME NEW S, NEW s \in Seq(S), Once(s), NEW x \in S, x \notin Range(s)
    PROVE  /\ Append(s, x) \in Seq(S) /\ Once(Append(s, x))
           /\ Range(Append(s, x)) = Range(s) \cup {x}
<1> DEFINE r == Append(s, x)
<1>0. Len(s) \in Nat /\ DOMAIN s = 1..Len(s) OBVIOUS
<1>1. /\ r \in Seq(S) /\ DOMAIN r = 1..Len(s) + 1 /\ r[Len(s) + 1] = x
      /\ \A j \in 1..Len(s) : r[j] = s[j]
  OBVIOUS
<1> HIDE DEF r
<1>2. \A j \in 1..Len(s) : s[j] # x BY <1>0 DEF Range
<1>3. \A j \in 1..Len(s) + 1 : j = Len(s) + 1 \/ j \in 1..Len(s) BY <1>0
<1>4. Once(r) BY <1>0, <1>1, <1>2, <1>3 DEF Once
<1>5. Range(r) = Range(s) \cup {x}
  <2>1. ASSUME NEW y \in Range(r) PROVE y \in Range(s) \cup {x}
    BY <1>0, <1>1, <1>3, <2>1 DEF Range
  <2>2. ASSUME NEW y \in Range(s) PROVE y \in Range(r)
    <3>1. \A j \in 1..Len(s) : j \in 1..Len(s) + 1 BY <1>0
    <3> QED BY <1>0, <1>1, <3>1 DEF Range
  <2>3. x \in Range(r)
    <3>1. Len(s) + 1 \in 1..Len(s) + 1 BY <1>0
    <3> QED BY <1>1, <3>1 DEF Range
  <2> QED BY <2>1, <2>2, <2>3
<1> QED BY <1>1, <1>4, <1>5 DEF r

-----------------------------------------------------------------------------
(* Loops.                                                                  *)

(* The values of a loop of n rounds that starts with x: round k is step[k]. *)
Iterates(f, n, S, step, x) ==
    /\ f \in [0..n -> S] /\ f[0] = x
    /\ \A k \in 1..n : f[k] = step[k][f[k - 1]]

(* There are such values.                                                 *)
LEMMA IteratesExist ==
    ASSUME NEW S, NEW n \in Nat, NEW step \in [1..n -> [S -> S]], NEW x \in S
    PROVE  \E f : Iterates(f, n, S, step, x)
<1> DEFINE Bad == {k \in 0..n : ~\E f : Iterates(f, k, S, step, x)}
<1> SUFFICES ASSUME Bad # {} PROVE FALSE
  <2>1. n \in 0..n OBVIOUS
  <2> QED BY <2>1
<1>1. PICK k \in Bad : \A j \in Bad : k <= j
  <2>1. Bad \subseteq Nat OBVIOUS
  <2> QED BY <2>1, NatMin
<1>2. CASE k = 0
  <2>1. [i \in 0..0 |-> x] \in [0..0 -> S] OBVIOUS
  <2>2. Iterates([i \in 0..0 |-> x], 0, S, step, x) BY <2>1 DEF Iterates
  <2> QED BY <2>2, <1>1, <1>2
<1>3. CASE k # 0
  <2>1. k - 1 \in Nat /\ k - 1 \in 0..n /\ ~(k <= k - 1) /\ k \in 1..n BY <1>1, <1>3
  <2>2. PICK f : Iterates(f, k - 1, S, step, x) BY <2>1, <1>1
  <2> DEFINE g == [i \in 0..k |-> IF i = k THEN step[k][f[k - 1]] ELSE f[i]]
  <2>3. \A i \in 0..k - 1 : f[i] \in S BY <2>2 DEF Iterates
  <2>4. k - 1 \in 0..k - 1 /\ step[k][f[k - 1]] \in S BY <2>1, <2>3
  <2>5. \A i \in 0..k : i = k \/ i \in 0..k - 1 BY <2>1
  <2>6. g \in [0..k -> S] BY <2>3, <2>4, <2>5
  <2>7. g[0] = x BY <1>3, <2>1, <2>2 DEF Iterates
  <2>8. ASSUME NEW i \in 1..k PROVE g[i] = step[i][g[i - 1]]
    <3>1. i \in 0..k /\ i - 1 \in 0..k /\ i - 1 # k BY <2>1
    <3>2. CASE i = k BY <3>1, <3>2
    <3>3. CASE i # k
      <4>1. i \in 1..k - 1 BY <3>3, <2>1
      <4> QED BY <4>1, <3>1, <3>3, <2>2 DEF Iterates
    <3> QED BY <3>2, <3>3
  <2>9. Iterates(g, k, S, step, x) BY <2>6, <2>7, <2>8 DEF Iterates
  <2> QED BY <2>9, <1>1
<1> QED BY <1>2, <1>3

-----------------------------------------------------------------------------
(* What handles cost.                                                      *)

(* A pair for every unit that the handles hs of c charge, and their number.*)
Units(c, hs)  == UNION {{h} \X (1..Charge[c.handles[h].key]) : h \in hs}
CostIn(c, hs) == Cardinality(Units(c, hs))

(* The handles hs of c are those of files.                                 *)
Keyed(c, hs) == \A h \in hs : c.handles[h].key \in Files

(* The units of one handle.                                                *)
LEMMA UnitsCount ==
    ASSUME NEW h, NEW n \in Nat
    PROVE  IsFiniteSet({h} \X (1..n)) /\ Cardinality({h} \X (1..n)) = n
<1>1. IsFiniteSet(1..n) /\ Cardinality(1..n) = n
  <2>1. n \in Int /\ 1 \in Int OBVIOUS
  <2>2. IsFiniteSet(1..n) /\ Cardinality(1..n) = IF 1 > n THEN 0 ELSE n - 1 + 1 BY <2>1, FS_Interval
  <2> QED BY <2>2
<1>2. IsFiniteSet({h}) /\ Cardinality({h}) = 1 BY FS_Singleton
<1>3. IsFiniteSet({h} \X (1..n)) /\ Cardinality({h} \X (1..n)) = 1 * n
  BY <1>1, <1>2, FS_Product
<1> QED BY <1>3

(* The units of one handle more.                                           *)
LEMMA UnitsAdd ==
    ASSUME NEW c, NEW hs, NEW h, h \notin hs, Keyed(c, hs \cup {h}), IsFiniteSet(Units(c, hs))
    PROVE  /\ IsFiniteSet(Units(c, hs \cup {h}))
           /\ CostIn(c, hs \cup {h}) = CostIn(c, hs) + Charge[c.handles[h].key]
<1> DEFINE n == Charge[c.handles[h].key]  V == {h} \X (1..n)
<1>1. n \in Nat BY CacheAssumption DEF Keyed
<1>2. IsFiniteSet(V) /\ Cardinality(V) = n BY <1>1, UnitsCount
<1>3. Units(c, hs \cup {h}) = Units(c, hs) \cup V BY DEF Units
<1>4. Units(c, hs) \cap V = {} BY DEF Units
<1> HIDE DEF V
<1>5. Cardinality({}) = 0 BY FS_EmptySet
<1>6. Cardinality(Units(c, hs)) \in Nat BY FS_CardinalityType
<1>7. /\ IsFiniteSet(Units(c, hs) \cup V)
      /\ Cardinality(Units(c, hs) \cup V) = Cardinality(Units(c, hs)) + Cardinality(V) - 0
  BY <1>2, <1>4, <1>5, FS_Union
<1>8. IsFiniteSet(Units(c, hs \cup {h})) BY <1>3, <1>7
<1>9. Cardinality(Units(c, hs \cup {h})) = Cardinality(Units(c, hs)) + n
  <2> HIDE DEF n
  <2>1. Cardinality(Units(c, hs \cup {h})) = Cardinality(Units(c, hs)) + Cardinality(V) - 0
    BY <1>3, <1>7
  <2>2. Cardinality(V) = n BY <1>2
  <2> QED BY <2>1, <2>2, <1>1, <1>6
<1> QED BY <1>8, <1>9 DEF CostIn

(* Finitely many handles cost finitely much.                               *)
LEMMA UnitsFinite ==
    ASSUME NEW c, NEW n \in Nat, NEW hs \in SUBSET (1..n), Keyed(c, hs)
    PROVE  IsFiniteSet(Units(c, hs)) /\ CostIn(c, hs) \in Nat
<1> DEFINE Bad == {k \in Nat : \E H \in SUBSET (1..k) : Keyed(c, H) /\ ~IsFiniteSet(Units(c, H))}
<1>1. Bad = {}
  <2> SUFFICES ASSUME Bad # {} PROVE FALSE OBVIOUS
  <2>1. PICK k \in Bad : \A j \in Bad : k <= j BY NatMin
  <2>2. PICK H \in SUBSET (1..k) : Keyed(c, H) /\ ~IsFiniteSet(Units(c, H)) BY <2>1
  <2>3. CASE k = 0
    <3>1. H = {} BY <2>3, <2>2
    <3>2. Units(c, H) = {} BY <3>1 DEF Units
    <3> QED BY <3>2, <2>2, FS_EmptySet
  <2>4. CASE k # 0
    <3>1. k - 1 \in Nat /\ ~(k <= k - 1) BY <2>4, <2>1
    <3>2. k - 1 \notin Bad BY <3>1, <2>1
    <3>3. H \ {k} \in SUBSET (1..k - 1) /\ Keyed(c, H \ {k}) BY <2>1, <2>2, <3>1 DEF Keyed
    <3>4. IsFiniteSet(Units(c, H \ {k})) BY <3>1, <3>2, <3>3
    <3>5. CASE k \notin H
      <4>1. H \ {k} = H BY <3>5
      <4> QED BY <4>1, <3>4, <2>2
    <3>6. CASE k \in H
      <4>1. (H \ {k}) \cup {k} = H /\ k \notin H \ {k} BY <3>6
      <4>2. IsFiniteSet(Units(c, H)) BY <4>1, <3>4, <2>2, UnitsAdd
      <4> QED BY <4>2, <2>2
    <3> QED BY <3>5, <3>6
  <2> QED BY <2>3, <2>4
<1>2. IsFiniteSet(Units(c, hs)) BY <1>1
<1> QED BY <1>2, FS_CardinalityType DEF CostIn

(* One handle more adds its charge.                                        *)
LEMMA CostAdds ==
    ASSUME NEW c, NEW n \in Nat, NEW hs \in SUBSET (1..n), NEW h \in 1..n, h \notin hs,
           Keyed(c, hs \cup {h})
    PROVE  CostIn(c, hs \cup {h}) = CostIn(c, hs) + Charge[c.handles[h].key]
<1>1. Keyed(c, hs) BY DEF Keyed
<1> QED BY <1>1, UnitsFinite, UnitsAdd

(* One handle less takes its charge away.                                  *)
LEMMA CostRemoves ==
    ASSUME NEW c, NEW n \in Nat, NEW hs \in SUBSET (1..n), NEW h \in hs, Keyed(c, hs)
    PROVE  CostIn(c, hs) = CostIn(c, hs \ {h}) + Charge[c.handles[h].key]
<1>1. hs \ {h} \in SUBSET (1..n) /\ h \in 1..n /\ h \notin hs \ {h} /\ (hs \ {h}) \cup {h} = hs
  OBVIOUS
<1> QED BY <1>1, CostAdds

(* More handles do not cost less.                                          *)
LEMMA CostGrows ==
    ASSUME NEW c, NEW n \in Nat, NEW hs \in SUBSET (1..n), NEW gs \in SUBSET hs, Keyed(c, hs)
    PROVE  CostIn(c, gs) <= CostIn(c, hs)
<1>1. IsFiniteSet(Units(c, hs)) BY UnitsFinite
<1>2. Units(c, gs) \subseteq Units(c, hs) BY DEF Units
<1> QED BY <1>1, <1>2, FS_Subset DEF CostIn

(* Two sets of handles cost together no more than each on its own.         *)
LEMMA CostUnion ==
    ASSUME NEW c, NEW n \in Nat, NEW hs \in SUBSET (1..n), NEW gs \in SUBSET (1..n),
           Keyed(c, hs \cup gs)
    PROVE  CostIn(c, hs \cup gs) <= CostIn(c, hs) + CostIn(c, gs)
<1>1. Keyed(c, hs) /\ Keyed(c, gs) BY DEF Keyed
<1>2. IsFiniteSet(Units(c, hs)) /\ IsFiniteSet(Units(c, gs)) BY <1>1, UnitsFinite
<1>3. Units(c, hs \cup gs) = Units(c, hs) \cup Units(c, gs) BY DEF Units
<1> DEFINE U == Units(c, hs)  V == Units(c, gs)
<1> HIDE DEF U, V
<1>4. IsFiniteSet(U) /\ IsFiniteSet(V) BY <1>2 DEF U, V
<1>5. IsFiniteSet(U \cap V)
  <2>1. U \cap V \in SUBSET U OBVIOUS
  <2> QED BY <2>1, <1>4, FS_Subset
<1>6. /\ Cardinality(U \cup V) = Cardinality(U) + Cardinality(V) - Cardinality(U \cap V)
      /\ Cardinality(U) \in Nat /\ Cardinality(V) \in Nat /\ Cardinality(U \cap V) \in Nat
  BY <1>4, <1>5, FS_Union, FS_CardinalityType
<1>7. Cardinality(U \cup V) <= Cardinality(U) + Cardinality(V) BY <1>6
<1> QED BY <1>3, <1>7 DEF U, V, CostIn

(* Only the keys count.                                                    *)
LEMMA CostSame ==
    ASSUME NEW c, NEW d, NEW hs, \A h \in hs : d.handles[h].key = c.handles[h].key
    PROVE  CostIn(d, hs) = CostIn(c, hs)
<1>1. Units(d, hs) = Units(c, hs) BY DEF Units
<1> QED BY <1>1 DEF CostIn

-----------------------------------------------------------------------------
(* HandleTable.                                                            *)

(* f is new_length in the first n rounds of the loop of Resize.            *)
Rounds(f, n) ==
    /\ f \in [0..n -> Nat] /\ f[0] = kMinLength
    /\ \A k \in 1..n : f[k] = 2 * f[k - 1]

(* There are such values for every number of rounds.                       *)
LEMMA RoundsExist == ASSUME NEW n \in Nat PROVE \E f : Rounds(f, n)
<1> DEFINE Bad == {k \in Nat : ~\E f : Rounds(f, k)}
<1> SUFFICES ASSUME Bad # {} PROVE FALSE OBVIOUS
<1>1. PICK k \in Bad : \A j \in Bad : k <= j BY NatMin
<1>2. kMinLength \in Nat BY CacheAssumption
<1>3. CASE k = 0
  <2>1. [i \in 0..0 |-> kMinLength] \in [0..0 -> Nat] BY <1>2
  <2>2. Rounds([i \in 0..0 |-> kMinLength], 0) BY <2>1 DEF Rounds
  <2> QED BY <2>2, <1>3, <1>1
<1>4. CASE k # 0
  <2>1. k - 1 \in Nat /\ ~(k <= k - 1) BY <1>4, <1>1
  <2>2. PICK f : Rounds(f, k - 1) BY <2>1, <1>1
  <2> DEFINE g == [i \in 0..k |-> IF i = k THEN 2 * f[k - 1] ELSE f[i]]
  <2>3. g \in [0..k -> Nat]
    <3>1. \A i \in 0..k : i = k \/ i \in 0..k - 1 BY <2>1
    <3>2. k - 1 \in 0..k - 1 BY <2>1
    <3> QED BY <3>1, <3>2, <2>2 DEF Rounds
  <2>4. g[0] = kMinLength BY <1>4, <2>1, <2>2 DEF Rounds
  <2>5. ASSUME NEW i \in 1..k PROVE g[i] = 2 * g[i - 1]
    <3>1. i \in 0..k /\ i - 1 \in 0..k /\ i - 1 # k BY <2>1
    <3>2. CASE i = k BY <3>1, <3>2
    <3>3. CASE i # k
      <4>1. i \in 1..k - 1 BY <3>3, <2>1
      <4> QED BY <4>1, <3>1, <3>3, <2>2 DEF Rounds
    <3> QED BY <3>2, <3>3
  <2>6. Rounds(g, k) BY <2>3, <2>4, <2>5 DEF Rounds
  <2> QED BY <2>6, <1>1
<1> QED BY <1>3, <1>4

(* After a round there is one value only.                                  *)
LEMMA RoundsAgree ==
    ASSUME NEW m \in Nat, NEW n \in Nat, NEW f, NEW g, Rounds(f, m), Rounds(g, n), m <= n
    PROVE  f[m] = g[m]
<1> DEFINE Bad == {k \in 0..m : f[k] # g[k]}
<1>1. Bad = {}
  <2> SUFFICES ASSUME Bad # {} PROVE FALSE OBVIOUS
  <2>1. PICK k \in Bad : \A j \in Bad : k <= j
    <3>1. Bad \subseteq Nat OBVIOUS
    <3> QED BY <3>1, NatMin
  <2>2. k # 0 BY <2>1 DEF Rounds
  <2>3. k \in 1..m /\ k \in 1..n /\ k - 1 \in 0..m /\ ~(k <= k - 1) BY <2>2
  <2>4. f[k - 1] = g[k - 1] BY <2>1, <2>3
  <2>5. f[k] = g[k] BY <2>3, <2>4 DEF Rounds
  <2> QED BY <2>5, <2>1
<1>2. m \in 0..m OBVIOUS
<1> QED BY <1>1, <1>2

(* So that new_length has a value for every number of rounds.              *)
LEMMA NewLengthStep ==
    \A k \in Nat : new_length[k] = IF k = 0 THEN kMinLength ELSE 2 * new_length[k - 1]
<1> DEFINE F(n) == CHOOSE f : Rounds(f, n)
           g == [k \in Nat |-> F(k)[k]]
<1>1. \A n \in Nat : Rounds(F(n), n) BY RoundsExist
<1> HIDE DEF F
<1>2. ASSUME NEW k \in Nat PROVE g[k] = IF k = 0 THEN kMinLength ELSE 2 * g[k - 1]
  <2>1. CASE k = 0 BY <2>1, <1>1 DEF Rounds
  <2>2. CASE k # 0
    <3>1. k - 1 \in Nat /\ k - 1 <= k /\ k \in 1..k BY <2>2
    <3>2. F(k)[k] = 2 * F(k)[k - 1] BY <3>1, <1>1 DEF Rounds
    <3>3. F(k - 1)[k - 1] = F(k)[k - 1] BY <3>1, <1>1, RoundsAgree
    <3> QED BY <3>1, <3>2, <3>3, <2>2
  <2> QED BY <2>1, <2>2
<1>3. g = [k \in Nat |-> IF k = 0 THEN kMinLength ELSE 2 * g[k - 1]]
  <2> DEFINE h == [k \in Nat |-> IF k = 0 THEN kMinLength ELSE 2 * g[k - 1]]
  <2>1. \A k \in Nat : g[k] = h[k] BY <1>2
  <2> HIDE DEF h
  <2>2. h = [k \in Nat |-> h[k]] BY DEF h
  <2>3. g = [k \in Nat |-> g[k]] OBVIOUS
  <2> HIDE DEF g
  <2>4. g = h BY <2>1, <2>2, <2>3
  <2> QED BY <2>4 DEF h
<1> HIDE DEF g
<1>4. new_length = [k \in Nat |-> IF k = 0 THEN kMinLength ELSE 2 * new_length[k - 1]]
  BY <1>3 DEF new_length
<1> QED BY <1>4

(* The length is more than the number of rounds, so that the loop          *)
(* ends with a table that has a bucket.                                    *)
LEMMA NewLengthGrows == \A k \in Nat : new_length[k] \in Nat /\ new_length[k] > k
<1> DEFINE Bad == {k \in Nat : ~(new_length[k] \in Nat /\ new_length[k] > k)}
<1> SUFFICES ASSUME Bad # {} PROVE FALSE OBVIOUS
<1>1. PICK k \in Bad : \A j \in Bad : k <= j BY NatMin
<1>2. CASE k = 0 BY <1>1, <1>2, NewLengthStep, CacheAssumption
<1>3. CASE k # 0
  <2>1. k - 1 \in Nat /\ ~(k <= k - 1) BY <1>3, <1>1
  <2>2. new_length[k - 1] \in Nat /\ new_length[k - 1] > k - 1 BY <2>1, <1>1
  <2>3. new_length[k] = 2 * new_length[k - 1] BY <1>1, <1>3, NewLengthStep
  <2>4. new_length[k] \in Nat /\ new_length[k] > k
    <3> DEFINE x == new_length[k - 1]
    <3> HIDE DEF x
    <3>1. x \in Nat /\ x > k - 1 /\ new_length[k] = 2 * x BY <2>2, <2>3 DEF x
    <3>2. k \in Nat BY <1>1
    <3>3. 2 * x \in Nat /\ 2 * x > k BY <3>1, <3>2, <1>3
    <3> QED BY <3>1, <3>3
  <2> QED BY <2>4, <1>1
<1> QED BY <1>2, <1>3

-----------------------------------------------------------------------------
(* The invariant.                                                          *)

Raf    == [state : Nat, mapped : BOOLEAN]
Handle == [key : Files, refs : Nat \ {0}, file : Raf]

(* A shard whose handles are among 1..n.                                   *)
Shaped(c) == c = [handles |-> c.handles, lru |-> c.lru, usage |-> c.usage, list |-> c.list]
ShardType(c, n) ==
    /\ Shaped(c)
    /\ DOMAIN c.handles \subseteq 1..n /\ c.handles \in [DOMAIN c.handles -> Handle]
    /\ c.lru \in Seq(1..n) /\ c.usage \in Int

(* No two of the handles S of c have one key.                              *)
OneEach(c, S) == \A g, h \in S : c.handles[g].key = c.handles[h].key => g = h

(* The hash table of c holds S, one handle of each key, and each where its *)
(* hash says.                                                              *)
TableIs(c, S) ==
    /\ Length(c) \in Nat \ {0}
    /\ DOMAIN c.list = 0..Length(c) - 1
    /\ \A b \in 0..Length(c) - 1 :
          c.list[b] = {h \in S : Hash[c.handles[h].key] % Length(c) = b}
    /\ OneEach(c, S)

(* The LRU list has the same handles.                                      *)
ListIs(c, S) == Once(c.lru) /\ Range(c.lru) = S

Consistent(c, n, S) ==
    ShardType(c, n) /\ S \subseteq DOMAIN c.handles /\ TableIs(c, S) /\ ListIs(c, S)
ShardInv == Consistent(cache, inserts, InTable(cache))

EnvType(e) ==
    /\ e = [kind |-> e.kind, file_map |-> e.file_map, states |-> e.states, allowed |-> e.allowed]
    /\ e.kind \in {"posix", "mem"} /\ e.allowed \in Nat
    /\ e.file_map \in [DOMAIN e.file_map -> Nat]

PCs == {"idle", "open", "acquire", "map", "table", "evict", "use"}
Work == [pc : PCs, file : Files \cup {NULL}, handle : Nat, raf : Raf]
TypeInv ==
    /\ inserts \in Nat /\ names \in Nat
    /\ thread \in [Threads -> Work]
    /\ EnvType(env)

(* What a thread may be doing: it has a handle while it uses or inserts a  *)
(* table, and a mapped file only until the table is inserted.              *)
Stage(w) ==
    /\ w.pc = "idle" <=> w = Idle
    /\ w.pc # "idle" => w.file \in Files
    /\ w.pc \in {"use", "evict"} <=> w.handle # NULL
    /\ w.raf.mapped => w.pc = "table"

(* The handle that it has is allocated and of the file it asked for.       *)
Holds(c, w) ==
    w.handle # NULL =>
        w.handle \in DOMAIN c.handles /\ c.handles[w.handle].key = w.file

(* Only one thread is inserting.                                           *)
HoldsInv ==
    /\ \A t \in Threads : Stage(thread[t]) /\ Holds(cache, thread[t])
    /\ \A t, u \in Threads : thread[t].pc = "evict" /\ thread[u].pc = "evict" => t = u

(* LRUHandle::refs: a reference from each thread and one from the cache.   *)
RefsCounted ==
    \A h \in Allocated :
        cache.handles[h].refs = Cardinality(Holders(h)) + (IF h \in InTable(cache) THEN 1 ELSE 0)

(* What the cache itself keeps costs no more than its capacity.            *)
UsageInv ==
    /\ cache.usage = CostIn(cache, Allocated)
    /\ ~Locked => CostIn(cache, InTable(cache)) <= capacity_

CacheInv == TypeInv /\ ShardInv /\ HoldsInv /\ RefsCounted /\ UsageInv

-----------------------------------------------------------------------------
(* The hash table.                                                         *)

(* A handle of S is in the bucket of its hash.                             *)
LEMMA BucketIs ==
    ASSUME NEW c, NEW S, TableIs(c, S), NEW f \in Files
    PROVE  /\ Bucket(c, f) \in 0..Length(c) - 1 /\ DOMAIN c.list = 0..Length(c) - 1
           /\ FindPointer(c, f) = {h \in S : c.handles[h].key = f}
<1>1. Hash[f] \in Nat BY CacheAssumption
<1>2. Hash[f] % Length(c) \in 0..Length(c) - 1 BY <1>1 DEF TableIs
<1>3. /\ DOMAIN c.list = 0..Length(c) - 1
      /\ c.list[Bucket(c, f)] = {h \in S : Hash[c.handles[h].key] % Length(c) = Bucket(c, f)}
  BY <1>2 DEF TableIs, Bucket
<1> QED BY <1>2, <1>3 DEF Bucket, FindPointer

(* The handles of the buckets are those of S.                              *)
LEMMA InTableIs ==
    ASSUME NEW c, NEW S, TableIs(c, S), Keyed(c, S)
    PROVE  InTable(c) = S
<1>1. InTable(c) \subseteq S BY DEF InTable, TableIs
<1>2. ASSUME NEW h \in S PROVE h \in InTable(c)
  <2>1. c.handles[h].key \in Files BY DEF Keyed
  <2>2. h \in FindPointer(c, c.handles[h].key) BY <2>1, BucketIs
  <2> QED BY <2>1, <2>2, BucketIs DEF FindPointer, InTable
<1> QED BY <1>1, <1>2

(* A lookup finds the handle of a key that is there.                       *)
LEMMA LookupIs ==
    ASSUME NEW c, NEW S, TableIs(c, S), NEW f \in Files
    PROVE  \/ TableLookup(c, f) = NULL /\ \A h \in S : c.handles[h].key # f
           \/ TableLookup(c, f) \in S /\ c.handles[TableLookup(c, f)].key = f
<1>1. FindPointer(c, f) = {h \in S : c.handles[h].key = f} BY BucketIs
<1>2. CASE FindPointer(c, f) = {} BY <1>1, <1>2 DEF TableLookup
<1>3. CASE FindPointer(c, f) # {}
  <2>1. TableLookup(c, f) \in FindPointer(c, f) BY <1>3 DEF TableLookup
  <2> QED BY <2>1, <1>1
<1> QED BY <1>2, <1>3

(* d is c with out replaced by in in the bucket of f.                      *)
Rebucketed(c, d, f, out, in) ==
    /\ d.handles = c.handles /\ DOMAIN d.list = DOMAIN c.list
    /\ \A i \in DOMAIN c.list :
          d.list[i] = IF i = Bucket(c, f) THEN (c.list[i] \ out) \cup in ELSE c.list[i]
OfFile(c, hs, f) == \A h \in hs : c.handles[h].key = f

(* A change of one bucket.                                                 *)
LEMMA BucketChange ==
    ASSUME NEW c, NEW S, TableIs(c, S), NEW f \in Files,
           NEW out, NEW in, OfFile(c, out \cap S, f), OfFile(c, in, f),
           NEW d, Rebucketed(c, d, f, out, in), OneEach(c, (S \ out) \cup in)
    PROVE  TableIs(d, (S \ out) \cup in)
<1> DEFINE n == Length(c)  b == Bucket(c, f)  T == (S \ out) \cup in
<1>1. b \in 0..n - 1 /\ DOMAIN c.list = 0..n - 1 BY BucketIs
<1>3. d.handles = c.handles BY DEF Rebucketed
<1>4. \A i \in 0..n - 1 : d.list[i] = IF i = b THEN (c.list[i] \ out) \cup in ELSE c.list[i]
  BY <1>1 DEF Rebucketed
<1>5. DOMAIN d.list = DOMAIN c.list BY DEF Rebucketed
<1>6. Length(d) = n BY <1>5 DEF Length
<1>7. /\ n \in Nat \ {0}
      /\ \A i \in 0..n - 1 : c.list[i] = {h \in S : Hash[c.handles[h].key] % n = i}
  BY DEF TableIs
<1>8. b = Hash[f] % n BY DEF Bucket
<1> HIDE DEF n, b
<1>9. ASSUME NEW i \in 0..n - 1
      PROVE  d.list[i] = {h \in T : Hash[c.handles[h].key] % n = i}
  <2>1. CASE i # b
    <3>1. d.list[i] = c.list[i] BY <2>1, <1>4, <1>1
    <3>2. \A h \in out : h \in S => Hash[c.handles[h].key] % n # i BY <2>1, <1>8 DEF OfFile
    <3>3. \A h \in in : Hash[c.handles[h].key] % n # i BY <2>1, <1>8 DEF OfFile
    <3>4. c.list[i] = {h \in S : Hash[c.handles[h].key] % n = i} BY <1>7
    <3> QED BY <3>1, <3>2, <3>3, <3>4
  <2>2. CASE i = b
    <3>1. d.list[i] = (c.list[i] \ out) \cup in BY <2>2, <1>4, <1>1
    <3>2. \A h \in in : Hash[c.handles[h].key] % n = i BY <2>2, <1>8 DEF OfFile
    <3>4. c.list[i] = {h \in S : Hash[c.handles[h].key] % n = i} BY <1>7
    <3> QED BY <3>1, <3>2, <3>4
  <2> QED BY <2>1, <2>2
<1>12. OneEach(d, T) BY <1>3 DEF OneEach
<1> HIDE DEF T
<1>13. ASSUME NEW i \in 0..Length(d) - 1
       PROVE  d.list[i] = {h \in T : Hash[d.handles[h].key] % Length(d) = i}
  BY <1>3, <1>6, <1>9
<1>14. Length(d) \in Nat \ {0} /\ DOMAIN d.list = 0..Length(d) - 1 BY <1>1, <1>5, <1>6, <1>7
<1>11. TableIs(d, T) BY <1>12, <1>13, <1>14 DEF TableIs
<1> QED BY <1>11 DEF T

(* The shard with one bucket changed.                                      *)
LEMMA BucketSet ==
    ASSUME NEW c, Shaped(c), NEW b, NEW X, NEW d, d = [c EXCEPT !.list[b] = X]
    PROVE  /\ Shaped(d) /\ d.handles = c.handles /\ d.lru = c.lru /\ d.usage = c.usage
           /\ DOMAIN d.list = DOMAIN c.list
           /\ \A i \in DOMAIN c.list : d.list[i] = IF i = b THEN X ELSE c.list[i]
<1>1. d = [handles |-> c.handles, lru |-> c.lru, usage |-> c.usage,
           list |-> [c.list EXCEPT ![b] = X]]
  BY DEF Shaped
<1> QED BY <1>1 DEF Shaped

(* HandleTable::Remove takes out what a lookup finds.                      *)
LEMMA TableRemoveIs ==
    ASSUME NEW c, Shaped(c), NEW S, TableIs(c, S), NULL \notin S, NEW f \in Files,
           NEW d, d = TableRemove(c, f)
    PROVE  /\ Shaped(d) /\ d.handles = c.handles /\ d.lru = c.lru /\ d.usage = c.usage
           /\ TableIs(d, S \ {TableLookup(c, f)})
<1> DEFINE out == {TableLookup(c, f)}
<1>1. OfFile(c, out \cap S, f) BY LookupIs DEF OfFile
<1>2. d = [c EXCEPT !.list[Bucket(c, f)] = c.list[Bucket(c, f)] \ out] BY DEF TableRemove
<1>3. OneEach(c, (S \ out) \cup {}) BY DEF TableIs, OneEach
<1>4. OfFile(c, {}, f) BY DEF OfFile
<1>5. (S \ out) \cup {} = S \ out OBVIOUS
<1> HIDE DEF out
<1>6. /\ Shaped(d) /\ d.handles = c.handles /\ d.lru = c.lru /\ d.usage = c.usage
      /\ DOMAIN d.list = DOMAIN c.list
      /\ \A i \in DOMAIN c.list : d.list[i] = IF i = Bucket(c, f) THEN c.list[Bucket(c, f)] \ out
                                          ELSE c.list[i]
  BY <1>2, BucketSet
<1>7. Rebucketed(c, d, f, out, {}) BY <1>6 DEF Rebucketed
<1>8. TableIs(d, (S \ out) \cup {})
  BY <1>1, <1>3, <1>4, <1>7, BucketChange
<1> QED BY <1>5, <1>6, <1>8 DEF out

(* Resize moves every handle to the bucket it has among more of them.      *)
LEMMA ResizeIs ==
    ASSUME NEW c, Shaped(c), NEW S, TableIs(c, S), Keyed(c, S), IsFiniteSet(S),
           NEW d, d = Resize(c)
    PROVE  /\ Shaped(d) /\ d.handles = c.handles /\ d.lru = c.lru /\ d.usage = c.usage
           /\ TableIs(d, S)
<1> DEFINE K == {k \in 0..Elems(c) : new_length[k] >= Elems(c)}  n == new_length[Min(K)]
<1>1. InTable(c) = S BY InTableIs
<1>2. Elems(c) \in Nat BY <1>1, FS_CardinalityType DEF Elems
<1>3. n \in Nat \ {0}
  <2>1. Elems(c) \in K
    <3>1. new_length[Elems(c)] \in Nat /\ new_length[Elems(c)] > Elems(c) BY <1>2, NewLengthGrows
    <3> QED BY <3>1, <1>2
  <2>2. K \subseteq Nat BY <1>2
  <2>3. Min(K) \in Nat BY <2>1, <2>2, MinIs
  <2> HIDE DEF K
  <2>4. new_length[Min(K)] \in Nat /\ new_length[Min(K)] > Min(K) BY <2>3, NewLengthGrows
  <2> QED BY <2>3, <2>4
<1>4. d = [c EXCEPT !.list = [b \in 0..n - 1 |-> {h \in S : Hash[c.handles[h].key] % n = b}]]
  BY <1>1 DEF Resize
<1> HIDE DEF n, K
<1>5. /\ Shaped(d) /\ d.handles = c.handles /\ d.lru = c.lru /\ d.usage = c.usage
      /\ d.list = [b \in 0..n - 1 |-> {h \in S : Hash[c.handles[h].key] % n = b}]
  BY <1>4 DEF Shaped
<1>6. DOMAIN d.list = 0..n - 1 BY <1>5
<1>7. Length(d) = n
  <2>1. 0 \in Int /\ n - 1 \in Int /\ ~(0 > n - 1) BY <1>3
  <2>2. Cardinality(0..n - 1) = IF 0 > n - 1 THEN 0 ELSE n - 1 - 0 + 1 BY <2>1, FS_Interval
  <2> QED BY <2>1, <2>2, <1>3, <1>6 DEF Length
<1>8. \A b \in 0..n - 1 : d.list[b] = {h \in S : Hash[d.handles[h].key] % n = b} BY <1>5
<1>9. OneEach(d, S) BY <1>5 DEF TableIs, OneEach
<1>10. TableIs(d, S) BY <1>3, <1>6, <1>7, <1>8, <1>9 DEF TableIs
<1> QED BY <1>5, <1>10

(* HandleTable::Insert puts a handle in the place of the one of its key.   *)
LEMMA TableInsertIs ==
    ASSUME NEW c, Shaped(c), NEW S, TableIs(c, S), NULL \notin S, Keyed(c, S), IsFiniteSet(S),
           NEW h, c.handles[h].key \in Files,
           NEW d, d = TableInsert(c, h)
    PROVE  /\ Shaped(d) /\ d.handles = c.handles /\ d.lru = c.lru /\ d.usage = c.usage
           /\ TableIs(d, (S \ {TableLookup(c, c.handles[h].key)}) \cup {h})
<1> DEFINE f == c.handles[h].key  old == TableLookup(c, f)
           with == [c EXCEPT !.list[Bucket(c, f)] = (@ \ {old}) \cup {h}]
           T == (S \ {old}) \cup {h}
<1>1. d = IF old = NULL THEN Grow(with) ELSE with BY DEF TableInsert
<1>2. f \in Files OBVIOUS
<1>3. OfFile(c, {old} \cap S, f) BY LookupIs DEF OfFile
<1>4. OfFile(c, {h}, f) BY DEF OfFile
<1>5. \A x \in S \ {old} : c.handles[x].key # f
  <2>1. CASE \A x \in S : c.handles[x].key # f BY <2>1
  <2>2. CASE old \in S /\ c.handles[old].key = f BY <2>2 DEF TableIs, OneEach
  <2> QED BY <2>1, <2>2, <1>2, LookupIs
<1>6. OneEach(c, T) BY <1>5 DEF TableIs, OneEach
<1>7. /\ Shaped(with) /\ with.handles = c.handles /\ with.lru = c.lru /\ with.usage = c.usage
      /\ TableIs(with, T)
  <2> DEFINE o == {old}  i == {h}
  <2>3. OfFile(c, o \cap S, f) BY <1>3
  <2>4. OfFile(c, i, f) BY <1>4
  <2>5. OneEach(c, (S \ o) \cup i) BY <1>6
  <2>6. with = [c EXCEPT !.list[Bucket(c, f)] = (c.list[Bucket(c, f)] \ o) \cup i] OBVIOUS
  <2>7. T = (S \ o) \cup i OBVIOUS
  <2> HIDE DEF f, old, o, i, with, T
  <2>8. /\ Shaped(with) /\ with.handles = c.handles /\ with.lru = c.lru /\ with.usage = c.usage
        /\ DOMAIN with.list = DOMAIN c.list
        /\ \A x \in DOMAIN c.list :
              with.list[x] = IF x = Bucket(c, f) THEN (c.list[Bucket(c, f)] \ o) \cup i ELSE c.list[x]
    BY <2>6, BucketSet
  <2>9. Rebucketed(c, with, f, o, i) BY <2>8 DEF Rebucketed
  <2>10. TableIs(with, (S \ o) \cup i) BY <1>2, <2>3, <2>4, <2>5, <2>9, BucketChange
  <2> QED BY <2>7, <2>8, <2>10
<1>8. Keyed(with, T) BY <1>2, <1>7 DEF Keyed
<1>9. IsFiniteSet(T)
  <2>1. IsFiniteSet(S \ {old}) BY FS_RemoveElement
  <2> QED BY <2>1, FS_AddElement
<1> HIDE DEF with, T, old, f
<1>10. CASE d = with BY <1>7, <1>10 DEF T, old, f
<1>11. CASE d = Resize(with)
  <2>1. /\ Shaped(d) /\ d.handles = with.handles /\ d.lru = with.lru /\ d.usage = with.usage
        /\ TableIs(d, T)
    BY <1>7, <1>8, <1>9, <1>11, ResizeIs
  <2> QED BY <2>1, <1>7 DEF T, old, f
<1> QED BY <1>1, <1>10, <1>11 DEF Grow

-----------------------------------------------------------------------------
(* The operations of LRUCache.                                             *)

(* Only the keys of its handles place them in the hash table.              *)
LEMMA KeysPlace ==
    ASSUME NEW c, NEW S, TableIs(c, S), NEW d, d.list = c.list,
           \A h \in S : d.handles[h].key = c.handles[h].key
    PROVE  TableIs(d, S)
<1>1. Length(d) = Length(c) BY DEF Length
<1>2. OneEach(d, S) BY DEF TableIs, OneEach
<1>3. \A b \in 0..Length(d) - 1 :
         d.list[b] = {h \in S : Hash[d.handles[h].key] % Length(d) = b}
  BY <1>1 DEF TableIs
<1> QED BY <1>1, <1>2, <1>3 DEF TableIs

(* LRU_Remove takes a handle out of the list.                              *)
LEMMA LRU_RemoveIs ==
    ASSUME NEW c, Shaped(c), NEW X, c.lru \in Seq(X), NEW S, ListIs(c, S), NEW h \in S,
           NEW d, d = LRU_Remove(c, h)
    PROVE  /\ Shaped(d) /\ d.handles = c.handles /\ d.list = c.list /\ d.usage = c.usage
           /\ d.lru \in Seq(X) /\ ListIs(d, S \ {h})
<1>1. Place(c, h) \in DOMAIN c.lru /\ c.lru[Place(c, h)] = h BY DEF Place, ListIs, Range
<1>2. /\ RemoveAt(c.lru, Place(c, h)) \in Seq(X) /\ Once(RemoveAt(c.lru, Place(c, h)))
      /\ Range(RemoveAt(c.lru, Place(c, h))) = S \ {h}
  BY <1>1, OnceRemove DEF ListIs
<1>3. d = [handles |-> c.handles, lru |-> RemoveAt(c.lru, Place(c, h)), usage |-> c.usage,
           list |-> c.list]
  BY DEF Shaped, LRU_Remove
<1> QED BY <1>2, <1>3 DEF Shaped, ListIs

(* LRU_Append puts a handle at its end.                                    *)
LEMMA LRU_AppendIs ==
    ASSUME NEW c, Shaped(c), NEW X, c.lru \in Seq(X), NEW S, ListIs(c, S), NEW h \in X,
           h \notin S, NEW d, d = LRU_Append(c, h)
    PROVE  /\ Shaped(d) /\ d.handles = c.handles /\ d.list = c.list /\ d.usage = c.usage
           /\ d.lru \in Seq(X) /\ ListIs(d, S \cup {h})
<1>1. /\ Append(c.lru, h) \in Seq(X) /\ Once(Append(c.lru, h))
      /\ Range(Append(c.lru, h)) = S \cup {h}
  <2>1. PICK s : s = c.lru OBVIOUS
  <2>2. s \in Seq(X) /\ Once(s) /\ Range(s) = S /\ h \notin Range(s) BY <2>1 DEF ListIs
  <2>3. Append(s, h) \in Seq(X) /\ Once(Append(s, h)) /\ Range(Append(s, h)) = Range(s) \cup {h}
    BY <2>2, OnceAppend
  <2> QED BY <2>1, <2>2, <2>3
<1>2. d = [handles |-> c.handles, lru |-> Append(c.lru, h), usage |-> c.usage, list |-> c.list]
  BY DEF Shaped, LRU_Append
<1> QED BY <1>1, <1>2 DEF Shaped, ListIs

(* The handles of c, but for the references of h.                          *)
WithRefs(c, h, refs) == [c.handles EXCEPT ![h].refs = refs]

(* They differ in nothing else.                                            *)
LEMMA WithRefsType ==
    ASSUME NEW c, NEW n, ShardType(c, n), NEW h \in DOMAIN c.handles, NEW refs \in Nat \ {0},
           NEW H, H = WithRefs(c, h, refs)
    PROVE  /\ DOMAIN H = DOMAIN c.handles /\ H \in [DOMAIN c.handles -> Handle]
           /\ \A x \in DOMAIN H : /\ H[x].key = c.handles[x].key /\ H[x].file = c.handles[x].file
                                 /\ H[x].refs = IF x = h THEN refs ELSE c.handles[x].refs
<1>1. c.handles \in [DOMAIN c.handles -> Handle] BY DEF ShardType
<1> QED BY <1>1 DEF WithRefs, Handle

(* LRUCache::Lookup: a hit is the newest, with a reference more.           *)
LEMMA LookupHandleIs ==
    ASSUME NEW c, NEW n, NEW S, Consistent(c, n, S), NEW h \in S, NEW d, d = LookupHandle(c, h)
    PROVE  /\ Consistent(d, n, S) /\ d.usage = c.usage
           /\ d.handles = WithRefs(c, h, c.handles[h].refs + 1)
<1> DEFINE r == c.handles[h].refs + 1
           a == [c EXCEPT !.handles[h].refs = @ + 1]
           b == LRU_Remove(a, h)
<1>1. h \in DOMAIN c.handles /\ Shaped(c) BY DEF Consistent, ShardType
<1>2. r \in Nat \ {0} BY <1>1 DEF Consistent, ShardType, Handle
<1>3. a = [handles |-> WithRefs(c, h, r), lru |-> c.lru, usage |-> c.usage, list |-> c.list]
  BY <1>1 DEF Shaped, WithRefs
<1>4. /\ Shaped(a) /\ a.handles = WithRefs(c, h, r) /\ a.lru = c.lru /\ a.usage = c.usage
      /\ a.list = c.list
  BY <1>3 DEF Shaped
<1>5. d = LRU_Append(b, h) BY DEF LookupHandle
<1> HIDE DEF a, b, r
<1>6. /\ Shaped(b) /\ b.handles = a.handles /\ b.list = a.list /\ b.usage = a.usage
      /\ b.lru \in Seq(1..n) /\ ListIs(b, S \ {h})
  <2>1. a.lru \in Seq(1..n) /\ ListIs(a, S) BY <1>4 DEF Consistent, ShardType, ListIs
  <2> QED BY <2>1, <1>4, LRU_RemoveIs DEF b
<1>7. /\ Shaped(d) /\ d.handles = b.handles /\ d.list = b.list /\ d.usage = b.usage
      /\ d.lru \in Seq(1..n) /\ ListIs(d, (S \ {h}) \cup {h})
  <2>1. h \in 1..n /\ h \notin S \ {h} BY <1>1 DEF Consistent, ShardType
  <2> QED BY <2>1, <1>5, <1>6, LRU_AppendIs
<1>8. (S \ {h}) \cup {h} = S OBVIOUS
<1>9. /\ DOMAIN d.handles = DOMAIN c.handles /\ d.handles \in [DOMAIN c.handles -> Handle]
      /\ \A x \in DOMAIN d.handles : d.handles[x].key = c.handles[x].key
  <2>1. ShardType(c, n) BY DEF Consistent
  <2> QED BY <2>1, <1>1, <1>2, <1>4, <1>6, <1>7, WithRefsType
<1>10. ShardType(d, n) BY <1>4, <1>6, <1>7, <1>9 DEF Consistent, ShardType
<1>11. TableIs(d, S) BY <1>4, <1>6, <1>7, <1>9, KeysPlace DEF Consistent
<1> QED BY <1>4, <1>6, <1>7, <1>8, <1>9, <1>10, <1>11 DEF Consistent, r

(* What LRUCache::Unref makes of the handles and the usage of c.           *)
Unreffed(c, h, handles, usage) ==
    IF c.handles[h].refs > 1
    THEN handles = WithRefs(c, h, c.handles[h].refs - 1) /\ usage = c.usage
    ELSE /\ handles = Restrict(c.handles, DOMAIN c.handles \ {h})
         /\ usage = c.usage - Charge[c.handles[h].key]

(* LRUCache::Unref leaves the table and the list alone.                    *)
LEMMA UnrefHandleIs ==
    ASSUME NEW c, NEW n, NEW S, Consistent(c, n, S), NEW h \in DOMAIN c.handles,
           h \notin S \/ c.handles[h].refs > 1, NEW d, d = UnrefHandle(c, h)
    PROVE  Consistent(d, n, S) /\ Unreffed(c, h, d.handles, d.usage)
<1>1. /\ ShardType(c, n) /\ Shaped(c) /\ c.handles[h].refs \in Nat /\ c.handles[h].key \in Files
      /\ c.usage \in Int
  BY DEF Consistent, ShardType, Handle
<1>2. CASE c.handles[h].refs > 1
  <2> DEFINE r == c.handles[h].refs - 1
  <2>1. d = [handles |-> WithRefs(c, h, r), lru |-> c.lru, usage |-> c.usage, list |-> c.list]
    BY <1>1, <1>2 DEF UnrefHandle, Shaped, WithRefs
  <2>2. /\ Shaped(d) /\ d.handles = WithRefs(c, h, r) /\ d.lru = c.lru /\ d.usage = c.usage
        /\ d.list = c.list
    BY <2>1 DEF Shaped
  <2>3. r \in Nat \ {0} BY <1>1, <1>2
  <2> HIDE DEF r
  <2>4. /\ DOMAIN d.handles = DOMAIN c.handles /\ d.handles \in [DOMAIN c.handles -> Handle]
        /\ \A x \in DOMAIN d.handles : d.handles[x].key = c.handles[x].key
    BY <1>1, <2>2, <2>3, WithRefsType
  <2>5. ShardType(d, n) BY <1>1, <2>2, <2>4 DEF ShardType
  <2>6. TableIs(d, S) BY <2>2, <2>4, KeysPlace DEF Consistent
  <2> QED BY <1>2, <2>2, <2>4, <2>5, <2>6 DEF Consistent, ListIs, Unreffed, r
<1>3. CASE ~(c.handles[h].refs > 1)
  <2> DEFINE H == Restrict(c.handles, DOMAIN c.handles \ {h})
             u == c.usage - Charge[c.handles[h].key]
  <2>1. d = [handles |-> H, lru |-> c.lru, usage |-> u, list |-> c.list]
    BY <1>1, <1>3 DEF UnrefHandle, Shaped
  <2>2. Shaped(d) /\ d.handles = H /\ d.lru = c.lru /\ d.usage = u /\ d.list = c.list
    BY <2>1 DEF Shaped
  <2>3. u \in Int
    <3>1. PICK e : e = Charge[c.handles[h].key] OBVIOUS
    <3>2. e \in Nat BY <1>1, <3>1, CacheAssumption
    <3> QED BY <1>1, <3>1, <3>2
  <2>4. /\ DOMAIN d.handles = DOMAIN c.handles \ {h}
        /\ d.handles \in [DOMAIN d.handles -> Handle]
        /\ \A x \in DOMAIN d.handles : d.handles[x] = c.handles[x]
    BY <1>1, <2>2 DEF Restrict, ShardType
  <2> HIDE DEF H, u
  <2>5. ShardType(d, n) BY <1>1, <2>2, <2>3, <2>4 DEF ShardType
  <2>6. S \subseteq DOMAIN d.handles BY <1>3, <2>4 DEF Consistent
  <2>7. TableIs(d, S) BY <2>2, <2>4, <2>6, KeysPlace DEF Consistent
  <2> QED BY <1>3, <2>2, <2>5, <2>6, <2>7 DEF Consistent, ListIs, Unreffed, H, u
<1> QED BY <1>2, <1>3

(* What Consistent says of the handles of the table.                       *)
LEMMA TableHandles ==
    ASSUME NEW c, NEW n \in Nat, NEW S, Consistent(c, n, S)
    PROVE  /\ S \subseteq 1..n /\ NULL \notin S /\ IsFiniteSet(S) /\ Keyed(c, S) /\ Keyed(c, DOMAIN c.handles)
           /\ Shaped(c) /\ c.lru \in Seq(1..n) /\ InTable(c) = S /\ DOMAIN c.handles \subseteq 1..n
<1>1. S \subseteq 1..n BY DEF Consistent, ShardType
<1>2. IsFiniteSet(S)
  <2>1. IsFiniteSet(1..n)
    <3>1. 1 \in Int /\ n \in Int OBVIOUS
    <3> QED BY <3>1, FS_Interval
  <2>2. S \in SUBSET (1..n) BY <1>1
  <2> QED BY <2>1, <2>2, FS_Subset
<1>3. Keyed(c, DOMAIN c.handles) BY DEF Consistent, ShardType, Keyed, Handle
<1>4. Keyed(c, S) BY <1>3 DEF Consistent, Keyed
<1>5. InTable(c) = S BY <1>4, InTableIs DEF Consistent
<1>6. NULL \notin S BY <1>1 DEF NULL
<1> QED BY <1>1, <1>2, <1>3, <1>4, <1>5, <1>6 DEF Consistent, ShardType

(* An entry that is taken out of both and then given up.                   *)
LEMMA Dropped ==
    ASSUME NEW c, NEW n, NEW S, Consistent(c, n, S), NEW h \in S,
           NEW m, Shaped(m), m.handles = c.handles, m.usage = c.usage, m.lru \in Seq(1..n),
           TableIs(m, S \ {h}), ListIs(m, S \ {h}), NEW d, d = UnrefHandle(m, h)
    PROVE  Consistent(d, n, S \ {h}) /\ Unreffed(c, h, d.handles, d.usage)
<1>1. Consistent(m, n, S \ {h}) BY DEF Consistent, ShardType
<1>2. h \in DOMAIN m.handles /\ h \notin S \ {h} BY DEF Consistent
<1>3. Consistent(d, n, S \ {h}) /\ Unreffed(m, h, d.handles, d.usage) BY <1>1, <1>2, UnrefHandleIs
<1> QED BY <1>3 DEF Unreffed, WithRefs

(* LRUCache::Erase.                                                        *)
LEMMA EraseKeyIs ==
    ASSUME NEW c, NEW n \in Nat, NEW S, Consistent(c, n, S), NEW f \in Files,
           NEW d, d = EraseKey(c, f)
    PROVE  \/ d = c
           \/ \E h \in S : Consistent(d, n, S \ {h}) /\ Unreffed(c, h, d.handles, d.usage)
<1>1. CASE TableLookup(c, f) = NULL BY <1>1 DEF EraseKey
<1>2. CASE TableLookup(c, f) # NULL
  <2>1. PICK h : h = TableLookup(c, f) OBVIOUS
  <2>2. h \in S BY <1>2, <2>1, LookupIs DEF Consistent
  <2>3. PICK a : a = TableRemove(c, f) OBVIOUS
  <2>4. /\ Shaped(a) /\ a.handles = c.handles /\ a.lru = c.lru /\ a.usage = c.usage
        /\ TableIs(a, S \ {h})
    BY <2>1, <2>3, TableHandles, TableRemoveIs DEF Consistent
  <2>5. PICK m : m = LRU_Remove(a, h) OBVIOUS
  <2>6. a.lru \in Seq(1..n) /\ ListIs(a, S) BY <2>4, TableHandles DEF Consistent, ListIs
  <2>7. /\ Shaped(m) /\ m.handles = a.handles /\ m.list = a.list /\ m.usage = a.usage
        /\ m.lru \in Seq(1..n) /\ ListIs(m, S \ {h})
    BY <2>2, <2>4, <2>5, <2>6, LRU_RemoveIs
  <2>8. TableIs(m, S \ {h}) BY <2>4, <2>7, KeysPlace
  <2>9. d = UnrefHandle(m, h) BY <1>2, <2>1, <2>3, <2>5 DEF EraseKey
  <2>10. m.handles = c.handles /\ m.usage = c.usage BY <2>4, <2>7
  <2>11. Consistent(d, n, S \ {h}) /\ Unreffed(c, h, d.handles, d.usage)
    BY <2>2, <2>7, <2>8, <2>9, <2>10, Dropped
  <2> QED BY <2>2, <2>11
<1> QED BY <1>1, <1>2

(* A round of the loop of LRUCache::Insert.                                *)
LEMMA EvictHandleIs ==
    ASSUME NEW c, NEW n \in Nat, NEW S, Consistent(c, n, S), c.lru # <<>>,
           NEW d, d = EvictHandle(c)
    PROVE  \E h \in S : Consistent(d, n, S \ {h}) /\ Unreffed(c, h, d.handles, d.usage)
<1>1. PICK h : h = Oldest(c) OBVIOUS
<1>2. h \in S
  <2>1. c.lru \in Seq(1..n) BY TableHandles
  <2>2. 1 \in DOMAIN c.lru /\ h = c.lru[1] BY <2>1, <1>1 DEF Oldest
  <2> QED BY <2>2 DEF Consistent, ListIs, Range
<1>3. PICK a : a = LRU_Remove(c, h) OBVIOUS
<1>4. /\ Shaped(a) /\ a.handles = c.handles /\ a.list = c.list /\ a.usage = c.usage
      /\ a.lru \in Seq(1..n) /\ ListIs(a, S \ {h})
  <2>1. Shaped(c) /\ c.lru \in Seq(1..n) /\ ListIs(c, S) BY TableHandles DEF Consistent
  <2> QED BY <2>1, <1>2, <1>3, LRU_RemoveIs
<1>5. PICK f : f = c.handles[h].key OBVIOUS
<1>6. f \in Files BY <1>2, <1>5, TableHandles DEF Keyed
<1>7. TableIs(a, S) BY <1>4, KeysPlace DEF Consistent
<1>8. TableLookup(a, f) = h
  <2>1. OneEach(a, S) BY <1>7 DEF TableIs
  <2> QED BY <2>1, <1>2, <1>4, <1>5, <1>6, <1>7, LookupIs DEF OneEach
<1>9. PICK m : m = TableRemove(a, f) OBVIOUS
<1>10. /\ Shaped(m) /\ m.handles = a.handles /\ m.lru = a.lru /\ m.usage = a.usage
       /\ TableIs(m, S \ {h})
  BY <1>4, <1>6, <1>7, <1>8, <1>9, TableHandles, TableRemoveIs
<1>11. ListIs(m, S \ {h}) BY <1>4, <1>10 DEF ListIs
<1>12. d = UnrefHandle(m, h) BY <1>1, <1>3, <1>5, <1>9 DEF EvictHandle
<1>13. m.handles = c.handles /\ m.usage = c.usage /\ m.lru \in Seq(1..n) BY <1>4, <1>10
<1>14. Consistent(d, n, S \ {h}) /\ Unreffed(c, h, d.handles, d.usage)
  BY <1>2, <1>10, <1>11, <1>12, <1>13, Dropped
<1> QED BY <1>2, <1>14

(* The handles of c and a new one.                                         *)
WithNew(c, h, f, raf) ==
    [x \in DOMAIN c.handles \cup {h} |->
        IF x = h THEN [key |-> f, refs |-> 2, file |-> raf] ELSE c.handles[x]]

(* LRUCache::Insert up to its loop, of a handle that is new.               *)
LEMMA InsertHandleIs ==
    ASSUME NEW c, NEW n \in Nat, NEW S, Consistent(c, n, S), NEW f \in Files, NEW raf \in Raf,
           NEW h, h = n + 1, NEW d, d = InsertHandle(c, h, f, raf),
           NEW N, N = WithNew(c, h, f, raf),
           NEW u, u = c.usage + Charge[f]
    PROVE  \/ /\ Consistent(d, h, S \cup {h})
              /\ d.handles = N /\ d.usage = u
           \/ \E old \in S :
                 /\ Consistent(d, h, (S \ {old}) \cup {h})
                 /\ Unreffed([handles |-> N, usage |-> u], old, d.handles, d.usage)
<1> DEFINE T == S \cup {h}  old == TableLookup(c, f)
           new == [c EXCEPT !.handles = [x \in DOMAIN @ \cup {h} |->
                                          IF x = h THEN [key |-> f, refs |-> 2, file |-> raf] ELSE @[x]],
                            !.usage = @ + Charge[f]]
           a == LRU_Append(new, h)
           w == TableInsert(a, h)
           m == LRU_Remove(w, old)
<1>0. /\ h \in Nat \ {0} /\ h \in 1..h /\ h \notin 1..n /\ 1..n \subseteq 1..h /\ h # NULL
  BY DEF NULL
<1>1. /\ S \subseteq 1..n /\ NULL \notin S /\ IsFiniteSet(S) /\ Keyed(c, S) /\ Shaped(c)
      /\ c.lru \in Seq(1..n) /\ DOMAIN c.handles \subseteq 1..n /\ S \subseteq DOMAIN c.handles
      /\ c.handles \in [DOMAIN c.handles -> Handle] /\ c.usage \in Int
      /\ TableIs(c, S) /\ ListIs(c, S)
  BY TableHandles DEF Consistent, ShardType
<1>2. new = [handles |-> N, lru |-> c.lru, usage |-> u, list |-> c.list]
  <2>1. new = [c EXCEPT !.handles = N, !.usage = u] BY DEF WithNew
  <2> HIDE DEF new
  <2> QED BY <2>1, <1>1 DEF Shaped
<1>3. d = IF old = NULL THEN w ELSE UnrefHandle(m, old) BY DEF InsertHandle
<1> HIDE DEF new, a, w, m, old
<1>4. /\ Shaped(new) /\ new.handles = N /\ new.lru = c.lru /\ new.usage = u /\ new.list = c.list
  BY <1>2 DEF Shaped
<1>5. /\ DOMAIN N = DOMAIN c.handles \cup {h} /\ N[h] = [key |-> f, refs |-> 2, file |-> raf]
      /\ \A x \in DOMAIN c.handles : N[x] = c.handles[x]
  BY <1>0, <1>1 DEF WithNew
<1>6. N \in [DOMAIN N -> Handle]
  <2>1. [key |-> f, refs |-> 2, file |-> raf] \in Handle BY DEF Handle
  <2>2. \A x \in DOMAIN N : N[x] \in Handle BY <2>1, <1>1, <1>5
  <2>3. N = [x \in DOMAIN N |-> N[x]] BY DEF WithNew
  <2> QED BY <2>2, <2>3
<1>7. u \in Int
  <2>1. PICK e : e = Charge[f] OBVIOUS
  <2>2. e \in Nat BY <2>1, CacheAssumption
  <2> QED BY <1>1, <2>1, <2>2
<1>8. c.lru \in Seq(1..h) BY <1>0, <1>1
<1>9. /\ Shaped(a) /\ a.handles = N /\ a.list = c.list /\ a.usage = u
      /\ a.lru \in Seq(1..h) /\ ListIs(a, T)
  <2>1. h \notin S BY <1>0, <1>1
  <2>2. ListIs(new, S) /\ new.lru \in Seq(1..h) BY <1>1, <1>4, <1>8 DEF ListIs
  <2>3. PICK e : e = a OBVIOUS
  <2>4. e = LRU_Append(new, h) BY <2>3 DEF a
  <2>5. /\ Shaped(e) /\ e.handles = new.handles /\ e.list = new.list /\ e.usage = new.usage
        /\ e.lru \in Seq(1..h) /\ ListIs(e, S \cup {h})
    <3>1. PICK X : X = 1..h OBVIOUS
    <3>2. Shaped(new) /\ new.lru \in Seq(X) /\ ListIs(new, S) /\ h \in X /\ h \notin S
      BY <3>1, <2>1, <2>2, <1>0, <1>4
    <3> HIDE DEF T
    <3>3. /\ Shaped(e) /\ e.handles = new.handles /\ e.list = new.list /\ e.usage = new.usage
          /\ e.lru \in Seq(X) /\ ListIs(e, S \cup {h})
      BY ONLY <3>2, <2>4, LRU_AppendIs
    <3> QED BY <3>1, <3>3
  <2> QED BY <2>3, <2>5, <1>4
<1>10. TableIs(a, S) /\ Keyed(a, S)
  <2>1. \A x \in S : a.handles[x].key = c.handles[x].key BY <1>1, <1>5, <1>9
  <2> QED BY <2>1, <1>1, <1>9, KeysPlace DEF Keyed
<1>11. a.handles[h].key = f BY <1>5, <1>9
<1>12. TableLookup(a, f) = old
  <2>1. \A x \in S : a.handles[x].key = c.handles[x].key BY <1>1, <1>5, <1>9
  <2>2. OneEach(a, S) BY <1>10 DEF TableIs
  <2>3. \/ old = NULL /\ \A x \in S : c.handles[x].key # f
        \/ old \in S /\ c.handles[old].key = f
    BY <1>1, LookupIs DEF old
  <2>4. \/ TableLookup(a, f) = NULL /\ \A x \in S : a.handles[x].key # f
        \/ TableLookup(a, f) \in S /\ a.handles[TableLookup(a, f)].key = f
    BY <1>10, LookupIs
  <2> QED BY <2>1, <2>2, <2>3, <2>4 DEF OneEach
<1>13. /\ Shaped(w) /\ w.handles = N /\ w.lru = a.lru /\ w.usage = u
       /\ TableIs(w, (S \ {old}) \cup {h})
  <2>1. PICK v : v = w OBVIOUS
  <2>2. /\ Shaped(v) /\ v.handles = a.handles /\ v.lru = a.lru /\ v.usage = a.usage
        /\ TableIs(v, (S \ {TableLookup(a, a.handles[h].key)}) \cup {h})
    <3>1. v = TableInsert(a, h) BY <2>1 DEF w
    <3>2. a.handles[h].key \in Files BY <1>11
    <3>3. Shaped(a) /\ TableIs(a, S) /\ NULL \notin S /\ Keyed(a, S) /\ IsFiniteSet(S)
      BY <1>1, <1>9, <1>10
    <3> HIDE DEF T
    <3> QED BY ONLY <3>1, <3>2, <3>3, TableInsertIs
  <2> QED BY <2>1, <2>2, <1>9, <1>11, <1>12
<1>14. CASE old = NULL
  <2>1. (S \ {old}) \cup {h} = T BY <1>1, <1>14
  <2>2. d = w BY <1>3, <1>14
  <2>3. ListIs(d, T) /\ d.lru \in Seq(1..h) BY <2>2, <1>9, <1>13 DEF ListIs
  <2>4. ShardType(d, h)
    <3>1. DOMAIN N \subseteq 1..h BY <1>0, <1>1, <1>5
    <3>2. Shaped(d) /\ d.handles = N /\ d.usage = u BY <2>2, <1>13
    <3> QED BY ONLY <3>1, <3>2, <2>3, <1>6, <1>7 DEF ShardType
  <2>5. T \subseteq DOMAIN d.handles BY <2>2, <1>1, <1>5, <1>13
  <2>6. Consistent(d, h, T) BY <2>1, <2>2, <2>3, <2>4, <2>5, <1>13 DEF Consistent
  <2> QED BY <2>2, <2>6, <1>13
<1>15. CASE old # NULL
  <2> DEFINE R == (S \ {old}) \cup {h}
  <2>1. old \in S BY <1>1, <1>15, LookupIs DEF old
  <2>2. old # h BY <2>1, <1>0, <1>1
  <2>3. /\ Shaped(m) /\ m.handles = N /\ m.list = w.list /\ m.usage = u
        /\ m.lru \in Seq(1..h) /\ ListIs(m, T \ {old})
    <3>1. ListIs(w, T) /\ w.lru \in Seq(1..h) /\ old \in T BY <2>1, <1>9, <1>13 DEF ListIs
    <3>2. /\ Shaped(m) /\ m.handles = w.handles /\ m.list = w.list /\ m.usage = w.usage
          /\ m.lru \in Seq(1..h) /\ ListIs(m, T \ {old})
      BY <3>1, <1>13, LRU_RemoveIs DEF m
    <3> QED BY <3>2, <1>13
  <2>4. T \ {old} = R BY <2>2
  <2>5. TableIs(m, R) BY <2>3, <1>13, KeysPlace
  <2>6. R \subseteq DOMAIN N BY <1>1, <1>5
  <2>7. ShardType(m, h) BY <2>3, <1>0, <1>1, <1>5, <1>6, <1>7 DEF ShardType
  <2>8. Consistent(m, h, R) BY <2>3, <2>4, <2>5, <2>6, <2>7 DEF Consistent
  <2>9. old \in DOMAIN m.handles /\ old \notin R BY <2>1, <2>2, <2>3, <1>1, <1>5
  <2>10. d = UnrefHandle(m, old) BY <1>3, <1>15
  <2> HIDE DEF R
  <2>11. Consistent(d, h, R) /\ Unreffed(m, old, d.handles, d.usage)
    BY <2>8, <2>9, <2>10, UnrefHandleIs
  <2>12. Unreffed([handles |-> N, usage |-> u], old, d.handles, d.usage)
    BY <2>3, <2>11 DEF Unreffed, WithRefs
  <2> QED BY <2>1, <2>11, <2>12 DEF R
<1> QED BY <1>14, <1>15

-----------------------------------------------------------------------------
(* The environment.                                                        *)

(* Closing a file gives a slot back if it was mapped, and changes nothing  *)
(* else that is counted.                                                   *)
LEMMA CloseFileIs ==
    ASSUME NEW e, EnvType(e), NEW raf, NEW d, d = CloseFile(e, raf)
    PROVE  /\ EnvType(d) /\ d.kind = e.kind /\ d.file_map = e.file_map
           /\ e.kind = "posix" => d.allowed = IF raf.mapped THEN e.allowed + 1 ELSE e.allowed
<1>1. e = [kind |-> e.kind, file_map |-> e.file_map, states |-> e.states, allowed |-> e.allowed]
      /\ e.allowed \in Nat
  BY DEF EnvType
<1>2. CASE e.kind = "mem"
  <2>1. PICK st : d = [e EXCEPT !.states = st]
    <3>1. CASE e.states[raf.state].refs > 1 BY <1>2, <3>1 DEF CloseFile, Unref
    <3>2. CASE ~(e.states[raf.state].refs > 1) BY <1>2, <3>2 DEF CloseFile, Unref
    <3> QED BY <3>1, <3>2
  <2>2. d = [kind |-> e.kind, file_map |-> e.file_map, states |-> st, allowed |-> e.allowed]
    BY <1>1, <2>1
  <2> QED BY <1>2, <2>2 DEF EnvType
<1>3. CASE e.kind # "mem" /\ raf.mapped
  <2>1. d = [kind |-> e.kind, file_map |-> e.file_map, states |-> e.states, allowed |-> e.allowed + 1]
    BY <1>1, <1>3 DEF CloseFile
  <2> QED BY <1>1, <1>3, <2>1 DEF EnvType
<1>4. CASE e.kind # "mem" /\ ~raf.mapped BY <1>4 DEF CloseFile
<1> QED BY <1>2, <1>3, <1>4

(* What a change of the cache does to the environment.                     *)
LEMMA BecomesIs ==
    ASSUME NEW c, CacheBecomes(c), EnvType(env)
    PROVE  /\ cache' = c /\ EnvType(env') /\ env'.kind = env.kind
           /\ env'.file_map = env.file_map
<1> DEFINE freed == DOMAIN cache.handles \ DOMAIN c.handles
<1>1. cache' = c BY DEF CacheBecomes
<1>2. CASE freed = {} BY <1>1, <1>2 DEF CacheBecomes
<1>3. CASE freed # {}
  <2>1. PICK h \in freed : env' = CloseFile(env, cache.handles[h].file) BY <1>3 DEF CacheBecomes
  <2> QED BY <1>1, <2>1, CloseFileIs
<1> QED BY <1>2, <1>3

(* A reference to a file.                                                  *)
LEMMA RefIs ==
    ASSUME NEW e, EnvType(e), NEW s, NEW d, d = Ref(e, s)
    PROVE  EnvType(d) /\ d.kind = e.kind /\ d.file_map = e.file_map /\ d.allowed = e.allowed
<1>1. e = [kind |-> e.kind, file_map |-> e.file_map, states |-> e.states, allowed |-> e.allowed]
  BY DEF EnvType
<1>2. PICK st : d = [e EXCEPT !.states = st] BY <1>1 DEF Ref
<1>3. d = [kind |-> e.kind, file_map |-> e.file_map, states |-> st, allowed |-> e.allowed]
  BY <1>1, <1>2
<1> QED BY <1>3 DEF EnvType

(* Slots taken and given back.                                             *)
LEMMA SlotsType ==
    ASSUME NEW e, EnvType(e), NEW k \in Nat, NEW d, d = [e EXCEPT !.allowed = k]
    PROVE  EnvType(d) /\ d.kind = e.kind /\ d.allowed = k
<1>1. e = [kind |-> e.kind, file_map |-> e.file_map, states |-> e.states, allowed |-> e.allowed]
  BY DEF EnvType
<1>2. d = [kind |-> e.kind, file_map |-> e.file_map, states |-> e.states, allowed |-> k]
  BY <1>1
<1> QED BY <1>2 DEF EnvType

(* Names and their files.                                                  *)
LEMMA MapChange ==
    ASSUME NEW m, m \in [DOMAIN m -> Nat], NEW f, NEW s \in Nat
    PROVE  /\ Without(m, f) \in [DOMAIN Without(m, f) -> Nat]
           /\ With(m, f, s) \in [DOMAIN With(m, f, s) -> Nat]
<1>1. Without(m, f) \in [DOMAIN Without(m, f) -> Nat] BY DEF Without, Restrict
<1>2. With(m, f, s) \in [DOMAIN With(m, f, s) -> Nat] BY DEF With
<1> QED BY <1>1, <1>2

(* DeleteFileInternal takes no slot.                                       *)
LEMMA DeleteInternalIs ==
    ASSUME NEW e, EnvType(e), NEW f, NEW d, d = DeleteFileInternal(e, f)
    PROVE  EnvType(d) /\ d.kind = e.kind /\ d.allowed = e.allowed
<1> DEFINE m == Without(e.file_map, f)  u == [e EXCEPT !.file_map = m]
<1>1. m \in [DOMAIN m -> Nat] BY MapChange DEF EnvType
<1>2. e = [kind |-> e.kind, file_map |-> e.file_map, states |-> e.states, allowed |-> e.allowed]
  BY DEF EnvType
<1> HIDE DEF m
<1>3. CASE f \notin DOMAIN e.file_map BY <1>3 DEF DeleteFileInternal
<1>4. CASE f \in DOMAIN e.file_map
  <2>1. d = IF e.kind = "mem" THEN Unref(u, e.file_map[f]) ELSE u BY <1>4 DEF DeleteFileInternal, m
  <2>2. u = [kind |-> e.kind, file_map |-> m, states |-> e.states, allowed |-> e.allowed] BY <1>2
  <2> HIDE DEF u
  <2>3. PICK st : d = [u EXCEPT !.states = st]
    <3>1. CASE d = u
      <4>1. u = [u EXCEPT !.states = u.states] BY <2>2
      <4> QED BY <4>1, <3>1
    <3>2. CASE d = Unref(u, e.file_map[f]) BY <3>2 DEF Unref
    <3> QED BY <2>1, <3>1, <3>2
  <2>4. d = [kind |-> e.kind, file_map |-> m, states |-> st, allowed |-> e.allowed] BY <2>2, <2>3
  <2> QED BY <1>1, <2>4 DEF EnvType
<1> QED BY <1>3, <1>4

(* Neither does a new file.                                                *)
LEMMA WriteFileIs ==
    ASSUME NEW e, EnvType(e), NEW f, NEW s \in Nat, NEW pieces, NEW d, d = WriteFile(e, f, s, pieces)
    PROVE  EnvType(d) /\ d.kind = e.kind /\ d.allowed = e.allowed
<1>1. PICK u : u = DeleteFileInternal(e, f) OBVIOUS
<1>2. EnvType(u) /\ u.kind = e.kind /\ u.allowed = e.allowed BY <1>1, DeleteInternalIs
<1>3. PICK m : m = With(u.file_map, f, s) OBVIOUS
<1>4. m \in [DOMAIN m -> Nat] BY <1>2, <1>3, MapChange DEF EnvType
<1>5. u = [kind |-> u.kind, file_map |-> u.file_map, states |-> u.states, allowed |-> u.allowed]
  BY <1>2 DEF EnvType
<1>6. PICK st : d = [kind |-> u.kind, file_map |-> m, states |-> st, allowed |-> u.allowed]
  <2>1. PICK ws : ws = With(u.states, s, WrittenState(pieces)) OBVIOUS
  <2>2. d = IF e.kind = "mem" THEN [[u EXCEPT !.file_map = m] EXCEPT !.states = ws]
            ELSE [u EXCEPT !.file_map = m]
    BY <1>1, <1>3, <1>5, <2>1 DEF WriteFile
  <2> QED BY <1>5, <2>2
<1> QED BY <1>2, <1>4, <1>6 DEF EnvType

(* Nor does a name that moves.                                             *)
LEMMA RenameToIs ==
    ASSUME NEW e, EnvType(e), NEW src \in DOMAIN e.file_map, NEW target, NEW d,
           d = RenameTo(e, src, target)
    PROVE  EnvType(d) /\ d.kind = e.kind /\ d.allowed = e.allowed
<1>1. PICK u : u = DeleteFileInternal(e, target) OBVIOUS
<1>2. EnvType(u) /\ u.kind = e.kind /\ u.allowed = e.allowed BY <1>1, DeleteInternalIs
<1>3. PICK m : m = With(Without(u.file_map, src), target, e.file_map[src]) OBVIOUS
<1>4. m \in [DOMAIN m -> Nat]
  <2>1. e.file_map[src] \in Nat BY DEF EnvType
  <2>2. Without(u.file_map, src) \in [DOMAIN Without(u.file_map, src) -> Nat]
    BY <1>2, <2>1, MapChange DEF EnvType
  <2> QED BY <1>3, <2>1, <2>2, MapChange
<1>5. d = [u EXCEPT !.file_map = m] BY <1>1, <1>3 DEF RenameTo
<1>6. u = [kind |-> u.kind, file_map |-> u.file_map, states |-> u.states, allowed |-> u.allowed]
  BY <1>2 DEF EnvType
<1>7. d = [kind |-> u.kind, file_map |-> m, states |-> u.states, allowed |-> u.allowed]
  BY <1>5, <1>6
<1> QED BY <1>2, <1>4, <1>7 DEF EnvType

(* A change of names is no concern of the cache.                           *)
LEMMA NamesChange ==
    ASSUME TypeInv,
           \E f \in Files : DeleteFile(f) \/ NewWritableFile(f) \/ \E g \in Files : RenameFile(f, g)
    PROVE  /\ UNCHANGED <<cache, inserts, thread>> /\ names' \in Nat
           /\ EnvType(env') /\ env'.kind = env.kind /\ env'.allowed = env.allowed
<1>1. EnvType(env) /\ names \in Nat BY DEF TypeInv
<1>2. CASE \E f \in Files : DeleteFile(f)
  BY <1>1, <1>2, DeleteInternalIs DEF DeleteFile, ChangeNames
<1>3. CASE \E f \in Files : NewWritableFile(f)
  <2>1. PICK f \in Files : NewWritableFile(f) BY <1>3
  <2>2. PICK s : s = Max(Files) + names + 1 OBVIOUS
  <2>3. Max(Files) \in Nat
    <3>1. Files \subseteq Nat /\ IsFiniteSet(Files) /\ Files # {} BY CacheAssumption
    <3> QED BY <3>1, MaxIs
  <2>4. s \in Nat BY <1>1, <2>2, <2>3
  <2>5. env' = WriteFile(env, f, s, Pieces[f]) BY <2>1, <2>2 DEF NewWritableFile, ChangeNames
  <2>6. EnvType(env') /\ env'.kind = env.kind /\ env'.allowed = env.allowed
    BY <1>1, <2>4, <2>5, WriteFileIs
  <2> QED BY <1>1, <2>1, <2>6 DEF NewWritableFile, ChangeNames
<1>4. CASE \E f, g \in Files : RenameFile(f, g)
  <2>1. PICK f \in Files, g \in Files : RenameFile(f, g) BY <1>4
  <2>2. EnvType(env') /\ env'.kind = env.kind /\ env'.allowed = env.allowed
    BY <1>1, <2>1, RenameToIs DEF RenameFile, ChangeNames
  <2> QED BY <1>1, <2>1, <2>2 DEF RenameFile, ChangeNames
<1> QED BY <1>2, <1>3, <1>4

-----------------------------------------------------------------------------
(* References.                                                             *)

(* The handles of b become H, and its usage u, when a reference to h is    *)
(* given up.  k is how often each is then referenced: only a handle that   *)
(* nothing refers to is freed.                                             *)
LEMMA GivenUp ==
    ASSUME NEW b, NEW n \in Nat, DOMAIN b.handles \subseteq 1..n,
           b.handles \in [DOMAIN b.handles -> Handle],
           b.usage = CostIn(b, DOMAIN b.handles),
           NEW h \in DOMAIN b.handles, NEW d, Unreffed(b, h, d.handles, d.usage),
           NEW k, \A x \in DOMAIN b.handles : k[x] \in Nat,
           \A x \in DOMAIN b.handles : b.handles[x].refs = k[x] + (IF x = h THEN 1 ELSE 0)
    PROVE  /\ DOMAIN d.handles \subseteq DOMAIN b.handles
           /\ \A x \in DOMAIN b.handles : x \in DOMAIN d.handles \/ (x = h /\ k[x] = 0)
           /\ \A x \in DOMAIN d.handles : /\ d.handles[x].refs = k[x]
                                        /\ d.handles[x].key = b.handles[x].key
                                        /\ d.handles[x].file = b.handles[x].file
           /\ d.usage = CostIn(d, DOMAIN d.handles)
<1> DEFINE r == b.handles[h].refs
<1>1. /\ r \in Nat \ {0} /\ b.handles[h].key \in Files /\ Keyed(b, DOMAIN b.handles)
      /\ r = k[h] + 1 /\ k[h] \in Nat
  BY DEF Handle, Keyed
<1>2. CASE r > 1
  <2>1. d.handles = [b.handles EXCEPT ![h].refs = r - 1] /\ d.usage = b.usage
    BY <1>2 DEF Unreffed, WithRefs
  <2>2. /\ DOMAIN d.handles = DOMAIN b.handles
        /\ \A x \in DOMAIN b.handles :
              /\ d.handles[x].key = b.handles[x].key /\ d.handles[x].file = b.handles[x].file
              /\ d.handles[x].refs = IF x = h THEN r - 1 ELSE b.handles[x].refs
    BY <2>1 DEF Handle
  <2> HIDE DEF r
  <2>3. r - 1 = k[h] BY <1>1
  <2>4. \A x \in DOMAIN d.handles : d.handles[x].refs = k[x] BY <2>2, <2>3
  <2>5. CostIn(d, DOMAIN b.handles) = CostIn(b, DOMAIN b.handles) BY <2>2, CostSame
  <2> QED BY <2>1, <2>2, <2>4, <2>5
<1>3. CASE ~(r > 1)
  <2>1. /\ d.handles = Restrict(b.handles, DOMAIN b.handles \ {h})
        /\ d.usage = b.usage - Charge[b.handles[h].key]
    BY <1>3 DEF Unreffed
  <2>2. /\ DOMAIN d.handles = DOMAIN b.handles \ {h}
        /\ \A x \in DOMAIN d.handles : d.handles[x] = b.handles[x]
    BY <2>1 DEF Restrict
  <2>3. k[h] = 0
    <3> HIDE DEF r
    <3> QED BY <1>1, <1>3
  <2> DEFINE D == DOMAIN d.handles  e == Charge[b.handles[h].key]
  <2>4. CostIn(b, DOMAIN b.handles) = CostIn(b, D) + e
    <3>1. CostIn(b, DOMAIN b.handles) = CostIn(b, DOMAIN b.handles \ {h}) + e BY <1>1, CostRemoves
    <3> QED BY <3>1, <2>2
  <2>5. CostIn(d, D) = CostIn(b, D) BY <2>2, CostSame
  <2>6. CostIn(b, D) \in Nat
    <3>1. Keyed(b, D) /\ D \in SUBSET (1..n) BY <1>1, <2>2 DEF Keyed
    <3> QED BY <3>1, UnitsFinite
  <2>7. e \in Nat BY <1>1, CacheAssumption
  <2>8. d.usage = b.usage - e /\ b.usage = CostIn(b, D) + e BY <2>1, <2>4
  <2> HIDE DEF D, e
  <2>9. d.usage = CostIn(d, D) BY <2>5, <2>6, <2>7, <2>8
  <2>10. \A x \in DOMAIN d.handles : d.handles[x].refs = k[x] BY <2>2
  <2> QED BY <2>2, <2>3, <2>9, <2>10 DEF D
<1> QED BY <1>2, <1>3

(* The threads that hold a handle.                                         *)
LEMMA HoldersCount ==
    ASSUME NEW h
    PROVE  /\ IsFiniteSet(Holders(h)) /\ Cardinality(Holders(h)) \in Nat
           /\ Cardinality(Holders(h)) = 0 <=> Holders(h) = {}
<1>1. Holders(h) \in SUBSET Threads BY DEF Holders
<1>2. IsFiniteSet(Holders(h)) BY <1>1, CacheAssumption, FS_Subset
<1> QED BY <1>2, FS_CardinalityType, FS_EmptySet

(* A step of t, which does r from now on, in the threads and the holders.  *)
LEMMA Moves ==
    ASSUME TypeInv, NEW t \in Threads, NEW r \in Work, thread' = [thread EXCEPT ![t] = r]
    PROVE  /\ thread' \in [Threads -> Work]
           /\ \A u \in Threads : thread'[u] = IF u = t THEN r ELSE thread[u]
           /\ \A x : Holders(x)' = IF x = r.handle THEN Holders(x) \cup {t} ELSE Holders(x) \ {t}
<1>1. thread \in [Threads -> Work] BY DEF TypeInv
<1>2. /\ thread' \in [Threads -> Work]
      /\ \A u \in Threads : thread'[u] = IF u = t THEN r ELSE thread[u]
  BY <1>1
<1> QED BY <1>2 DEF Holders

(* The record of a thread after Become.                                    *)
LEMMA WorkChange ==
    ASSUME NEW w \in Work, NEW pc, NEW h, NEW raf
    PROVE  [w EXCEPT !.pc = pc, !.handle = h, !.raf = raf] =
              [pc |-> pc, file |-> w.file, handle |-> h, raf |-> raf]
<1>1. PICK a : a = [w EXCEPT !.pc = pc] OBVIOUS
<1>2. a = [pc |-> pc, file |-> w.file, handle |-> w.handle, raf |-> w.raf] BY <1>1 DEF Work
<1>3. PICK b : b = [a EXCEPT !.handle = h] OBVIOUS
<1>4. b = [pc |-> pc, file |-> w.file, handle |-> h, raf |-> w.raf] BY <1>2, <1>3
<1>5. [w EXCEPT !.pc = pc, !.handle = h, !.raf = raf] = [b EXCEPT !.raf = raf] BY <1>1, <1>3
<1>6. [b EXCEPT !.raf = raf] = [pc |-> pc, file |-> w.file, handle |-> h, raf |-> raf] BY <1>4
<1> QED BY <1>5, <1>6

(* And the thread after Become.                                            *)
LEMMA BecomeIs ==
    ASSUME TypeInv, NEW t \in Threads, NEW pc \in PCs, NEW h \in Nat, NEW raf \in Raf,
           Become(t, pc, h, raf),
           NEW r, r = [pc |-> pc, file |-> thread[t].file, handle |-> h, raf |-> raf]
    PROVE  r \in Work /\ thread' = [thread EXCEPT ![t] = r]
<1>1. thread[t] \in Work BY DEF TypeInv
<1>2. [thread[t] EXCEPT !.pc = pc, !.handle = h, !.raf = raf] = r BY <1>1, WorkChange
<1>3. r \in Work BY <1>1 DEF Work
<1> QED BY <1>2, <1>3 DEF Become

(* How many hold a handle after it.                                        *)
LEMMA MovesCount ==
    ASSUME TypeInv, NEW t \in Threads, NEW r \in Work, thread' = [thread EXCEPT ![t] = r], NEW x
    PROVE  /\ IsFiniteSet(Holders(x)') /\ Cardinality(Holders(x)') \in Nat
           /\ thread[t].handle = r.handle => Holders(x)' = Holders(x)
           /\ r.handle # thread[t].handle =>
                 Cardinality(Holders(x)') = IF x = r.handle THEN Cardinality(Holders(x)) + 1
                                            ELSE IF x = thread[t].handle
                                                 THEN Cardinality(Holders(x)) - 1
                                                 ELSE Cardinality(Holders(x))
<1>1. Holders(x)' = IF x = r.handle THEN Holders(x) \cup {t} ELSE Holders(x) \ {t} BY Moves
<1>2. t \in Holders(x) <=> thread[t].handle = x BY DEF Holders
<1>3. IsFiniteSet(Holders(x)) /\ Cardinality(Holders(x)) \in Nat BY HoldersCount
<1>4. /\ IsFiniteSet(Holders(x) \cup {t}) /\ IsFiniteSet(Holders(x) \ {t})
      /\ t \notin Holders(x) => Cardinality(Holders(x) \cup {t}) = Cardinality(Holders(x)) + 1
      /\ t \in Holders(x) => Cardinality(Holders(x) \ {t}) = Cardinality(Holders(x)) - 1
  BY <1>3, FS_AddElement, FS_RemoveElement
<1>5. t \notin Holders(x) => Holders(x) \ {t} = Holders(x) OBVIOUS
<1>6. t \in Holders(x) => Holders(x) \cup {t} = Holders(x) OBVIOUS
<1>7. IsFiniteSet(Holders(x)') BY <1>1, <1>4
<1>8. Cardinality(Holders(x)') \in Nat BY <1>7, FS_CardinalityType
<1> QED BY <1>1, <1>2, <1>4, <1>5, <1>6, <1>7, <1>8

(* The invariant holds again when the shard is consistent, its references  *)
(* are counted and the threads hold what they held.                        *)
LEMMA Settled ==
    ASSUME CacheInv, NEW t \in Threads, NEW r \in Work, thread' = [thread EXCEPT ![t] = r],
           Stage(r), r.pc = "evict" => thread[t].pc = "evict" \/ ~Locked,
           \A u \in Threads : Holds(cache', thread'[u]),
           inserts' \in Nat, NEW T, Consistent(cache', inserts', T),
           \A x \in Allocated' : cache'.handles[x].refs =
                                    Cardinality(Holders(x)') + (IF x \in T THEN 1 ELSE 0),
           cache'.usage = CostIn(cache', Allocated'),
           Locked' \/ CostIn(cache', T) <= capacity_,
           EnvType(env'), names' \in Nat
    PROVE  CacheInv'
<1>1. TypeInv /\ HoldsInv BY DEF CacheInv
<1>2. /\ thread' \in [Threads -> Work]
      /\ \A u \in Threads : thread'[u] = IF u = t THEN r ELSE thread[u]
  BY <1>1, Moves
<1>3. TypeInv' BY <1>2 DEF TypeInv
<1>4. InTable(cache') = T BY TableHandles
<1>5. ShardInv' BY <1>4 DEF ShardInv
<1>6. HoldsInv'
  <2>1. \A u \in Threads : Stage(thread'[u]) BY <1>1, <1>2 DEF HoldsInv
  <2>2. \A u, v \in Threads : thread'[u].pc = "evict" /\ thread'[v].pc = "evict" => u = v
    BY <1>1, <1>2 DEF HoldsInv, Locked
  <2> QED BY <2>1, <2>2 DEF HoldsInv
<1>7. RefsCounted' BY <1>4 DEF RefsCounted
<1>8. UsageInv' BY <1>4 DEF UsageInv
<1> QED BY <1>3, <1>5, <1>6, <1>7, <1>8 DEF CacheInv

(* A step that changes neither the shard nor the threads.                  *)
LEMMA OnlyNames ==
    ASSUME CacheInv, UNCHANGED <<cache, inserts, thread>>, EnvType(env'), names' \in Nat
    PROVE  CacheInv'
<1>1. TypeInv' BY DEF CacheInv, TypeInv
<1>2. ShardInv' BY DEF CacheInv, ShardInv
<1>3. HoldsInv' BY DEF CacheInv, HoldsInv
<1>4. \A x : Holders(x)' = Holders(x) BY DEF Holders
<1>5. RefsCounted' BY <1>4 DEF CacheInv, RefsCounted, Allocated
<1>6. Locked' = Locked BY DEF Locked
<1>7. UsageInv' BY <1>6 DEF CacheInv, UsageInv, Allocated
<1> QED BY <1>1, <1>2, <1>3, <1>5, <1>7 DEF CacheInv

(* A step of a thread that leaves the shard alone.                         *)
LEMMA ShardKept ==
    ASSUME CacheInv, NEW t \in Threads, NEW r \in Work, thread' = [thread EXCEPT ![t] = r],
           Stage(r), r.pc = "evict" => thread[t].pc = "evict",
           r.handle = thread[t].handle, r.handle = NULL \/ r.file = thread[t].file,
           UNCHANGED <<cache, inserts>>,
           thread[t].pc = "evict" /\ r.pc # "evict" => CostIn(cache, InTable(cache)) <= capacity_,
           EnvType(env'), names' \in Nat
    PROVE  CacheInv'
<1>1. /\ TypeInv /\ HoldsInv /\ RefsCounted /\ UsageInv /\ inserts \in Nat
      /\ Consistent(cache, inserts, InTable(cache))
  BY DEF CacheInv, ShardInv, TypeInv
<1>2. \A u \in Threads : thread'[u] = IF u = t THEN r ELSE thread[u] BY <1>1, Moves
<1>3. \A u \in Threads : Holds(cache', thread'[u]) BY <1>1, <1>2 DEF HoldsInv, Holds
<1>4. \A x : Holders(x)' = Holders(x) BY <1>1, MovesCount
<1>5. \A x \in Allocated' : cache'.handles[x].refs =
         Cardinality(Holders(x)') + (IF x \in InTable(cache) THEN 1 ELSE 0)
  BY <1>1, <1>4 DEF RefsCounted, Allocated
<1>6. Locked' \/ CostIn(cache, InTable(cache)) <= capacity_
  <2>1. CASE ~Locked BY <2>1, <1>1 DEF UsageInv
  <2>2. CASE Locked
    <3>1. PICK u \in Threads : thread[u].pc = "evict" BY <2>2 DEF Locked
    <3>2. CASE u = t /\ r.pc # "evict" BY <3>1, <3>2
    <3>3. CASE ~(u = t /\ r.pc # "evict")
      <4>1. thread'[u].pc = "evict" BY <3>1, <3>3, <1>2
      <4> QED BY <4>1 DEF Locked
    <3> QED BY <3>2, <3>3
  <2> QED BY <2>1, <2>2
<1>7. cache'.usage = CostIn(cache', Allocated') BY <1>1 DEF UsageInv, Allocated
<1> QED BY <1>1, <1>3, <1>5, <1>6, <1>7, Settled

(* b, of at most n handles, is what a reference to h is taken from.        *)
Sound(b, n, h) ==
    /\ DOMAIN b.handles \subseteq 1..n /\ b.handles \in [DOMAIN b.handles -> Handle]
    /\ b.usage = CostIn(b, DOMAIN b.handles) /\ h \in DOMAIN b.handles

(* b counts the threads, the hash table T, and h once more.                *)
OneMore(b, h, T) ==
    \A x \in DOMAIN b.handles :
        b.handles[x].refs = Cardinality(Holders(x)) + (IF x \in T THEN 1 ELSE 0)
                                                    + (IF x = h THEN 1 ELSE 0)
AllHold(b) == \A u \in Threads : Holds(b, thread[u])

(* A step after which h has a reference less than the handles of b say.    *)
LEMMA ReferenceGoes ==
    ASSUME CacheInv, NEW t \in Threads, NEW r \in Work, thread' = [thread EXCEPT ![t] = r],
           Stage(r), r.pc = "evict" => thread[t].pc = "evict" \/ ~Locked,
           inserts' \in Nat, NEW T, Consistent(cache', inserts', T),
           NEW b, NEW h, Sound(b, inserts', h), Unreffed(b, h, cache'.handles, cache'.usage),
           OneMore(b, h, T)', AllHold(b)', Locked' \/ CostIn(b, T) <= capacity_,
           EnvType(env'), names' \in Nat
    PROVE  /\ CacheInv'
           /\ DOMAIN b.handles \ {h} \subseteq Allocated' /\ Allocated' \subseteq DOMAIN b.handles
           /\ \A x \in Allocated' : cache'.handles[x].file = b.handles[x].file
<1> DEFINE k == [x \in DOMAIN b.handles |->
                    Cardinality(Holders(x)') + (IF x \in T THEN 1 ELSE 0)]
<1>1. TypeInv BY DEF CacheInv
<1>2. \A x : Cardinality(Holders(x)') \in Nat /\ IsFiniteSet(Holders(x)') BY <1>1, MovesCount
<1>3. \A x \in DOMAIN b.handles : k[x] \in Nat BY <1>2
<1>4. \A x \in DOMAIN b.handles : b.handles[x].refs = k[x] + (IF x = h THEN 1 ELSE 0)
  BY DEF OneMore
<1>5. \A x \in DOMAIN b.handles : k[x] = Cardinality(Holders(x)') + (IF x \in T THEN 1 ELSE 0)
  OBVIOUS
<1> HIDE DEF k
<1>6. /\ Allocated' \subseteq DOMAIN b.handles
      /\ \A x \in DOMAIN b.handles : x \in Allocated' \/ (x = h /\ k[x] = 0)
      /\ \A x \in Allocated' : /\ cache'.handles[x].refs = k[x]
                              /\ cache'.handles[x].key = b.handles[x].key
                              /\ cache'.handles[x].file = b.handles[x].file
      /\ cache'.usage = CostIn(cache', Allocated')
  <2>1. PICK d : d = cache' OBVIOUS
  <2>2. PICK n \in Nat : n = inserts' OBVIOUS
  <2>3. /\ DOMAIN d.handles \subseteq DOMAIN b.handles
        /\ \A x \in DOMAIN b.handles : x \in DOMAIN d.handles \/ (x = h /\ k[x] = 0)
        /\ \A x \in DOMAIN d.handles : /\ d.handles[x].refs = k[x]
                                     /\ d.handles[x].key = b.handles[x].key
                                     /\ d.handles[x].file = b.handles[x].file
        /\ d.usage = CostIn(d, DOMAIN d.handles)
    BY <2>1, <2>2, <1>3, <1>4, GivenUp DEF Sound
  <2> QED BY <2>1, <2>3 DEF Allocated
<1>7. \A u \in Threads : Holds(cache', thread'[u])
  <2> SUFFICES ASSUME NEW u \in Threads, thread'[u].handle # NULL
               PROVE  /\ thread'[u].handle \in Allocated'
                      /\ cache'.handles[thread'[u].handle].key = thread'[u].file
    BY DEF Holds, Allocated
  <2>1. PICK x : x = thread'[u].handle OBVIOUS
  <2>2. x \in DOMAIN b.handles /\ b.handles[x].key = thread'[u].file BY <2>1 DEF AllHold, Holds
  <2>3. u \in Holders(x)' BY <2>1 DEF Holders
  <2>4. Cardinality(Holders(x)') # 0 BY <2>3, <1>2, FS_EmptySet
  <2>5. k[x] # 0 BY <2>2, <2>4, <1>2, <1>5
  <2> QED BY <2>1, <2>2, <2>5, <1>6
<1>8. \A x \in Allocated' : cache'.handles[x].refs =
         Cardinality(Holders(x)') + (IF x \in T THEN 1 ELSE 0)
  BY <1>5, <1>6
<1>9. T \subseteq Allocated' BY DEF Consistent, Allocated
<1>10. CostIn(cache', T) = CostIn(b, T) BY <1>6, <1>9, CostSame
<1>11. CacheInv' BY <1>6, <1>7, <1>8, <1>10, Settled
<1> QED BY <1>6, <1>11

-----------------------------------------------------------------------------
(* The steps that change the shard.                                        *)

(* They leave the file of a handle alone and free one handle at most.      *)
Kept ==
    /\ \A x \in Allocated \cap Allocated' : cache'.handles[x].file = cache.handles[x].file
    /\ \A x, y \in Allocated \ Allocated' : x = y

(* What CacheInv says of the shard.                                        *)
LEMMA ShardFacts ==
    ASSUME CacheInv, NEW S, S = InTable(cache)
    PROVE  /\ inserts \in Nat /\ Consistent(cache, inserts, S) /\ TableIs(cache, S)
           /\ S \subseteq Allocated /\ Allocated \subseteq 1..inserts /\ NULL \notin Allocated
           /\ cache.handles \in [Allocated -> Handle] /\ Keyed(cache, Allocated)
           /\ cache.usage = CostIn(cache, Allocated)
           /\ \A x \in Allocated :
                 cache.handles[x].refs = Cardinality(Holders(x)) + (IF x \in S THEN 1 ELSE 0)
<1>1. inserts \in Nat /\ Consistent(cache, inserts, S) BY DEF CacheInv, TypeInv, ShardInv
<1>2. /\ TableIs(cache, S) /\ S \subseteq Allocated /\ Allocated \subseteq 1..inserts
      /\ cache.handles \in [Allocated -> Handle]
  BY <1>1 DEF Consistent, ShardType, Allocated
<1>3. Keyed(cache, Allocated) BY <1>1, TableHandles DEF Allocated
<1>4. NULL \notin Allocated BY <1>1, <1>2 DEF NULL
<1> QED BY <1>1, <1>2, <1>3, <1>4 DEF CacheInv, UsageInv, RefsCounted

(* FindTable, when the table is cached.                                    *)
LEMMA FindTableHits ==
    ASSUME CacheInv, NEW t \in Threads, NEW f \in Files, thread[t] = Idle, ~Locked,
           TableLookup(cache, f) # NULL, cache' = LookupHandle(cache, TableLookup(cache, f)),
           thread' = [thread EXCEPT ![t] = [Idle EXCEPT !.pc = "use", !.file = f,
                                                       !.handle = TableLookup(cache, f)]],
           UNCHANGED <<inserts, env, names>>
    PROVE  CacheInv' /\ Allocated' = Allocated /\ Kept
<1>1. PICK S : S = InTable(cache) OBVIOUS
<1>2. PICK h : h = TableLookup(cache, f) OBVIOUS
<1>3. PICK r : r = [Idle EXCEPT !.pc = "use", !.file = f, !.handle = h] OBVIOUS
<1>4. /\ inserts \in Nat /\ Consistent(cache, inserts, S) /\ TableIs(cache, S)
      /\ S \subseteq Allocated /\ Allocated \subseteq 1..inserts /\ NULL \notin Allocated
      /\ cache.handles \in [Allocated -> Handle]
      /\ cache.usage = CostIn(cache, Allocated)
      /\ \A x \in Allocated :
            cache.handles[x].refs = Cardinality(Holders(x)) + (IF x \in S THEN 1 ELSE 0)
  BY <1>1, ShardFacts
<1>5. h \in S /\ h \in Allocated /\ cache.handles[h].key = f BY <1>2, <1>4, LookupIs
<1>6. h \in Nat /\ h # NULL BY <1>4, <1>5
<1>7. r = [pc |-> "use", file |-> f, handle |-> h, raf |-> NoFile] BY <1>3 DEF Idle
<1>8. r \in Work /\ Stage(r) BY <1>6, <1>7 DEF Work, PCs, Raf, NoFile, NULL, Stage, Idle
<1>9. thread' = [thread EXCEPT ![t] = r] BY <1>2, <1>3
<1>10. TypeInv /\ HoldsInv BY DEF CacheInv
<1>11. /\ Consistent(cache', inserts, S) /\ cache'.usage = cache.usage
       /\ cache'.handles = WithRefs(cache, h, cache.handles[h].refs + 1)
  <2>1. PICK d : d = cache' OBVIOUS
  <2>2. d = LookupHandle(cache, h) BY <2>1, <1>2
  <2>3. /\ Consistent(d, inserts, S) /\ d.usage = cache.usage
        /\ d.handles = WithRefs(cache, h, cache.handles[h].refs + 1)
    BY <2>2, <1>4, <1>5, LookupHandleIs
  <2> QED BY <2>1, <2>3
<1>12. /\ Allocated' = Allocated
       /\ \A x \in Allocated :
             /\ cache'.handles[x].key = cache.handles[x].key
             /\ cache'.handles[x].file = cache.handles[x].file
             /\ cache'.handles[x].refs = IF x = h THEN cache.handles[h].refs + 1
                                         ELSE cache.handles[x].refs
  BY <1>4, <1>11 DEF Allocated, WithRefs, Handle
<1>13. \A u \in Threads : Holds(cache', thread'[u])
  <2>1. \A u \in Threads : thread'[u] = IF u = t THEN r ELSE thread[u] BY <1>8, <1>9, <1>10, Moves
  <2>2. Holds(cache', r)
    <3>1. h \in Allocated' /\ cache'.handles[h].key = f BY <1>5, <1>12
    <3>2. r.handle = h /\ r.file = f BY <1>7
    <3> QED BY <3>1, <3>2 DEF Holds, Allocated
  <2>3. ASSUME NEW u \in Threads PROVE Holds(cache', thread[u])
    <3>1. Holds(cache, thread[u]) BY <1>10 DEF HoldsInv
    <3> QED BY <3>1, <1>12 DEF Holds, Allocated
  <2> QED BY <2>1, <2>2, <2>3
<1>14. \A x \in Allocated : Cardinality(Holders(x)') = IF x = h THEN Cardinality(Holders(x)) + 1
                                                    ELSE Cardinality(Holders(x))
  <2>1. r.handle = h /\ thread[t].handle = NULL BY <1>7 DEF Idle
  <2> TAKE x \in Allocated
  <2>2. x # thread[t].handle BY <2>1, <1>4
  <2>3. Cardinality(Holders(x)') = IF x = r.handle THEN Cardinality(Holders(x)) + 1
                                   ELSE IF x = thread[t].handle THEN Cardinality(Holders(x)) - 1
                                   ELSE Cardinality(Holders(x))
    BY <2>1, <1>6, <1>8, <1>9, <1>10, MovesCount
  <2> QED BY <2>1, <2>2, <2>3
<1>15. \A x \in Allocated' : cache'.handles[x].refs =
          Cardinality(Holders(x)') + (IF x \in S THEN 1 ELSE 0)
  <2>1. \A x \in Allocated : Cardinality(Holders(x)) \in Nat BY HoldersCount
  <2> QED BY <2>1, <1>4, <1>5, <1>12, <1>14
<1>16. cache'.usage = CostIn(cache', Allocated') BY <1>4, <1>11, <1>12, CostSame
<1>17. CostIn(cache', S) <= capacity_
  <2>1. CostIn(cache', S) = CostIn(cache, S) BY <1>4, <1>12, CostSame
  <2>2. CostIn(cache, S) <= capacity_ BY <1>1 DEF CacheInv, UsageInv
  <2> QED BY <2>1, <2>2
<1>18. CacheInv'
  <2>1. inserts' \in Nat /\ Consistent(cache', inserts', S) /\ EnvType(env') /\ names' \in Nat
    BY <1>4, <1>10, <1>11 DEF TypeInv
  <2>2. r.pc = "evict" => thread[t].pc = "evict" \/ ~Locked OBVIOUS
  <2> QED BY <2>1, <2>2, <1>8, <1>9, <1>13, <1>15, <1>16, <1>17, Settled
<1> QED BY <1>12, <1>18 DEF Kept

(* Release: the reference of a thread goes.                                *)
LEMMA ReleaseKeeps ==
    ASSUME CacheInv, NEW t \in Threads, Release(t)
    PROVE  CacheInv' /\ Allocated' \subseteq Allocated /\ Kept
<1>1. PICK S : S = InTable(cache) OBVIOUS
<1>2. PICK h : h = thread[t].handle OBVIOUS
<1>3. /\ inserts \in Nat /\ Consistent(cache, inserts, S) /\ TableIs(cache, S)
      /\ S \subseteq Allocated /\ Allocated \subseteq 1..inserts /\ NULL \notin Allocated
      /\ cache.handles \in [Allocated -> Handle]
      /\ cache.usage = CostIn(cache, Allocated)
      /\ \A x \in Allocated :
            cache.handles[x].refs = Cardinality(Holders(x)) + (IF x \in S THEN 1 ELSE 0)
  BY <1>1, ShardFacts
<1>4. TypeInv /\ HoldsInv BY DEF CacheInv
<1>5. h \in Allocated /\ h # NULL
  <2>1. Stage(thread[t]) /\ Holds(cache, thread[t]) /\ thread[t].pc = "use"
    BY <1>4 DEF HoldsInv, Release
  <2> QED BY <2>1, <1>2 DEF Stage, Holds, Allocated
<1>6. Idle \in Work /\ Stage(Idle) /\ Idle.handle = NULL /\ Idle.pc # "evict"
  BY DEF Idle, Work, PCs, Raf, NoFile, NULL, Stage
<1>7. thread' = [thread EXCEPT ![t] = Idle] BY DEF Release
<1>8. /\ CacheBecomes(UnrefHandle(cache, h)) /\ inserts' = inserts /\ names' = names /\ ~Locked
  BY <1>2 DEF Release
<1>9. EnvType(env') /\ names' \in Nat BY <1>4, <1>8, BecomesIs DEF TypeInv
<1>10. h \notin S \/ cache.handles[h].refs > 1
  <2>1. t \in Holders(h) BY <1>2 DEF Holders
  <2>2. Cardinality(Holders(h)) # 0 /\ Cardinality(Holders(h)) \in Nat BY <2>1, HoldersCount
  <2>3. cache.handles[h].refs = Cardinality(Holders(h)) + (IF h \in S THEN 1 ELSE 0)
    BY <1>3, <1>5
  <2>4. CASE h \in S
    <3>1. cache.handles[h].refs = Cardinality(Holders(h)) + 1 BY <2>3, <2>4
    <3> QED BY <3>1, <2>2
  <2> QED BY <2>4
<1>11. Consistent(cache', inserts, S) /\ Unreffed(cache, h, cache'.handles, cache'.usage)
  <2>1. PICK d : d = cache' OBVIOUS
  <2>2. d = UnrefHandle(cache, h) BY <2>1, <1>8 DEF CacheBecomes
  <2>3. h \in DOMAIN cache.handles BY <1>5 DEF Allocated
  <2>4. Consistent(d, inserts, S) /\ Unreffed(cache, h, d.handles, d.usage)
    BY <2>2, <2>3, <1>3, <1>10, UnrefHandleIs
  <2> QED BY <2>1, <2>4
<1>12. \A x \in Allocated : cache.handles[x].refs =
          Cardinality(Holders(x)') + (IF x \in S THEN 1 ELSE 0) + (IF x = h THEN 1 ELSE 0)
  <2> TAKE x \in Allocated
  <2>1. Cardinality(Holders(x)') = IF x = h THEN Cardinality(Holders(x)) - 1
                                   ELSE Cardinality(Holders(x))
    <3>1. Idle.handle # thread[t].handle /\ x # Idle.handle BY <1>2, <1>3, <1>5, <1>6
    <3> QED BY <3>1, <1>2, <1>4, <1>6, <1>7, MovesCount
  <2>2. Cardinality(Holders(x)) \in Nat BY HoldersCount
  <2> QED BY <2>1, <2>2, <1>3
<1>13. \A u \in Threads : Holds(cache, thread'[u])
  <2>1. \A u \in Threads : thread'[u] = IF u = t THEN Idle ELSE thread[u]
    BY <1>4, <1>6, <1>7, Moves
  <2> QED BY <2>1, <1>4, <1>6 DEF HoldsInv, Holds
<1>14. CostIn(cache, S) <= capacity_ BY <1>1, <1>8 DEF CacheInv, UsageInv
<1>15. /\ CacheInv' /\ Allocated \ {h} \subseteq Allocated' /\ Allocated' \subseteq Allocated
       /\ \A x \in Allocated' : cache'.handles[x].file = cache.handles[x].file
  <2>1. PICK b : b = cache OBVIOUS
  <2>2. /\ inserts' \in Nat /\ Consistent(cache', inserts', S) /\ Sound(b, inserts', h)
        /\ Unreffed(b, h, cache'.handles, cache'.usage) /\ DOMAIN b.handles = Allocated
    BY <2>1, <1>3, <1>5, <1>8, <1>11 DEF Allocated, Sound
  <2>3. OneMore(b, h, S)' BY <2>1, <2>2, <1>12 DEF OneMore
  <2>4. AllHold(b)' /\ CostIn(b, S) <= capacity_ BY <2>1, <1>13, <1>14 DEF AllHold
  <2>5. /\ CacheInv' /\ DOMAIN b.handles \ {h} \subseteq Allocated'
        /\ Allocated' \subseteq DOMAIN b.handles
        /\ \A x \in Allocated' : cache'.handles[x].file = b.handles[x].file
    BY <1>6, <1>7, <1>9, <2>2, <2>3, <2>4, ReferenceGoes
  <2> QED BY <2>1, <2>2, <2>5
<1> QED BY <1>15 DEF Kept

(* An entry goes, erased or as the oldest: its reference is the cache's.   *)
LEMMA EntryGoes ==
    ASSUME CacheInv, NEW t \in Threads, UNCHANGED <<inserts, thread, names>>, EnvType(env'),
           NEW S, S = InTable(cache), NEW h \in S, Consistent(cache', inserts, S \ {h}),
           Unreffed(cache, h, cache'.handles, cache'.usage)
    PROVE  CacheInv' /\ Allocated' \subseteq Allocated /\ Kept
<1>1. S = InTable(cache) OBVIOUS
<1>3. /\ inserts \in Nat /\ Consistent(cache, inserts, S) /\ TableIs(cache, S)
      /\ S \subseteq Allocated /\ Allocated \subseteq 1..inserts /\ NULL \notin Allocated
      /\ cache.handles \in [Allocated -> Handle]
      /\ cache.usage = CostIn(cache, Allocated)
      /\ \A x \in Allocated :
            cache.handles[x].refs = Cardinality(Holders(x)) + (IF x \in S THEN 1 ELSE 0)
  BY <1>1, ShardFacts
<1>4. TypeInv /\ HoldsInv BY DEF CacheInv
<1>5. PICK r : r = thread[t] OBVIOUS
<1>6. r \in Work /\ Stage(r) /\ thread' = [thread EXCEPT ![t] = r]
  <2>1. thread \in [Threads -> Work] BY <1>4 DEF TypeInv
  <2> QED BY <2>1, <1>4, <1>5 DEF HoldsInv
<1>7. \A x : Holders(x)' = Holders(x) BY DEF Holders
<1>8. h \in Allocated BY <1>3
<1>9. \A x \in Allocated : cache.handles[x].refs =
         Cardinality(Holders(x)') + (IF x \in S \ {h} THEN 1 ELSE 0) + (IF x = h THEN 1 ELSE 0)
  <2>1. \A x : Cardinality(Holders(x)) \in Nat BY HoldersCount
  <2> QED BY <2>1, <1>3, <1>7
<1>10. \A u \in Threads : Holds(cache, thread'[u]) BY <1>4 DEF HoldsInv
<1>11. Locked' \/ CostIn(cache, S \ {h}) <= capacity_
  <2>1. Locked' = Locked BY DEF Locked
  <2>2. CASE Locked BY <2>1, <2>2
  <2>3. CASE ~Locked
    <3>1. CostIn(cache, S) <= capacity_ BY <2>3, <1>1 DEF CacheInv, UsageInv
    <3>2. S \in SUBSET (1..inserts) /\ S \ {h} \in SUBSET S /\ Keyed(cache, S)
      BY <1>3, TableHandles
    <3>3. CostIn(cache, S \ {h}) <= CostIn(cache, S) BY <3>2, <1>3, CostGrows
    <3>4. CostIn(cache, S \ {h}) \in Nat /\ CostIn(cache, S) \in Nat
      <4>1. S \ {h} \in SUBSET (1..inserts) /\ Keyed(cache, S \ {h}) BY <3>2 DEF Keyed
      <4> QED BY <4>1, <3>2, <1>3, UnitsFinite
    <3>5. capacity_ \in Nat BY CacheAssumption
    <3> QED BY <3>1, <3>3, <3>4, <3>5
  <2> QED BY <2>2, <2>3
<1>12. /\ CacheInv' /\ Allocated \ {h} \subseteq Allocated' /\ Allocated' \subseteq Allocated
       /\ \A x \in Allocated' : cache'.handles[x].file = cache.handles[x].file
  <2>1. PICK b : b = cache OBVIOUS
  <2>2. PICK T : T = S \ {h} OBVIOUS
  <2>3. /\ inserts' \in Nat /\ Consistent(cache', inserts', T) /\ Sound(b, inserts', h)
        /\ Unreffed(b, h, cache'.handles, cache'.usage) /\ DOMAIN b.handles = Allocated
        /\ names' \in Nat
    BY <2>1, <2>2, <1>3, <1>4, <1>8 DEF Allocated, Sound, TypeInv
  <2>4. OneMore(b, h, T)' BY <2>1, <2>2, <2>3, <1>9 DEF OneMore
  <2>5. AllHold(b)' /\ (Locked' \/ CostIn(b, T) <= capacity_)
    BY <2>1, <2>2, <1>10, <1>11 DEF AllHold
  <2>6. r.pc = "evict" => thread[t].pc = "evict" BY <1>5
  <2>7. /\ CacheInv' /\ DOMAIN b.handles \ {h} \subseteq Allocated'
        /\ Allocated' \subseteq DOMAIN b.handles
        /\ \A x \in Allocated' : cache'.handles[x].file = b.handles[x].file
    BY <1>6, <2>3, <2>4, <2>5, <2>6, ReferenceGoes
  <2> QED BY <2>1, <2>3, <2>7
<1> QED BY <1>12 DEF Kept

(* Evict, and a round of the loop of LRUCache::Insert.                     *)
LEMMA EvictsKeep ==
    ASSUME CacheInv, NEW t \in Threads, NEW f \in Files, Evict(t, f) \/ EvictOldest(t)
    PROVE  CacheInv' /\ Allocated' \subseteq Allocated /\ Kept
<1>1. PICK S : S = InTable(cache) OBVIOUS
<1>2. PICK d : d = cache' OBVIOUS
<1>3. inserts \in Nat /\ Consistent(cache, inserts, S) BY <1>1, ShardFacts
<1>4. UNCHANGED <<inserts, thread, names>> BY DEF Evict, EvictOldest
<1>5. EnvType(env) /\ names \in Nat BY DEF CacheInv, TypeInv
<1>6. EnvType(env') BY <1>5, BecomesIs DEF Evict, EvictOldest
<1>7. \/ d = cache
      \/ \E h \in S : /\ Consistent(d, inserts, S \ {h})
                      /\ Unreffed(cache, h, d.handles, d.usage)
  <2>1. CASE Evict(t, f)
    <3>1. d = EraseKey(cache, f) BY <2>1, <1>2 DEF Evict, CacheBecomes
    <3> QED BY <3>1, <1>3, EraseKeyIs
  <2>2. CASE EvictOldest(t)
    <3>1. d = EvictHandle(cache) /\ cache.lru # <<>> BY <2>2, <1>2 DEF EvictOldest, CacheBecomes
    <3> QED BY <3>1, <1>3, EvictHandleIs
  <2> QED BY <2>1, <2>2
<1>8. CASE d = cache
  <2>1. CacheInv' BY <1>2, <1>4, <1>5, <1>6, <1>8, OnlyNames
  <2> QED BY <2>1, <1>2, <1>8 DEF Kept, Allocated
<1>9. CASE d # cache BY <1>1, <1>2, <1>4, <1>6, <1>7, <1>9, EntryGoes
<1> QED BY <1>8, <1>9

(* InsertTable: the new handle has the references of the cache and of the  *)
(* thread; an old one of its key loses that of the cache.                  *)
LEMMA InsertKeeps ==
    ASSUME CacheInv, NEW t \in Threads, InsertTable(t)
    PROVE  /\ CacheInv' /\ Kept /\ inserts + 1 \in Allocated' /\ inserts + 1 \notin Allocated
           /\ Allocated' \subseteq Allocated \cup {inserts + 1}
           /\ cache'.handles[inserts + 1].file = thread[t].raf
<1>1. PICK S : S = InTable(cache) OBVIOUS
<1>2. PICK n : n = inserts OBVIOUS
<1>3. PICK f : f = thread[t].file OBVIOUS
<1>4. PICK raf : raf = thread[t].raf OBVIOUS
<1>5. /\ n \in Nat /\ Consistent(cache, n, S) /\ TableIs(cache, S)
      /\ S \subseteq Allocated /\ Allocated \subseteq 1..n /\ NULL \notin Allocated
      /\ cache.handles \in [Allocated -> Handle] /\ Keyed(cache, Allocated)
      /\ cache.usage = CostIn(cache, Allocated)
      /\ \A x \in Allocated :
            cache.handles[x].refs = Cardinality(Holders(x)) + (IF x \in S THEN 1 ELSE 0)
  BY <1>1, <1>2, ShardFacts
<1>6. PICK h : h = n + 1 OBVIOUS
<1>7. /\ h \in Nat \ {0} /\ h \in 1..h /\ h \notin 1..n /\ 1..n \subseteq 1..h /\ h # NULL
      /\ h \notin Allocated
  <2>1. h \in Nat \ {0} /\ h \in 1..h /\ h \notin 1..n /\ 1..n \subseteq 1..h /\ h # NULL
    BY <1>5, <1>6 DEF NULL
  <2> QED BY <2>1, <1>5
<1>8. TypeInv /\ HoldsInv BY DEF CacheInv
<1>9. f \in Files /\ raf \in Raf /\ thread[t].handle = NULL
  <2>1. thread[t] \in Work /\ Stage(thread[t]) /\ thread[t].pc = "table"
    BY <1>8 DEF TypeInv, HoldsInv, InsertTable
  <2> QED BY <2>1, <1>3, <1>4 DEF Stage, Work
<1>10. PICK r : r = [pc |-> "evict", file |-> f, handle |-> h, raf |-> NoFile] OBVIOUS
<1>11. Stage(r) BY <1>7, <1>9, <1>10 DEF NoFile, NULL, Stage, Idle
<1>12. r \in Work /\ thread' = [thread EXCEPT ![t] = r]
  <2>1. Become(t, "evict", h, NoFile) BY <1>2, <1>6 DEF InsertTable
  <2>2. "evict" \in PCs /\ NoFile \in Raf /\ h \in Nat BY <1>7 DEF PCs, Raf, NoFile, NULL
  <2> QED BY <2>1, <2>2, <1>3, <1>8, <1>10, BecomeIs
<1>13. /\ CacheBecomes(InsertHandle(cache, h, f, raf)) /\ inserts' = h /\ names' = names /\ ~Locked
  BY <1>2, <1>3, <1>4, <1>6 DEF InsertTable
<1>14. EnvType(env') /\ names' \in Nat BY <1>8, <1>13, BecomesIs DEF TypeInv
<1>15. PICK N : N = WithNew(cache, h, f, raf) OBVIOUS
<1>16. PICK u : u = cache.usage + Charge[f] OBVIOUS
<1>17. PICK b : b = [handles |-> N, usage |-> u] OBVIOUS
<1>18. \/ Consistent(cache', h, S \cup {h}) /\ cache'.handles = N /\ cache'.usage = u
       \/ \E old \in S : /\ Consistent(cache', h, (S \ {old}) \cup {h})
                         /\ Unreffed(b, old, cache'.handles, cache'.usage)
  <2>1. PICK d : d = cache' OBVIOUS
  <2>2. d = InsertHandle(cache, h, f, raf) BY <2>1, <1>13 DEF CacheBecomes
  <2>3. \/ /\ Consistent(d, h, S \cup {h})
           /\ d.handles = N /\ d.usage = u
        \/ \E old \in S :
              /\ Consistent(d, h, (S \ {old}) \cup {h})
              /\ Unreffed([handles |-> N, usage |-> u], old, d.handles, d.usage)
    BY <2>2, <1>5, <1>6, <1>9, <1>15, <1>16, InsertHandleIs
  <2> QED BY <2>1, <2>3, <1>17
<1>19. /\ b.handles = N /\ b.usage = u /\ DOMAIN N = Allocated \cup {h}
       /\ N[h] = [key |-> f, refs |-> 2, file |-> raf]
       /\ \A x \in Allocated : N[x] = cache.handles[x]
  BY <1>7, <1>15, <1>17 DEF Allocated, WithNew
<1>20. N \in [DOMAIN N -> Handle]
  <2>1. [key |-> f, refs |-> 2, file |-> raf] \in Handle BY <1>9 DEF Handle
  <2>2. \A x \in DOMAIN N : N[x] \in Handle BY <2>1, <1>5, <1>19
  <2>3. N = [x \in DOMAIN N |-> N[x]] BY <1>15 DEF WithNew
  <2> QED BY <2>2, <2>3
<1>21. u = CostIn(b, DOMAIN N)
  <2>1. Keyed(b, Allocated \cup {h}) BY <1>19, <1>20 DEF Keyed, Handle
  <2>2. Allocated \in SUBSET (1..h) BY <1>5, <1>7
  <2>3. CostIn(b, Allocated \cup {h}) = CostIn(b, Allocated) + Charge[b.handles[h].key]
    BY <2>1, <2>2, <1>7, CostAdds
  <2>4. CostIn(b, Allocated) = CostIn(cache, Allocated) BY <1>19, CostSame
  <2>5. b.handles[h].key = f BY <1>19
  <2> QED BY <2>3, <2>4, <2>5, <1>5, <1>16, <1>19
<1>22. \A x \in DOMAIN N :
          /\ N[x].refs = Cardinality(Holders(x)') + (IF x \in S \cup {h} THEN 1 ELSE 0)
          /\ Cardinality(Holders(x)') \in Nat
  <2>1. ASSUME NEW x \in Allocated
        PROVE  Cardinality(Holders(x)') = Cardinality(Holders(x)) /\ Cardinality(Holders(x)) \in Nat
    <3>1. r.handle # thread[t].handle /\ x # r.handle /\ x # thread[t].handle
      BY <1>5, <1>7, <1>9, <1>10
    <3> QED BY <3>1, <1>8, <1>11, <1>12, MovesCount, HoldersCount
  <2>2. Cardinality(Holders(h)') = 1
    <3>1. Holders(h) = {}
      <4>1. \A v \in Threads : thread[v].handle # h
        BY <1>7, <1>8 DEF HoldsInv, Holds, Allocated
      <4> QED BY <4>1 DEF Holders
    <3>2. r.handle = h /\ r.handle # thread[t].handle BY <1>7, <1>9, <1>10
    <3>3. Cardinality(Holders(h)') = Cardinality(Holders(h)) + 1
      BY <3>2, <1>8, <1>11, <1>12, MovesCount
    <3> QED BY <3>1, <3>3, FS_EmptySet
  <2>3. N[h].refs = 2 BY <1>19
  <2> TAKE x \in DOMAIN N
  <2>4. CASE x = h BY <2>2, <2>3, <2>4
  <2>5. CASE x # h
    <3>1. x \in Allocated BY <2>5, <1>19
    <3> QED BY <3>1, <2>1, <2>5, <1>5, <1>19
  <2> QED BY <2>4, <2>5
<1>23. \A v \in Threads : thread'[v] = IF v = t THEN r ELSE thread[v] BY <1>8, <1>11, <1>12, Moves
<1>24. \A v \in Threads : Holds(b, thread'[v])
  <2>1. Holds(b, r) BY <1>10, <1>19 DEF Holds
  <2>2. ASSUME NEW v \in Threads PROVE Holds(b, thread[v])
    <3>1. Holds(cache, thread[v]) BY <1>8 DEF HoldsInv
    <3> QED BY <3>1, <1>19 DEF Holds, Allocated
  <2> QED BY <2>1, <2>2, <1>23
<1>25. Locked'
  <2>1. thread'[t].pc = "evict" BY <1>10, <1>23
  <2> QED BY <2>1 DEF Locked
<1>26. inserts' \in Nat /\ (r.pc = "evict" => thread[t].pc = "evict" \/ ~Locked) BY <1>7, <1>13
<1>27. CASE Consistent(cache', h, S \cup {h}) /\ cache'.handles = N /\ cache'.usage = u
  <2>1. PICK T : T = S \cup {h} OBVIOUS
  <2>2. Consistent(cache', inserts', T) BY <2>1, <1>13, <1>27
  <2>3. Allocated' = DOMAIN N BY <1>27 DEF Allocated
  <2>4. \A x \in Allocated' : cache'.handles[x].refs =
           Cardinality(Holders(x)') + (IF x \in T THEN 1 ELSE 0)
    BY <2>1, <2>3, <1>22, <1>27
  <2>5. cache'.usage = CostIn(cache', Allocated')
    <3>1. CostIn(cache', DOMAIN N) = CostIn(b, DOMAIN N) BY <1>19, <1>27, CostSame
    <3> QED BY <3>1, <2>3, <1>21, <1>27
  <2>6. \A v \in Threads : Holds(cache', thread'[v]) BY <1>19, <1>24, <1>27 DEF Holds
  <2>7. CacheInv'
    BY <2>2, <2>4, <2>5, <2>6, <1>11, <1>12, <1>14, <1>25, <1>26, Settled
  <2> QED BY <2>3, <2>7, <1>2, <1>4, <1>6, <1>7, <1>19, <1>27 DEF Kept
<1>28. ASSUME NEW old \in S, Consistent(cache', h, (S \ {old}) \cup {h}),
              Unreffed(b, old, cache'.handles, cache'.usage)
       PROVE  CacheInv' /\ Kept /\ h \in Allocated' /\ Allocated' \subseteq Allocated \cup {h}
              /\ cache'.handles[h].file = raf
  <2>1. PICK T : T = (S \ {old}) \cup {h} OBVIOUS
  <2>2. old \in Allocated /\ old # h BY <1>5, <1>7
  <2>3. Consistent(cache', inserts', T) BY <2>1, <1>13, <1>28
  <2>4. Sound(b, inserts', old)
    <3>1. DOMAIN N \subseteq 1..h BY <1>5, <1>7, <1>19
    <3> QED BY <3>1, <2>2, <1>13, <1>19, <1>20, <1>21 DEF Sound
  <2>5. OneMore(b, old, T)'
    <3>1. \A x \in DOMAIN N : N[x].refs = Cardinality(Holders(x)') + (IF x \in T THEN 1 ELSE 0)
                                                                 + (IF x = old THEN 1 ELSE 0)
      BY <2>1, <2>2, <1>22
    <3> QED BY <3>1, <1>19 DEF OneMore
  <2>6. AllHold(b)' BY <1>24 DEF AllHold
  <2>7. /\ CacheInv' /\ DOMAIN b.handles \ {old} \subseteq Allocated'
        /\ Allocated' \subseteq DOMAIN b.handles
        /\ \A x \in Allocated' : cache'.handles[x].file = b.handles[x].file
    BY <2>3, <2>4, <2>5, <2>6, <1>11, <1>12, <1>14, <1>25, <1>26, <1>28, ReferenceGoes
  <2> QED BY <2>2, <2>7, <1>19 DEF Kept
<1> QED BY <1>2, <1>4, <1>6, <1>7, <1>18, <1>27, <1>28

-----------------------------------------------------------------------------
(* The steps that leave the shard alone.                                   *)

(* What CacheInv says of a thread.                                         *)
LEMMA ThreadFacts ==
    ASSUME CacheInv, NEW t \in Threads
    PROVE  /\ TypeInv /\ EnvType(env) /\ names \in Nat /\ thread[t] \in Work
           /\ thread[t].file \in Files \cup {NULL} /\ thread[t].raf \in Raf
           /\ thread[t].pc \in PCs /\ thread[t].handle \in Nat
           /\ thread[t] = [pc |-> thread[t].pc, file |-> thread[t].file,
                           handle |-> thread[t].handle, raf |-> thread[t].raf]
           /\ thread[t].pc # "idle" => thread[t].file \in Files
           /\ thread[t].pc \in {"use", "evict"} <=> thread[t].handle # NULL
           /\ thread[t].raf.mapped => thread[t].pc = "table"
           /\ Idle \in Work /\ Stage(Idle) /\ Idle.handle = NULL /\ Idle.pc = "idle"
           /\ NoFile \in Raf /\ ~NoFile.mapped
<1>1. TypeInv /\ HoldsInv BY DEF CacheInv
<1>2. EnvType(env) /\ names \in Nat /\ thread[t] \in Work /\ Stage(thread[t])
  BY <1>1 DEF TypeInv, HoldsInv
<1>3. /\ Idle \in Work /\ Stage(Idle) /\ Idle.handle = NULL /\ Idle.pc = "idle"
      /\ NoFile \in Raf /\ ~NoFile.mapped
  BY DEF Idle, Work, PCs, Raf, NoFile, NULL, Stage
<1> QED BY <1>1, <1>2, <1>3 DEF Work, Stage

(* A thread gives up: it is idle again.                                    *)
LEMMA GivesUp ==
    ASSUME CacheInv, NEW t \in Threads, thread[t].pc \in {"open", "acquire", "map", "table"},
           thread' = [thread EXCEPT ![t] = Idle], UNCHANGED <<cache, inserts, names>>,
           EnvType(env')
    PROVE  CacheInv'
<1>1. /\ names \in Nat /\ thread[t].handle = NULL /\ thread[t].pc # "evict"
      /\ Idle \in Work /\ Stage(Idle) /\ Idle.handle = NULL /\ Idle.pc = "idle"
  BY ThreadFacts
<1> QED BY <1>1, ShardKept

(* A thread that opens a table goes on.                                    *)
LEMMA GoesOn ==
    ASSUME CacheInv, NEW t \in Threads, thread[t].pc \in {"open", "acquire", "map"},
           NEW pc \in {"acquire", "map", "table"}, NEW raf \in Raf, raf.mapped => pc = "table",
           Become(t, pc, NULL, raf), UNCHANGED <<cache, inserts, names>>, EnvType(env')
    PROVE  CacheInv'
<1>1. /\ TypeInv /\ names \in Nat /\ thread[t].handle = NULL /\ thread[t].pc # "evict"
      /\ thread[t].file \in Files
  BY ThreadFacts
<1>2. PICK r : r = [pc |-> pc, file |-> thread[t].file, handle |-> NULL, raf |-> raf] OBVIOUS
<1>3. r \in Work /\ thread' = [thread EXCEPT ![t] = r]
  <2>1. pc \in PCs /\ NULL \in Nat BY DEF PCs, NULL
  <2> QED BY <2>1, <1>1, <1>2, BecomeIs
<1>4. Stage(r) BY <1>1, <1>2 DEF Stage, Idle
<1>5. r.handle = NULL /\ r.pc # "evict" BY <1>2
<1> QED BY <1>1, <1>3, <1>4, <1>5, ShardKept

(* FindTable, when the table is not cached.                                *)
LEMMA FindTableMisses ==
    ASSUME CacheInv, NEW t \in Threads, NEW f \in Files, thread[t] = Idle,
           thread' = [thread EXCEPT ![t] = [Idle EXCEPT !.pc = "open", !.file = f]],
           UNCHANGED <<cache, inserts, env, names>>
    PROVE  CacheInv'
<1>1. PICK r : r = [Idle EXCEPT !.pc = "open", !.file = f] OBVIOUS
<1>2. r = [pc |-> "open", file |-> f, handle |-> NULL, raf |-> NoFile] BY <1>1 DEF Idle
<1>3. r \in Work /\ Stage(r)
  BY <1>2 DEF Work, PCs, Raf, NoFile, NULL, Stage, Idle
<1>4. /\ thread[t].handle = NULL /\ thread[t].pc = "idle" /\ names' \in Nat /\ EnvType(env')
      /\ r.handle = NULL /\ r.pc = "open" /\ thread' = [thread EXCEPT ![t] = r]
  BY <1>1, <1>2, ThreadFacts
<1> QED BY <1>3, <1>4, ShardKept

(* The steps of opening a file.                                            *)
LEMMA OpeningKeeps ==
    ASSUME CacheInv, NEW t \in Threads,
           OpenFile(t) \/ Acquire(t) \/ Map(t) \/ MapFails(t) \/ OpenFails(t)
    PROVE  CacheInv'
<1>1. EnvType(env) /\ thread[t].raf \in Raf /\ thread[t].file \in Files \cup {NULL}
      /\ (thread[t].raf.mapped => thread[t].pc = "table")
  BY ThreadFacts
<1>2. CASE OpenFile(t)
  <2>1. thread[t].pc = "open" /\ UNCHANGED <<cache, inserts, names>> BY <1>2 DEF OpenFile
  <2>2. CASE thread[t].file \notin DOMAIN env.file_map
    BY <1>1, <1>2, <2>1, <2>2, GivesUp DEF OpenFile
  <2>3. CASE thread[t].file \in DOMAIN env.file_map
    <3>1. PICK s : s = env.file_map[thread[t].file] OBVIOUS
    <3>2. PICK raf : raf = [NoFile EXCEPT !.state = s] OBVIOUS
    <3>3. s \in Nat BY <1>1, <2>3, <3>1 DEF EnvType
    <3>4. raf \in Raf /\ ~raf.mapped BY <3>2, <3>3 DEF Raf, NoFile
    <3>5. PICK pc \in {"acquire", "table"} : Become(t, pc, NULL, raf)
      BY <1>2, <2>3, <3>1, <3>2 DEF OpenFile
    <3>6. EnvType(env')
      <4>1. env' = Ref(env, s) \/ env' = env BY <1>2, <2>3, <3>1 DEF OpenFile
      <4> QED BY <4>1, <1>1, RefIs
    <3> QED BY <2>1, <3>4, <3>5, <3>6, GoesOn
  <2> QED BY <2>2, <2>3
<1>3. CASE Acquire(t)
  <2>1. /\ thread[t].pc = "acquire" /\ UNCHANGED <<cache, inserts, names>>
        /\ ~thread[t].raf.mapped
    BY <1>1, <1>3 DEF Acquire
  <2>2. PICK pc \in {"map", "table"} : Become(t, pc, NULL, thread[t].raf) BY <1>3 DEF Acquire
  <2>3. EnvType(env')
    <3>1. CASE env.allowed > 0
      <4>1. env' = [env EXCEPT !.allowed = env.allowed - 1] BY <1>3, <3>1 DEF Acquire
      <4> QED BY <4>1, <3>1, <1>1, SlotsType DEF EnvType
    <3>2. CASE ~(env.allowed > 0) BY <1>1, <1>3, <3>2 DEF Acquire
    <3> QED BY <3>1, <3>2
  <2> QED BY <1>1, <2>1, <2>2, <2>3, GoesOn
<1>4. CASE Map(t)
  <2>1. PICK raf : raf = [thread[t].raf EXCEPT !.mapped = TRUE] OBVIOUS
  <2>2. raf \in Raf BY <1>1, <2>1 DEF Raf
  <2> QED BY <1>1, <1>4, <2>1, <2>2, GoesOn DEF Map
<1>5. CASE MapFails(t)
  <2>1. env' = [env EXCEPT !.allowed = env.allowed + 1] BY <1>5 DEF MapFails
  <2>2. EnvType(env') BY <1>1, <2>1, SlotsType DEF EnvType
  <2> QED BY <1>5, <2>2, GivesUp DEF MapFails
<1>6. CASE OpenFails(t)
  <2>1. PICK d : d = env' OBVIOUS
  <2>2. d = CloseFile(env, thread[t].raf) BY <1>6, <2>1 DEF OpenFails
  <2>3. EnvType(env') BY <1>1, <2>1, <2>2, CloseFileIs
  <2> QED BY <1>6, <2>3, GivesUp DEF OpenFails
<1> QED BY <1>2, <1>3, <1>4, <1>5, <1>6

(* The end of the loop of Insert: what remains in the cache fits in it.    *)
LEMMA EvictEndsKeeps ==
    ASSUME CacheInv, NEW t \in Threads, EvictEnds(t)
    PROVE  CacheInv'
<1>1. PICK S : S = InTable(cache) OBVIOUS
<1>2. /\ TypeInv /\ EnvType(env) /\ names \in Nat /\ NoFile \in Raf /\ ~NoFile.mapped
      /\ thread[t].handle \in Nat /\ thread[t].handle # NULL /\ thread[t].pc = "evict"
      /\ thread[t].file \in Files
  BY ThreadFacts DEF EvictEnds
<1>3. PICK r : r = [pc |-> "use", file |-> thread[t].file, handle |-> thread[t].handle,
                    raf |-> NoFile]
  OBVIOUS
<1>4. r \in Work /\ thread' = [thread EXCEPT ![t] = r]
  <2>1. "use" \in PCs BY DEF PCs
  <2>2. Become(t, "use", thread[t].handle, NoFile) BY DEF EvictEnds
  <2> QED BY <2>1, <2>2, <1>2, <1>3, BecomeIs
<1>5. Stage(r) BY <1>2, <1>3 DEF Stage, Idle
<1>6. CostIn(cache, S) <= capacity_
  <2>1. /\ inserts \in Nat /\ S \subseteq Allocated /\ Allocated \subseteq 1..inserts
        /\ Keyed(cache, Allocated) /\ cache.usage = CostIn(cache, Allocated)
        /\ Consistent(cache, inserts, S)
    BY <1>1, ShardFacts
  <2>2. capacity_ \in Nat BY CacheAssumption
  <2>3. CASE cache.usage <= capacity_
    <3>1. CostIn(cache, S) <= CostIn(cache, Allocated) BY <2>1, CostGrows
    <3>2. CostIn(cache, S) \in Nat /\ CostIn(cache, Allocated) \in Nat
      <4>1. Keyed(cache, S) /\ S \in SUBSET (1..inserts) BY <2>1 DEF Keyed
      <4> QED BY <4>1, <2>1, UnitsFinite
    <3> QED BY <2>1, <2>2, <2>3, <3>1, <3>2
  <2>4. CASE cache.lru = <<>>
    <3>1. S = {} BY <2>1, <2>4 DEF Consistent, ListIs, Range
    <3>2. Units(cache, S) = {} BY <3>1 DEF Units
    <3>3. CostIn(cache, S) = 0 BY <3>2, FS_EmptySet DEF CostIn
    <3> QED BY <3>3, <2>2
  <2> QED BY <2>3, <2>4 DEF EvictEnds
<1>7. r.handle = thread[t].handle /\ r.file = thread[t].file /\ r.pc = "use" BY <1>3
<1>8. UNCHANGED <<cache, inserts, env, names>> BY DEF EvictEnds
<1> QED BY <1>1, <1>2, <1>4, <1>5, <1>6, <1>7, <1>8, ShardKept

-----------------------------------------------------------------------------
(* The invariant holds.                                                    *)

(* An empty shard, and threads that do nothing.                            *)
LEMMA CacheInit == Init => CacheInv
<1> SUFFICES ASSUME Init PROVE CacheInv OBVIOUS
<1>1. PICK n : n = kMinLength OBVIOUS
<1>2. n \in Nat \ {0} BY <1>1, CacheAssumption
<1>3. /\ cache.handles = <<>> /\ cache.lru = <<>> /\ cache.usage = 0 /\ Shaped(cache)
      /\ cache.list = [b \in 0..n - 1 |-> {}] /\ inserts = 0 /\ names = 0
      /\ thread = [t \in Threads |-> Idle]
  BY <1>1 DEF Init, Shaped
<1>4. Idle \in Work /\ Stage(Idle) /\ Idle.handle = NULL /\ Idle.pc = "idle" /\ NULL \notin {}
  BY DEF Idle, Work, PCs, Raf, NoFile, NULL, Stage
<1>5. EnvType(env)
  <2>1. PICK kind : kind \in {"posix", "mem"} /\ \E st :
           env = [kind |-> kind, file_map |-> [f \in Files |-> f], states |-> st,
                  allowed |-> MaxMmaps]
    BY DEF Init
  <2>2. [f \in Files |-> f] \in [Files -> Nat] BY CacheAssumption
  <2>3. MaxMmaps \in Nat BY EnvAssumption
  <2> QED BY <2>1, <2>2, <2>3 DEF EnvType
<1>6. TypeInv BY <1>3, <1>4, <1>5 DEF TypeInv
<1>7. Allocated = {} BY <1>3 DEF Allocated
<1>8. Length(cache) = n
  <2>1. 0 \in Int /\ n - 1 \in Int /\ ~(0 > n - 1) BY <1>2
  <2>2. Cardinality(0..n - 1) = IF 0 > n - 1 THEN 0 ELSE n - 1 - 0 + 1 BY <2>1, FS_Interval
  <2>3. DOMAIN cache.list = 0..n - 1 BY <1>3
  <2> QED BY <2>1, <2>2, <2>3, <1>2 DEF Length
<1>9. InTable(cache) = {} BY <1>3 DEF InTable
<1>10. ShardInv
  <2>1. TableIs(cache, {}) BY <1>2, <1>3, <1>8 DEF TableIs, OneEach
  <2>2. ListIs(cache, {}) BY <1>3 DEF ListIs, Once, Range
  <2>3. ShardType(cache, inserts) BY <1>3 DEF ShardType
  <2> QED BY <2>1, <2>2, <2>3, <1>9 DEF ShardInv, Consistent
<1>11. HoldsInv BY <1>3, <1>4 DEF HoldsInv, Holds
<1>12. RefsCounted BY <1>7 DEF RefsCounted
<1>13. UsageInv
  <2>1. Units(cache, {}) = {} BY DEF Units
  <2>2. CostIn(cache, {}) = 0 BY <2>1, FS_EmptySet DEF CostIn
  <2>3. capacity_ \in Nat BY CacheAssumption
  <2> QED BY <2>2, <2>3, <1>3, <1>7, <1>9 DEF UsageInv
<1> QED BY <1>6, <1>10, <1>11, <1>12, <1>13 DEF CacheInv

(* Every action keeps the invariant.                                       *)
LEMMA CacheStep == CacheInv /\ [Next]_vars => CacheInv'
<1> SUFFICES ASSUME CacheInv, [Next]_vars PROVE CacheInv' OBVIOUS
<1>1. CASE UNCHANGED vars
  <2>1. /\ UNCHANGED <<cache, inserts, thread>> /\ EnvType(env') /\ names' \in Nat
    BY <1>1 DEF vars, CacheInv, TypeInv
  <2> QED BY <2>1, OnlyNames
<1>2. ASSUME NEW t \in Threads, NEW f \in Files, FindTable(t, f) PROVE CacheInv'
  <2>1. thread[t] = Idle /\ ~Locked /\ UNCHANGED <<inserts, env, names>> BY <1>2 DEF FindTable
  <2>2. CASE TableLookup(cache, f) # NULL BY <1>2, <2>1, <2>2, FindTableHits DEF FindTable
  <2>3. CASE TableLookup(cache, f) = NULL BY <1>2, <2>1, <2>3, FindTableMisses DEF FindTable
  <2> QED BY <2>2, <2>3
<1>3. ASSUME NEW t \in Threads, NEW f \in Files, Evict(t, f) \/ EvictOldest(t) PROVE CacheInv'
  BY <1>3, EvictsKeep
<1>4. ASSUME NEW t \in Threads,
             OpenFile(t) \/ Acquire(t) \/ Map(t) \/ MapFails(t) \/ OpenFails(t)
      PROVE  CacheInv'
  BY <1>4, OpeningKeeps
<1>5. ASSUME NEW t \in Threads, InsertTable(t) PROVE CacheInv' BY <1>5, InsertKeeps
<1>6. ASSUME NEW t \in Threads, EvictEnds(t) PROVE CacheInv' BY <1>6, EvictEndsKeeps
<1>7. ASSUME NEW t \in Threads, Release(t) PROVE CacheInv' BY <1>7, ReleaseKeeps
<1>8. CASE \E f \in Files : DeleteFile(f) \/ NewWritableFile(f) \/ \E g \in Files : RenameFile(f, g)
  <2>1. /\ UNCHANGED <<cache, inserts, thread>> /\ names' \in Nat /\ EnvType(env')
    BY <1>8, NamesChange DEF CacheInv
  <2> QED BY <2>1, OnlyNames
<1>9. ASSUME NEW t \in Threads, EvictOldest(t) PROVE CacheInv'
  <2>1. thread[t].pc = "evict" BY <1>9 DEF EvictOldest
  <2>2. thread[t].file \in Files BY <2>1, ThreadFacts
  <2> QED BY <2>2, <1>3, <1>9
<1> QED BY <1>1, <1>2, <1>3, <1>4, <1>5, <1>6, <1>7, <1>8, <1>9 DEF Next

(* The invariant of the cache and its threads, from which the theorems     *)
(* below follow.                                                           *)
THEOREM CacheInvHolds == Spec => []CacheInv
BY CacheInit, CacheStep, PTL DEF Spec

(* LRUCache::Unref: a handle that a thread uses is allocated and of the    *)
(* file the thread asked for, and no handle is leaked: its references are  *)
(* those of threads and of the cache, and there is one at least.           *)
THEOREM HandlesLiveHolds == Spec => []HandlesLive
<1>1. CacheInv => HandlesLive
  <2> SUFFICES ASSUME CacheInv PROVE HandlesLive OBVIOUS
  <2>1. HoldsInv /\ RefsCounted BY DEF CacheInv
  <2>2. cache.handles \in [Allocated -> Handle] BY ShardFacts
  <2>3. ASSUME NEW h \in Allocated, Holders(h) = {} PROVE h \in InTable(cache)
    <3>1. cache.handles[h].refs # 0 BY <2>2 DEF Handle
    <3>2. Cardinality(Holders(h)) = 0 BY <2>3, HoldersCount
    <3> QED BY <3>1, <3>2, <2>1 DEF RefsCounted
  <2> QED BY <2>1, <2>3 DEF HandlesLive, HoldsInv, Holds, Allocated
<1> QED BY <1>1, CacheInvHolds, PTL

(* HandleTable and LRUCache: the hash table and the LRU list hold the same *)
(* entries, one of each key, and a lookup finds each, also after a Resize. *)
THEOREM TableMatchesListHolds == Spec => []TableMatchesList
<1>1. CacheInv => TableMatchesList
  <2> SUFFICES ASSUME CacheInv PROVE TableMatchesList OBVIOUS
  <2>1. PICK S : S = InTable(cache) OBVIOUS
  <2>2. /\ inserts \in Nat /\ Consistent(cache, inserts, S) /\ TableIs(cache, S)
        /\ S \subseteq Allocated
    BY <2>1, ShardFacts
  <2>3. cache.lru \in Seq(1..inserts) /\ Keyed(cache, S) BY <2>2, TableHandles
  <2>4. Once(cache.lru) /\ Range(cache.lru) = S BY <2>2 DEF Consistent, ListIs
  <2>5. Cardinality(S) = Len(cache.lru) BY <2>3, <2>4, OnceCounts
  <2>6. ASSUME NEW h \in S PROVE TableLookup(cache, cache.handles[h].key) = h
    <3>1. cache.handles[h].key \in Files BY <2>3 DEF Keyed
    <3>2. OneEach(cache, S) BY <2>2 DEF TableIs
    <3> QED BY <3>1, <3>2, <2>2, LookupIs DEF OneEach
  <2> QED BY <2>1, <2>2, <2>4, <2>5, <2>6 DEF TableMatchesList, Elems
<1> QED BY <1>1, CacheInvHolds, PTL

(* LRUCache: usage_ is what the allocated handles cost, and when mutex_ is *)
(* released it is over the capacity only by what threads still hold.       *)
THEOREM UsageBoundedHolds == Spec => []UsageBounded
<1>1. CacheInv => UsageBounded
  <2> SUFFICES ASSUME CacheInv PROVE UsageBounded OBVIOUS
  <2>1. PICK S : S = InTable(cache) OBVIOUS
  <2>2. PICK H : H = {h \in Allocated : Holders(h) # {}} OBVIOUS
  <2>3. /\ inserts \in Nat /\ S \subseteq Allocated /\ Allocated \subseteq 1..inserts
        /\ Keyed(cache, Allocated) /\ cache.usage = CostIn(cache, Allocated)
        /\ cache.handles \in [Allocated -> Handle]
        /\ \A x \in Allocated :
              cache.handles[x].refs = Cardinality(Holders(x)) + (IF x \in S THEN 1 ELSE 0)
    BY <2>1, ShardFacts
  <2>4. \A hs : Cost(hs) = CostIn(cache, hs) BY DEF Cost, CostIn, Units
  <2>5. Allocated = S \cup H
    <3>1. ASSUME NEW h \in Allocated, h \notin S PROVE h \in H
      <4>1. Cardinality(Holders(h)) # 0 BY <2>3, <3>1 DEF Handle
      <4> QED BY <4>1, <2>2, HoldersCount
    <3> QED BY <3>1, <2>2, <2>3
  <2>6. CostIn(cache, S \cup H) <= CostIn(cache, S) + CostIn(cache, H)
    <3>1. S \in SUBSET (1..inserts) /\ H \in SUBSET (1..inserts) BY <2>2, <2>3
    <3> QED BY <3>1, <2>3, <2>5, CostUnion
  <2>7. /\ CostIn(cache, S \cup H) \in Nat /\ CostIn(cache, S) \in Nat
        /\ CostIn(cache, H) \in Nat
    <3>1. Keyed(cache, S) /\ Keyed(cache, H) BY <2>2, <2>3 DEF Keyed
    <3>2. S \in SUBSET (1..inserts) /\ H \in SUBSET (1..inserts) /\ Allocated \in SUBSET (1..inserts)
      BY <2>2, <2>3
    <3> QED BY <3>1, <3>2, <2>3, <2>5, UnitsFinite
  <2>8. ~Locked => CostIn(cache, S) <= capacity_ BY <2>1 DEF CacheInv, UsageInv
  <2>9. capacity_ \in Nat BY CacheAssumption
  <2>10. ~Locked => cache.usage <= capacity_ + CostIn(cache, H)
    BY <2>3, <2>5, <2>6, <2>7, <2>8, <2>9
  <2> QED BY <2>2, <2>3, <2>4, <2>10 DEF UsageBounded
<1> QED BY <1>1, CacheInvHolds, PTL

-----------------------------------------------------------------------------
(* The slots of the MmapLimiter.                                           *)

(* The mapped files of the cache and of threads, and the slots that are    *)
(* taken for files about to be mapped.                                     *)
MappedIn(hs) == {h \in hs : cache.handles[h].file.mapped}
MappedOpen   == {t \in Opening : thread[t].raf.mapped}
Mapping      == {t \in Threads : thread[t].pc = "map"}
IsOpen(w)    == w.pc = "table" /\ w.raf.mapped
SlotsOf(w)   == IF w.pc = "map" \/ IsOpen(w) THEN 1 ELSE 0
Slots        == env.allowed + Cardinality(MappedIn(Allocated)) + Cardinality(MappedOpen)
                            + Cardinality(Mapping)

(* They can be counted.                                                    *)
LEMMA SlotsCount ==
    ASSUME CacheInv
    PROVE  /\ IsFiniteSet(MappedIn(Allocated)) /\ IsFiniteSet(MappedOpen) /\ IsFiniteSet(Mapping)
           /\ Cardinality(MappedIn(Allocated)) \in Nat /\ Cardinality(MappedOpen) \in Nat
           /\ Cardinality(Mapping) \in Nat /\ env.allowed \in Nat
<1>1. inserts \in Nat /\ Allocated \subseteq 1..inserts
  <2>1. PICK S : S = InTable(cache) OBVIOUS
  <2> QED BY <2>1, ShardFacts
<1>2. IsFiniteSet(1..inserts)
  <2>1. 1 \in Int /\ inserts \in Int BY <1>1
  <2> QED BY <2>1, FS_Interval
<1>3. MappedIn(Allocated) \in SUBSET (1..inserts) BY <1>1 DEF MappedIn
<1>4. MappedOpen \in SUBSET Threads /\ Mapping \in SUBSET Threads
  BY DEF MappedOpen, Opening, Mapping
<1>5. IsFiniteSet(MappedIn(Allocated)) /\ IsFiniteSet(MappedOpen) /\ IsFiniteSet(Mapping)
  BY <1>2, <1>3, <1>4, CacheAssumption, FS_Subset
<1> QED BY <1>5, FS_CardinalityType DEF CacheInv, TypeInv, EnvType

(* Sets that differ in one element at most.                                *)
LEMMA OneChanges ==
    ASSUME NEW A, NEW B, NEW x, IsFiniteSet(A), B \ {x} = A \ {x}
    PROVE  /\ Cardinality(A) \in Nat /\ Cardinality(B) \in Nat
           /\ Cardinality(B) + (IF x \in A THEN 1 ELSE 0) = Cardinality(A) + (IF x \in B THEN 1 ELSE 0)
<1>1. /\ IsFiniteSet(A \ {x})
      /\ Cardinality(A \ {x}) = IF x \in A THEN Cardinality(A) - 1 ELSE Cardinality(A)
  BY FS_RemoveElement
<1>2. IsFiniteSet(B)
  <2>1. CASE x \in B
    <3>1. B = (A \ {x}) \cup {x} BY <2>1
    <3> QED BY <3>1, <1>1, FS_AddElement
  <2>2. CASE x \notin B
    <3>1. B = A \ {x} BY <2>2
    <3> QED BY <3>1, <1>1
  <2> QED BY <2>1, <2>2
<1>3. Cardinality(B \ {x}) = IF x \in B THEN Cardinality(B) - 1 ELSE Cardinality(B)
  BY <1>2, FS_RemoveElement
<1>4. Cardinality(A) \in Nat /\ Cardinality(B) \in Nat BY <1>2, FS_CardinalityType
<1> QED BY <1>1, <1>3, <1>4

(* What a step of a thread changes of the slots of threads.                *)
LEMMA ThreadSlots ==
    ASSUME CacheInv, NEW t \in Threads, NEW r \in Work, thread' = [thread EXCEPT ![t] = r]
    PROVE  /\ Cardinality(MappedOpen') \in Nat /\ Cardinality(Mapping') \in Nat
           /\ Cardinality(Mapping') + (IF thread[t].pc = "map" THEN 1 ELSE 0)
                 = Cardinality(Mapping) + (IF r.pc = "map" THEN 1 ELSE 0)
           /\ Cardinality(MappedOpen') + (IF IsOpen(thread[t]) THEN 1 ELSE 0)
                 = Cardinality(MappedOpen) + (IF IsOpen(r) THEN 1 ELSE 0)
<1>1. \A u \in Threads : thread'[u] = IF u = t THEN r ELSE thread[u] BY Moves DEF CacheInv
<1>2. Mapping' \ {t} = Mapping \ {t} BY <1>1 DEF Mapping
<1>3. MappedOpen' \ {t} = MappedOpen \ {t} BY <1>1 DEF MappedOpen, Opening
<1>4. /\ t \in Mapping <=> thread[t].pc = "map"
      /\ t \in Mapping' <=> r.pc = "map"
  BY <1>1 DEF Mapping
<1>5. /\ t \in MappedOpen <=> IsOpen(thread[t])
      /\ t \in MappedOpen' <=> IsOpen(r)
  BY <1>1 DEF MappedOpen, Opening, IsOpen
<1>6. IsFiniteSet(MappedOpen) /\ IsFiniteSet(Mapping) BY SlotsCount
<1>7. /\ Cardinality(Mapping') \in Nat
      /\ Cardinality(Mapping') + (IF thread[t].pc = "map" THEN 1 ELSE 0)
            = Cardinality(Mapping) + (IF r.pc = "map" THEN 1 ELSE 0)
  BY <1>2, <1>4, <1>6, OneChanges
<1>8. /\ Cardinality(MappedOpen') \in Nat
      /\ Cardinality(MappedOpen') + (IF IsOpen(thread[t]) THEN 1 ELSE 0)
            = Cardinality(MappedOpen) + (IF IsOpen(r) THEN 1 ELSE 0)
  BY <1>3, <1>5, <1>6, OneChanges
<1> QED BY <1>7, <1>8

(* What is freed gives its slot back.                                      *)
LEMMA ShardSlots ==
    ASSUME CacheInv, CacheBecomes(cache'), Kept, NEW A, A = Allocated \cap Allocated'
    PROVE  /\ env'.kind = env.kind /\ env'.allowed \in Nat
           /\ IsFiniteSet(MappedIn(A)') /\ Cardinality(MappedIn(A)') \in Nat
           /\ env.kind = "posix" => env'.allowed + Cardinality(MappedIn(A)')
                                      = env.allowed + Cardinality(MappedIn(Allocated))
<1>1. EnvType(env) BY DEF CacheInv, TypeInv
<1>2. EnvType(env') /\ env'.kind = env.kind BY <1>1, BecomesIs
<1>3. PICK M : M = MappedIn(Allocated) OBVIOUS
<1>4. PICK N : N = MappedIn(A)' OBVIOUS
<1>5. IsFiniteSet(M) BY <1>3, SlotsCount
<1>6. N = {h \in A : cache.handles[h].file.mapped} BY <1>4 DEF Kept, MappedIn
<1>7. env.allowed \in Nat /\ env'.allowed \in Nat BY <1>1, <1>2 DEF EnvType
<1>8. CASE Allocated \ Allocated' = {}
  <2>1. env' = env BY <1>8 DEF CacheBecomes, Allocated
  <2>2. N = M BY <1>3, <1>6, <1>8 DEF MappedIn
  <2> QED BY <2>1, <2>2, <1>2, <1>3, <1>4, <1>5, <1>7, FS_CardinalityType
<1>9. CASE Allocated \ Allocated' # {}
  <2>1. PICK h \in Allocated \ Allocated' : env' = CloseFile(env, cache.handles[h].file)
    BY <1>9 DEF CacheBecomes, Allocated
  <2>2. A = Allocated \ {h} BY <2>1 DEF Kept
  <2>3. N \ {h} = M \ {h} /\ h \notin N BY <2>2, <1>3, <1>6 DEF MappedIn
  <2>4. h \in M <=> cache.handles[h].file.mapped BY <2>1, <1>3 DEF MappedIn
  <2>5. /\ Cardinality(M) \in Nat /\ Cardinality(N) \in Nat
        /\ Cardinality(N) + (IF h \in M THEN 1 ELSE 0) = Cardinality(M)
    <3>1. /\ Cardinality(M) \in Nat /\ Cardinality(N) \in Nat
          /\ Cardinality(N) + (IF h \in M THEN 1 ELSE 0) = Cardinality(M) + (IF h \in N THEN 1 ELSE 0)
      BY <2>3, <1>5, OneChanges
    <3> QED BY <3>1, <2>3
  <2>6. env.kind = "posix" =>
           env'.allowed = IF cache.handles[h].file.mapped THEN env.allowed + 1 ELSE env.allowed
    <3>1. PICK d : d = env' OBVIOUS
    <3>2. PICK raf : raf = cache.handles[h].file OBVIOUS
    <3>3. d = CloseFile(env, raf) BY <2>1, <3>1, <3>2
    <3>4. env.kind = "posix" => d.allowed = IF raf.mapped THEN env.allowed + 1 ELSE env.allowed
      BY ONLY <3>3, <1>1, CloseFileIs
    <3> QED BY <3>1, <3>2, <3>4
  <2>7. IsFiniteSet(N)
    <3>1. \A x \in N : x \in M BY <2>3
    <3> QED BY <3>1, <1>5, FS_Subset
  <2> QED BY <2>4, <2>5, <2>6, <2>7, <1>2, <1>3, <1>4, <1>7
<1> QED BY <1>8, <1>9

(* SlotsConserved is about the slots left and those taken.                 *)
LEMMA Balanced ==
    ASSUME SlotsConserved, env'.kind = env.kind, env.kind = "posix" => Slots' = Slots
    PROVE  SlotsConserved'
BY DEF SlotsConserved, Slots, MappedIn, MappedOpen, Mapping

(* A step of a thread that opens a table.                                  *)
LEMMA OpenSlots ==
    ASSUME CacheInv, SlotsConserved, NEW t \in Threads, NEW r \in Work,
           thread' = [thread EXCEPT ![t] = r], UNCHANGED cache, env'.kind = env.kind,
           env.kind = "posix" => /\ env'.allowed \in Nat
                                 /\ env'.allowed + SlotsOf(r) = env.allowed + SlotsOf(thread[t])
    PROVE  SlotsConserved'
<1>1. /\ Cardinality(MappedOpen') \in Nat /\ Cardinality(Mapping') \in Nat
      /\ Cardinality(Mapping') + (IF thread[t].pc = "map" THEN 1 ELSE 0)
            = Cardinality(Mapping) + (IF r.pc = "map" THEN 1 ELSE 0)
      /\ Cardinality(MappedOpen') + (IF IsOpen(thread[t]) THEN 1 ELSE 0)
            = Cardinality(MappedOpen) + (IF IsOpen(r) THEN 1 ELSE 0)
  BY ThreadSlots
<1>2. MappedIn(Allocated)' = MappedIn(Allocated) BY DEF MappedIn, Allocated
<1>3. /\ Cardinality(MappedIn(Allocated)) \in Nat /\ Cardinality(MappedOpen) \in Nat
      /\ Cardinality(Mapping) \in Nat /\ env.allowed \in Nat
  BY SlotsCount
<1>4. \A w : SlotsOf(w) = (IF w.pc = "map" THEN 1 ELSE 0) + (IF IsOpen(w) THEN 1 ELSE 0)
  BY DEF SlotsOf, IsOpen
<1>5. env.kind = "posix" => Slots' = Slots BY <1>1, <1>2, <1>3, <1>4 DEF Slots
<1> QED BY <1>5, Balanced

(* A step that may free a handle, and in which no thread opens a table.    *)
LEMMA FreeSlots ==
    ASSUME CacheInv, SlotsConserved, CacheBecomes(cache'), Kept, Allocated' \subseteq Allocated,
           Mapping' = Mapping, MappedOpen' = MappedOpen
    PROVE  SlotsConserved'
<1>1. PICK A : A = Allocated \cap Allocated' OBVIOUS
<1>2. /\ env'.kind = env.kind /\ env'.allowed \in Nat /\ Cardinality(MappedIn(A)') \in Nat
      /\ env.kind = "posix" => env'.allowed + Cardinality(MappedIn(A)')
                                 = env.allowed + Cardinality(MappedIn(Allocated))
  BY <1>1, ShardSlots
<1>3. MappedIn(Allocated)' = MappedIn(A)' BY <1>1 DEF MappedIn
<1>4. /\ Cardinality(MappedIn(Allocated)) \in Nat /\ Cardinality(MappedOpen) \in Nat
      /\ Cardinality(Mapping) \in Nat /\ env.allowed \in Nat
  BY SlotsCount
<1>5. env.kind = "posix" => Slots' = Slots BY <1>2, <1>3, <1>4 DEF Slots
<1> QED BY <1>2, <1>5, Balanced

(* What InsertTable brings: the file of the thread is that of the handle.  *)
LEMMA InsertSlots ==
    ASSUME CacheInv, SlotsConserved, NEW t \in Threads, InsertTable(t)
    PROVE  SlotsConserved'
<1>1. PICK h : h = inserts + 1 OBVIOUS
<1>2. PICK raf : raf = thread[t].raf OBVIOUS
<1>3. /\ Kept /\ h \in Allocated' /\ h \notin Allocated /\ Allocated' \subseteq Allocated \cup {h}
      /\ cache'.handles[h].file = raf
  BY <1>1, <1>2, InsertKeeps
<1>4. PICK A : A = Allocated \cap Allocated' OBVIOUS
<1>5. CacheBecomes(cache')
  <2>1. PICK c : CacheBecomes(c) BY DEF InsertTable
  <2> QED BY <2>1 DEF CacheBecomes
<1>6. /\ env'.kind = env.kind /\ env'.allowed \in Nat
      /\ IsFiniteSet(MappedIn(A)') /\ Cardinality(MappedIn(A)') \in Nat
      /\ env.kind = "posix" => env'.allowed + Cardinality(MappedIn(A)')
                                 = env.allowed + Cardinality(MappedIn(Allocated))
  BY <1>3, <1>4, <1>5, ShardSlots
<1>7. Cardinality(MappedIn(Allocated)') =
         Cardinality(MappedIn(A)') + (IF raf.mapped THEN 1 ELSE 0)
  <2>1. PICK M : M = MappedIn(Allocated)' OBVIOUS
  <2>2. PICK N : N = MappedIn(A)' OBVIOUS
  <2>3. Allocated' = A \cup {h} /\ h \notin A BY <1>3, <1>4
  <2>4. M \ {h} = N \ {h} /\ h \notin N BY <2>1, <2>2, <2>3 DEF MappedIn
  <2>5. h \in M <=> raf.mapped BY <2>1, <1>3 DEF MappedIn
  <2>6. Cardinality(M) + (IF h \in N THEN 1 ELSE 0) = Cardinality(N) + (IF h \in M THEN 1 ELSE 0)
        /\ Cardinality(M) \in Nat
    BY <2>2, <2>4, <1>6, OneChanges
  <2>7. Cardinality(M) = Cardinality(N) + (IF raf.mapped THEN 1 ELSE 0) BY <2>4, <2>5, <2>6
  <2> QED BY <2>1, <2>2, <2>7
<1>8. PICK r : r = [pc |-> "evict", file |-> thread[t].file, handle |-> h, raf |-> NoFile] OBVIOUS
<1>9. r \in Work /\ thread' = [thread EXCEPT ![t] = r]
  <2>1. /\ TypeInv /\ NoFile \in Raf /\ inserts \in Nat BY ThreadFacts DEF TypeInv
  <2>2. Become(t, "evict", h, NoFile) BY <1>1 DEF InsertTable
  <2>3. "evict" \in PCs /\ h \in Nat BY <2>1, <1>1 DEF PCs
  <2> QED BY <2>1, <2>2, <2>3, <1>8, BecomeIs
<1>10. /\ thread[t].pc = "table" /\ (IsOpen(thread[t]) <=> raf.mapped)
       /\ r.pc = "evict" /\ ~IsOpen(r)
  BY <1>2, <1>8 DEF InsertTable, IsOpen
<1>11. /\ Cardinality(MappedOpen') \in Nat /\ Cardinality(Mapping') \in Nat
       /\ Cardinality(Mapping') = Cardinality(Mapping)
       /\ Cardinality(MappedOpen') + (IF raf.mapped THEN 1 ELSE 0) = Cardinality(MappedOpen)
  <2>1. /\ Cardinality(MappedOpen') \in Nat /\ Cardinality(Mapping') \in Nat
        /\ Cardinality(Mapping') + (IF thread[t].pc = "map" THEN 1 ELSE 0)
              = Cardinality(Mapping) + (IF r.pc = "map" THEN 1 ELSE 0)
        /\ Cardinality(MappedOpen') + (IF IsOpen(thread[t]) THEN 1 ELSE 0)
              = Cardinality(MappedOpen) + (IF IsOpen(r) THEN 1 ELSE 0)
    BY <1>9, ThreadSlots
  <2> QED BY <2>1, <1>10, SlotsCount
<1>12. env.kind = "posix" => Slots' = Slots
  BY <1>6, <1>7, <1>11, SlotsCount DEF Slots
<1> QED BY <1>6, <1>12, Balanced

(* The steps of opening a file take a slot, use it or give it back.        *)
LEMMA OpeningSlots ==
    ASSUME CacheInv, SlotsConserved, NEW t \in Threads,
           OpenFile(t) \/ Acquire(t) \/ Map(t) \/ MapFails(t) \/ OpenFails(t)
    PROVE  SlotsConserved'
<1>1. /\ TypeInv /\ EnvType(env) /\ thread[t].raf \in Raf
      /\ (thread[t].raf.mapped => thread[t].pc = "table")
      /\ Idle \in Work /\ Idle.pc = "idle" /\ NoFile \in Raf /\ ~NoFile.mapped
  BY ThreadFacts
<1>2. env.allowed \in Nat /\ SlotsOf(Idle) = 0 BY <1>1 DEF EnvType, SlotsOf, IsOpen
<1>3. ASSUME NEW pc \in PCs, NEW raf \in Raf, Become(t, pc, NULL, raf)
      PROVE  \E r \in Work : /\ thread' = [thread EXCEPT ![t] = r]
                             /\ SlotsOf(r) = IF pc = "map" \/ (pc = "table" /\ raf.mapped) THEN 1
                                            ELSE 0
  <2>1. PICK r : r = [pc |-> pc, file |-> thread[t].file, handle |-> NULL, raf |-> raf] OBVIOUS
  <2>2. NULL \in Nat BY DEF NULL
  <2>3. r \in Work /\ thread' = [thread EXCEPT ![t] = r] BY <1>1, <1>3, <2>1, <2>2, BecomeIs
  <2> QED BY <2>1, <2>3 DEF SlotsOf, IsOpen
<1>4. CASE OpenFile(t)
  <2>1. UNCHANGED cache /\ SlotsOf(thread[t]) = 0 BY <1>4 DEF OpenFile, SlotsOf, IsOpen
  <2>2. CASE thread[t].file \notin DOMAIN env.file_map
    <3>1. thread' = [thread EXCEPT ![t] = Idle] /\ env' = env BY <1>4, <2>2 DEF OpenFile
    <3> QED BY <3>1, <2>1, <1>1, <1>2, OpenSlots
  <2>3. CASE thread[t].file \in DOMAIN env.file_map
    <3>1. PICK s : s = env.file_map[thread[t].file] OBVIOUS
    <3>2. PICK raf : raf = [NoFile EXCEPT !.state = s] OBVIOUS
    <3>3. s \in Nat BY <1>1, <2>3, <3>1 DEF EnvType
    <3>4. raf \in Raf /\ ~raf.mapped BY <3>2, <3>3 DEF Raf, NoFile
    <3>5. PICK pc \in {"acquire", "table"} : Become(t, pc, NULL, raf)
      BY <1>4, <2>3, <3>1, <3>2 DEF OpenFile
    <3>6. pc \in PCs BY DEF PCs
    <3>7. PICK r \in Work : thread' = [thread EXCEPT ![t] = r] /\ SlotsOf(r) = 0
      BY <1>3, <3>4, <3>5, <3>6
    <3>8. env'.kind = env.kind /\ (env.kind = "posix" => env' = env)
      <4>1. env' = IF env.kind = "mem" THEN Ref(env, s) ELSE env BY <1>4, <2>3, <3>1 DEF OpenFile
      <4> QED BY <4>1, <1>1, RefIs
    <3> QED BY <2>1, <3>7, <3>8, <1>2, OpenSlots
  <2> QED BY <2>2, <2>3
<1>5. CASE Acquire(t)
  <2>1. UNCHANGED cache /\ ~thread[t].raf.mapped /\ SlotsOf(thread[t]) = 0
    BY <1>1, <1>5 DEF Acquire, SlotsOf, IsOpen
  <2>2. CASE env.allowed > 0
    <3>1. env' = [env EXCEPT !.allowed = env.allowed - 1] /\ Become(t, "map", NULL, thread[t].raf)
      BY <1>5, <2>2 DEF Acquire
    <3>2. env.allowed - 1 \in Nat BY <1>2, <2>2
    <3>3. env'.kind = env.kind /\ env'.allowed = env.allowed - 1 BY <3>1, <3>2, <1>1, SlotsType
    <3>4. PICK r \in Work : thread' = [thread EXCEPT ![t] = r] /\ SlotsOf(r) = 1
      BY <1>1, <1>3, <3>1 DEF PCs
    <3>5. env'.allowed + SlotsOf(r) = env.allowed + SlotsOf(thread[t]) BY <2>1, <3>3, <3>4, <1>2
    <3> QED BY <2>1, <3>2, <3>3, <3>4, <3>5, OpenSlots
  <2>3. CASE ~(env.allowed > 0)
    <3>1. env' = env /\ Become(t, "table", NULL, thread[t].raf) BY <1>5, <2>3 DEF Acquire
    <3>2. PICK r \in Work : thread' = [thread EXCEPT ![t] = r] /\ SlotsOf(r) = 0
      BY <1>1, <1>3, <2>1, <3>1 DEF PCs
    <3> QED BY <2>1, <3>1, <3>2, <1>2, OpenSlots
  <2> QED BY <2>2, <2>3
<1>6. CASE Map(t)
  <2>1. UNCHANGED cache /\ env' = env /\ SlotsOf(thread[t]) = 1 BY <1>6 DEF Map, SlotsOf
  <2>2. PICK raf : raf = [thread[t].raf EXCEPT !.mapped = TRUE] OBVIOUS
  <2>3. raf \in Raf /\ raf.mapped BY <1>1, <2>2 DEF Raf
  <2>4. Become(t, "table", NULL, raf) BY <1>6, <2>2 DEF Map
  <2>5. PICK r \in Work : thread' = [thread EXCEPT ![t] = r] /\ SlotsOf(r) = 1
    BY <1>3, <2>3, <2>4 DEF PCs
  <2> QED BY <2>1, <2>5, <1>2, OpenSlots
<1>7. CASE MapFails(t)
  <2>1. /\ UNCHANGED cache /\ thread' = [thread EXCEPT ![t] = Idle]
        /\ env' = [env EXCEPT !.allowed = env.allowed + 1] /\ SlotsOf(thread[t]) = 1
    BY <1>7 DEF MapFails, SlotsOf
  <2>2. env.allowed + 1 \in Nat BY <1>2
  <2>3. env'.kind = env.kind /\ env'.allowed = env.allowed + 1 BY <2>1, <2>2, <1>1, SlotsType
  <2>4. env'.allowed + SlotsOf(Idle) = env.allowed + SlotsOf(thread[t]) BY <2>1, <2>3, <1>2
  <2> QED BY <2>1, <2>2, <2>3, <2>4, <1>1, OpenSlots
<1>8. CASE OpenFails(t)
  <2>1. /\ thread[t].pc = "table" /\ UNCHANGED cache /\ thread' = [thread EXCEPT ![t] = Idle]
    BY <1>8 DEF OpenFails
  <2>2. PICK raf : raf = thread[t].raf OBVIOUS
  <2>3. PICK d : d = env' OBVIOUS
  <2>4. d = CloseFile(env, raf) BY <1>8, <2>2, <2>3 DEF OpenFails
  <2>5. /\ d.kind = env.kind
        /\ env.kind = "posix" => d.allowed = IF raf.mapped THEN env.allowed + 1 ELSE env.allowed
    BY ONLY <2>4, <1>1, CloseFileIs
  <2>6. SlotsOf(thread[t]) = IF raf.mapped THEN 1 ELSE 0 BY <2>1, <2>2 DEF SlotsOf, IsOpen
  <2>7. env.kind = "posix" => /\ env'.allowed \in Nat
                              /\ env'.allowed + SlotsOf(Idle) = env.allowed + SlotsOf(thread[t])
    BY <2>3, <2>5, <2>6, <1>2
  <2> QED BY <2>1, <2>3, <2>5, <2>7, <1>1, OpenSlots
<1> QED BY <1>4, <1>5, <1>6, <1>7, <1>8

(* Every step keeps the balance.                                           *)
LEMMA SlotsStep == CacheInv /\ SlotsConserved /\ [Next]_vars => SlotsConserved'
<1> SUFFICES ASSUME CacheInv, SlotsConserved, [Next]_vars PROVE SlotsConserved' OBVIOUS
<1>1. ASSUME UNCHANGED <<cache, thread>>, env'.kind = env.kind, env'.allowed = env.allowed
      PROVE  SlotsConserved'
  <2>1. Slots' = Slots
    BY <1>1 DEF Slots, MappedIn, Allocated, MappedOpen, Opening, Mapping
  <2> QED BY <1>1, <2>1, Balanced
<1>2. CASE UNCHANGED vars BY <1>1, <1>2 DEF vars
<1>3. ASSUME NEW t \in Threads, NEW f \in Files, FindTable(t, f) PROVE SlotsConserved'
  <2>1. thread[t] = Idle /\ ~Locked /\ UNCHANGED <<inserts, env, names>> BY <1>3 DEF FindTable
  <2>2. PICK pc \in PCs, h \in Nat :
           thread' = [thread EXCEPT ![t] = [Idle EXCEPT !.pc = pc, !.file = f, !.handle = h]]
           /\ pc # "map"
           /\ \/ Allocated' = Allocated /\ Kept
              \/ cache' = cache
    <3>1. CASE TableLookup(cache, f) # NULL
      <4>1. Allocated' = Allocated /\ Kept BY <1>3, <2>1, <3>1, FindTableHits DEF FindTable
      <4>2. TableLookup(cache, f) \in Nat
        <5>1. PICK S : S = InTable(cache) OBVIOUS
        <5> QED BY <5>1, <3>1, ShardFacts, LookupIs
      <4> QED BY <4>1, <4>2, <1>3, <3>1 DEF FindTable, PCs
    <3>2. CASE TableLookup(cache, f) = NULL
      <4>1. /\ thread' = [thread EXCEPT ![t] = [Idle EXCEPT !.pc = "open", !.file = f]]
            /\ cache' = cache
        BY <1>3, <3>2 DEF FindTable
      <4>2. [Idle EXCEPT !.pc = "open", !.file = f]
               = [Idle EXCEPT !.pc = "open", !.file = f, !.handle = NULL]
        <5>1. PICK a : a = [Idle EXCEPT !.pc = "open", !.file = f] OBVIOUS
        <5>2. a = [pc |-> "open", file |-> f, handle |-> NULL, raf |-> NoFile] BY <5>1 DEF Idle
        <5>3. [a EXCEPT !.handle = NULL] = a BY <5>2
        <5> QED BY <5>1, <5>3
      <4> QED BY <4>1, <4>2 DEF PCs, NULL
    <3> QED BY <3>1, <3>2
  <2>3. PICK r : r = [Idle EXCEPT !.pc = pc, !.file = f, !.handle = h] OBVIOUS
  <2>4. r = [pc |-> pc, file |-> f, handle |-> h, raf |-> NoFile] BY <2>3 DEF Idle
  <2>5. r \in Work /\ ~IsOpen(r) /\ r.pc # "map"
    BY <2>2, <2>4 DEF Work, Raf, NoFile, NULL, IsOpen
  <2>6. thread' = [thread EXCEPT ![t] = r] BY <2>2, <2>3
  <2>7. ~IsOpen(thread[t]) /\ thread[t].pc # "map" BY <2>1 DEF Idle, IsOpen
  <2>8. Cardinality(MappedOpen') = Cardinality(MappedOpen) /\ Cardinality(Mapping') = Cardinality(Mapping)
    <3>1. /\ Cardinality(MappedOpen') \in Nat /\ Cardinality(Mapping') \in Nat
          /\ Cardinality(Mapping') + (IF thread[t].pc = "map" THEN 1 ELSE 0)
                = Cardinality(Mapping) + (IF r.pc = "map" THEN 1 ELSE 0)
          /\ Cardinality(MappedOpen') + (IF IsOpen(thread[t]) THEN 1 ELSE 0)
                = Cardinality(MappedOpen) + (IF IsOpen(r) THEN 1 ELSE 0)
      BY <2>5, <2>6, ThreadSlots
    <3> QED BY <3>1, <2>5, <2>7, SlotsCount
  <2>9. MappedIn(Allocated)' = MappedIn(Allocated) BY <2>2 DEF MappedIn, Allocated, Kept
  <2>10. Slots' = Slots BY <2>1, <2>8, <2>9 DEF Slots
  <2> QED BY <2>1, <2>10, Balanced
<1>4. ASSUME NEW t \in Threads,
             OpenFile(t) \/ Acquire(t) \/ Map(t) \/ MapFails(t) \/ OpenFails(t)
      PROVE  SlotsConserved'
  BY <1>4, OpeningSlots
<1>5. ASSUME NEW t \in Threads, InsertTable(t) PROVE SlotsConserved' BY <1>5, InsertSlots
<1>6. ASSUME NEW t \in Threads, NEW f \in Files, Evict(t, f) \/ EvictOldest(t)
      PROVE  SlotsConserved'
  <2>1. Allocated' \subseteq Allocated /\ Kept BY <1>6, EvictsKeep
  <2>2. CacheBecomes(cache') /\ UNCHANGED thread
    <3>1. PICK c : CacheBecomes(c) BY <1>6 DEF Evict, EvictOldest
    <3> QED BY <3>1, <1>6 DEF CacheBecomes, Evict, EvictOldest
  <2>3. Mapping' = Mapping /\ MappedOpen' = MappedOpen BY <2>2 DEF Mapping, MappedOpen, Opening
  <2> QED BY <2>1, <2>2, <2>3, FreeSlots
<1>7. ASSUME NEW t \in Threads, EvictOldest(t) PROVE SlotsConserved'
  <2>1. thread[t].pc = "evict" BY <1>7 DEF EvictOldest
  <2>2. thread[t].file \in Files BY <2>1, ThreadFacts
  <2> QED BY <2>2, <1>6, <1>7
<1>8. ASSUME NEW t \in Threads, Release(t) PROVE SlotsConserved'
  <2>1. Allocated' \subseteq Allocated /\ Kept BY <1>8, ReleaseKeeps
  <2>2. CacheBecomes(cache')
    <3>1. PICK c : CacheBecomes(c) BY <1>8 DEF Release
    <3> QED BY <3>1 DEF CacheBecomes
  <2>3. thread[t].pc = "use" /\ thread' = [thread EXCEPT ![t] = Idle] BY <1>8 DEF Release
  <2>4. \A u \in Threads : thread'[u] = IF u = t THEN Idle ELSE thread[u]
    BY <2>3, Moves, ThreadFacts
  <2>5. Mapping' = Mapping /\ MappedOpen' = MappedOpen
    BY <2>3, <2>4 DEF Mapping, MappedOpen, Opening, Idle
  <2> QED BY <2>1, <2>2, <2>5, FreeSlots
<1>9. ASSUME NEW t \in Threads, EvictEnds(t) PROVE SlotsConserved'
  <2>1. /\ TypeInv /\ NoFile \in Raf /\ ~NoFile.mapped /\ thread[t].handle \in Nat
        /\ thread[t].pc = "evict"
    BY <1>9, ThreadFacts DEF EvictEnds
  <2>2. PICK r : r = [pc |-> "use", file |-> thread[t].file, handle |-> thread[t].handle,
                      raf |-> NoFile]
    OBVIOUS
  <2>3. r \in Work /\ thread' = [thread EXCEPT ![t] = r]
    <3>1. "use" \in PCs /\ Become(t, "use", thread[t].handle, NoFile) BY <1>9 DEF PCs, EvictEnds
    <3> QED BY <3>1, <2>1, <2>2, BecomeIs
  <2>4. SlotsOf(thread[t]) = 0 /\ SlotsOf(r) = 0 BY <2>1, <2>2 DEF SlotsOf, IsOpen
  <2>5. UNCHANGED <<cache, env>> BY <1>9 DEF EvictEnds
  <2> QED BY <2>1, <2>3, <2>4, <2>5, SlotsCount, OpenSlots
<1>10. CASE \E f \in Files : DeleteFile(f) \/ NewWritableFile(f) \/ \E g \in Files : RenameFile(f, g)
  <2>1. /\ UNCHANGED <<cache, thread>> /\ env'.kind = env.kind /\ env'.allowed = env.allowed
    BY <1>10, NamesChange DEF CacheInv
  <2> QED BY <2>1, <1>1
<1> QED BY <1>2, <1>3, <1>4, <1>5, <1>6, <1>7, <1>8, <1>9, <1>10 DEF Next

(* MmapLimiter: the slots left, the mapped files and those about to be     *)
(* mapped always make up all slots: none is lost on a failed open or given *)
(* back twice.                                                             *)
THEOREM SlotsConservedHolds == Spec => []SlotsConserved
<1>1. Init => SlotsConserved
  <2> SUFFICES ASSUME Init PROVE SlotsConserved OBVIOUS
  <2>1. env.allowed = MaxMmaps BY DEF Init
  <2>2. MappedIn(Allocated) = {} BY DEF Init, MappedIn, Allocated
  <2>3. MappedOpen = {} /\ Mapping = {} BY DEF Init, MappedOpen, Opening, Mapping, Idle
  <2>4. MaxMmaps \in Nat BY EnvAssumption
  <2>5. Slots = MaxMmaps BY <2>1, <2>2, <2>3, <2>4, FS_EmptySet DEF Slots
  <2> QED BY <2>5 DEF SlotsConserved, Slots, MappedIn, MappedOpen, Mapping
<1> QED BY <1>1, SlotsStep, CacheInvHolds, PTL DEF Spec

-----------------------------------------------------------------------------
(* FileState.                                                              *)

Byte == Nat
Block == [1..kBlockSize -> Byte]

(* The blocks bs hold the first n bytes of data, and no block is unused.   *)
Holding(bs, n, data) ==
    /\ bs \in Seq(Block) /\ n \in 0..Len(data) /\ data \in Seq(Byte)
    /\ n <= kBlockSize * Len(bs) /\ kBlockSize * Len(bs) < n + kBlockSize
    /\ \A b \in 0..Len(bs) - 1, i \in 1..kBlockSize :
          kBlockSize * b + i <= n => bs[b + 1][i] = data[kBlockSize * b + i]

(* Products, so that the provers need not look into them.                  *)
LEMMA Products ==
    ASSUME NEW a \in Nat, NEW b \in Int
    PROVE  /\ a * b \in Int /\ a * (b + 1) = a * b + a
           /\ b >= 0 => a * b >= 0
OBVIOUS

(* The block of a byte and its place there.                                *)
LEMMA Division ==
    ASSUME NEW n \in Nat
    PROVE  /\ n \div kBlockSize \in Nat /\ n % kBlockSize \in 0..kBlockSize - 1
           /\ n = kBlockSize * (n \div kBlockSize) + (n % kBlockSize)
BY EnvAssumption

(* Which block a position is in.                                           *)
LEMMA BlockOf ==
    ASSUME NEW a \in Nat, NEW b \in Nat, kBlockSize * a < kBlockSize * b
    PROVE  a < b
<1> SUFFICES ASSUME ~(a < b) PROVE FALSE OBVIOUS
<1>1. a - b \in Nat /\ kBlockSize \in Nat BY EnvAssumption
<1>2. kBlockSize * (a - b) >= 0 BY <1>1, Products
<1>3. kBlockSize * (a - b) = kBlockSize * a - kBlockSize * b BY <1>1
<1> QED BY <1>2, <1>3, <1>1

(* A measure that each step makes smaller is 0 in the end.                 *)
Descends(n, S, step, m) ==
    /\ m \in [S -> Nat]
    /\ \A k \in 1..n, s \in S :
          step[k][s] \in S /\ (IF m[s] = 0 THEN m[step[k][s]] = 0 ELSE m[step[k][s]] < m[s])

(* After as many steps as the measure was at the start.                    *)
LEMMA IteratesEnd ==
    ASSUME NEW S, NEW step, NEW x, NEW n \in Nat, NEW f, Iterates(f, n, S, step, x),
           NEW m, Descends(n, S, step, m), m[x] <= n
    PROVE  f[n] \in S /\ m[f[n]] = 0
<1> DEFINE Bad == {k \in 0..n : ~(m[f[k]] = 0 \/ m[f[k]] <= n - k)}
<1>1. \A k \in 0..n : f[k] \in S /\ m[f[k]] \in Nat BY DEF Iterates, Descends
<1>2. Bad = {}
  <2> SUFFICES ASSUME Bad # {} PROVE FALSE OBVIOUS
  <2>1. PICK k \in Bad : \A j \in Bad : k <= j
    <3>1. Bad \subseteq Nat OBVIOUS
    <3> QED BY <3>1, NatMin
  <2>2. k # 0 BY <2>1 DEF Iterates
  <2>3. k \in 1..n /\ k - 1 \in 0..n /\ ~(k <= k - 1) /\ k \in 0..n BY <2>1, <2>2
  <2>4. m[f[k - 1]] = 0 \/ m[f[k - 1]] <= n - (k - 1) BY <2>1, <2>3
  <2>5. f[k] = step[k][f[k - 1]] BY <2>3 DEF Iterates
  <2>6. m[f[k]] \in Nat /\ m[f[k - 1]] \in Nat /\ f[k - 1] \in S BY <2>3, <1>1
  <2>7. m[f[k]] = 0 \/ m[f[k]] < m[f[k - 1]] BY <2>3, <2>5, <2>6 DEF Descends
  <2>8. m[f[k]] = 0 \/ m[f[k]] <= n - k BY <2>3, <2>4, <2>6, <2>7
  <2> QED BY <2>1, <2>8
<1>3. n \in 0..n OBVIOUS
<1>4. m[f[n]] = 0 \/ m[f[n]] <= n - n BY <1>2, <1>3
<1> QED BY <1>1, <1>3, <1>4

(* A part of a sequence.                                                   *)
LEMMA PartIs ==
    ASSUME NEW S, NEW s \in Seq(S), NEW a \in Nat, NEW b \in Nat, a <= b, b <= Len(s),
           NEW p, p = SubSeq(s, a + 1, b)
    PROVE  p \in Seq(S) /\ Len(p) = b - a /\ \A i \in 1..b - a : p[i] = s[a + i]
<1>1. a + 1 \in Nat \ {0} /\ Len(s) \in Nat /\ b - a \in Nat OBVIOUS
<1>2. p \in Seq(S) BY <1>1
<1>3. Len(p) = b - a BY <1>1
<1>4. \A i \in 1..b - a : p[i] = s[a + i] BY <1>1
<1> QED BY <1>2, <1>3, <1>4

(* One sequence after another.                                             *)
LEMMA JoinIs ==
    ASSUME NEW S, NEW s \in Seq(S), NEW t \in Seq(S), NEW st, st = s \o t
    PROVE  /\ st \in Seq(S) /\ Len(st) = Len(s) + Len(t) /\ Len(s) \in Nat /\ Len(t) \in Nat
           /\ \A i \in 1..Len(s) : st[i] = s[i]
           /\ \A i \in 1..Len(t) : st[Len(s) + i] = t[i]
<1>1. Len(s) \in Nat /\ Len(t) \in Nat /\ st \in Seq(S) OBVIOUS
<1>2. Len(st) = Len(s) + Len(t) OBVIOUS
<1>3. \A i \in 1..Len(s) : st[i] = s[i] OBVIOUS
<1>4. \A i \in 1..Len(t) : st[Len(s) + i] = t[i] OBVIOUS
<1> QED BY <1>1, <1>2, <1>3, <1>4

(* The smaller of two numbers.                                             *)
LEMMA MinOfTwo ==
    ASSUME NEW a \in Nat, NEW b \in Nat
    PROVE  Min({a, b}) = IF a <= b THEN a ELSE b
<1>1. \E m \in {a, b} : \A n \in {a, b} : m <= n OBVIOUS
<1>2. Min({a, b}) \in {a, b} /\ \A n \in {a, b} : Min({a, b}) <= n BY <1>1 DEF Min
<1> QED BY <1>2

(* A loop of Append that is to write D: what is written, and what is left. *)
Appending(D) ==
    {s \in [blocks : Seq(Block), size : Nat, src : Seq(Byte)] :
        Holding(s.blocks, s.size, D) /\ s.src = SubSeq(D, s.size + 1, Len(D))}

(* The last block, a new one perhaps, has room.                            *)
Room(bs, n) == IF n % kBlockSize # 0 THEN bs ELSE Append(bs, [i \in 1..kBlockSize |-> Junk])

(* It has, and what was written is still there.                            *)
LEMMA RoomIs ==
    ASSUME NEW D, NEW bs, NEW n, Holding(bs, n, D), NEW rs, rs = Room(bs, n),
           NEW q, q = n \div kBlockSize
    PROVE  /\ rs \in Seq(Block) /\ Len(rs) = q + 1
           /\ \A b \in 0..q, i \in 1..kBlockSize :
                 kBlockSize * b + i <= n => rs[b + 1][i] = D[kBlockSize * b + i]
<1>1. PICK k : k = kBlockSize OBVIOUS
<1>2. PICK L : L = Len(bs) OBVIOUS
<1>3. k \in Nat \ {0} /\ n \in Nat /\ bs \in Seq(Block) /\ L \in Nat /\ DOMAIN bs = 1..L
      /\ n <= k * L /\ k * L < n + k
  BY <1>1, <1>2, EnvAssumption DEF Holding
<1>4. PICK o : o = n % k OBVIOUS
<1>5. q \in Nat /\ o \in 0..k - 1 /\ n = k * q + o BY <1>1, <1>3, <1>4, Division
<1>6. \A b \in 0..L - 1, i \in 1..k : k * b + i <= n => bs[b + 1][i] = D[k * b + i]
  BY <1>1, <1>2 DEF Holding
<1>7. CASE o # 0
  <2>1. rs = bs BY <1>1, <1>4, <1>7 DEF Room
  <2>2. q < L
    <3>1. k * q < k * L BY <1>3, <1>5, <1>7
    <3> QED BY <3>1, <1>1, <1>3, <1>5, BlockOf
  <2>3. L < q + 2
    <3>1. k * (q + 1) = k * q + k /\ k * q \in Int BY <1>3, <1>5, Products
    <3>2. PICK r : r = q + 1 OBVIOUS
    <3>3. r \in Int /\ r + 1 \in Nat /\ r + 1 = q + 2 BY <3>2, <1>5
    <3>4. k * (r + 1) = k * r + k /\ k * r \in Int BY <3>3, <1>3, Products
    <3>5. k * r = k * q + k BY <3>1, <3>2
    <3>6. k * L < k * (r + 1)
      <4>1. k * L \in Int /\ k * L < n + k /\ k \in Nat /\ n \in Nat BY <1>3, Products
      <4>2. n = k * q + o /\ o < k BY <1>5, <1>3
      <4>3. k * (r + 1) = k * q + k + k BY <3>1, <3>4, <3>5
      <4> QED BY <4>1, <4>2, <4>3, <3>1, <1>5
    <3>7. L < r + 1 BY <3>6, <3>3, <1>1, <1>3, BlockOf
    <3> QED BY <3>3, <3>7
  <2>4. L = q + 1 BY <2>2, <2>3, <1>3, <1>5
  <2>5. Len(rs) = q + 1 /\ rs \in Seq(Block) BY <2>1, <2>4, <1>2, <1>3
  <2>6. L - 1 = q BY <2>4, <1>5
  <2>7. \A b \in 0..q, i \in 1..k : k * b + i <= n => rs[b + 1][i] = D[k * b + i]
    BY <2>1, <2>6, <1>6
  <2> QED BY <2>5, <2>7, <1>1
<1>8. CASE o = 0
  <2>1. q <= L
    <3>1. k * (L + 1) = k * L + k BY <1>3, Products
    <3>2. k * q < k * (L + 1) BY <3>1, <1>3, <1>5, <1>8
    <3> QED BY <3>2, <1>1, <1>3, <1>5, BlockOf
  <2>2. L < q + 1
    <3>1. k * (q + 1) = k * q + k BY <1>3, <1>5, Products
    <3>2. k * L < k * (q + 1) BY <3>1, <1>3, <1>5, <1>8
    <3> QED BY <3>2, <1>1, <1>3, <1>5, BlockOf
  <2>3. L = q BY <2>1, <2>2, <1>3, <1>5
  <2>4. PICK j : j = [i \in 1..kBlockSize |-> Junk] OBVIOUS
  <2>5. j \in Block BY <2>4 DEF Block, Byte, Junk
  <2>6. rs = Append(bs, j) BY <1>1, <1>4, <1>8, <2>4 DEF Room
  <2>7. rs \in Seq(Block) /\ Len(rs) = q + 1 BY <2>3, <2>5, <2>6, <1>2, <1>3
  <2>8. ASSUME NEW b \in 0..q, NEW i \in 1..k, k * b + i <= n PROVE rs[b + 1][i] = D[k * b + i]
    <3>1. b # q BY <2>8, <1>5, <1>8, <1>3
    <3>2. b \in 0..L - 1 /\ b + 1 \in 1..L BY <3>1, <2>3, <1>5
    <3>3. rs[b + 1] = bs[b + 1] BY <3>2, <2>5, <2>6, <1>2, <1>3
    <3> QED BY <3>2, <3>3, <2>8, <1>6
  <2> QED BY <2>7, <2>8, <1>1
<1> QED BY <1>7, <1>8, <1>5

(* A round of Append writes the next bytes, and leaves fewer.              *)
LEMMA AppendRoundIs ==
    ASSUME NEW D, NEW s \in Appending(D), s.src # <<>>, NEW d, d = AppendRound(s)
    PROVE  d \in Appending(D) /\ d.size > s.size
<1>1. PICK k : k = kBlockSize OBVIOUS
<1>2. PICK n : n = s.size OBVIOUS
<1>3. PICK src : src = s.src OBVIOUS
<1>4. /\ k \in Nat \ {0} /\ n \in 0..Len(D) /\ D \in Seq(Byte) /\ Len(D) \in Nat
      /\ src = SubSeq(D, n + 1, Len(D)) /\ src # <<>> /\ Holding(s.blocks, n, D) /\ n \in Nat
  BY <1>1, <1>2, <1>3, EnvAssumption DEF Appending, Holding
<1>5. /\ src \in Seq(Byte) /\ Len(src) = Len(D) - n /\ Len(src) \in Nat \ {0}
      /\ \A i \in 1..Len(D) - n : src[i] = D[n + i]
  <2>1. src \in Seq(Byte) /\ Len(src) = Len(D) - n BY <1>4
  <2>2. \A i \in 1..Len(D) - n : src[i] = D[n + i] BY <1>4
  <2>3. Len(src) # 0 BY <2>1, <1>4
  <2> QED BY <2>1, <2>2, <2>3, <1>4
<1>6. PICK o : o = n % k OBVIOUS
<1>7. PICK q : q = n \div k OBVIOUS
<1>8. q \in Nat /\ o \in 0..k - 1 /\ n = k * q + o BY <1>1, <1>4, <1>6, <1>7, Division
<1>9. PICK rs : rs = Room(s.blocks, n) OBVIOUS
<1>10. /\ rs \in Seq(Block) /\ Len(rs) = q + 1
       /\ \A b \in 0..q, i \in 1..k : k * b + i <= n => rs[b + 1][i] = D[k * b + i]
  <2>1. /\ rs \in Seq(Block) /\ Len(rs) = q + 1
        /\ \A b \in 0..q, i \in 1..kBlockSize :
              kBlockSize * b + i <= n => rs[b + 1][i] = D[kBlockSize * b + i]
    <3>1. PICK blocks : blocks = s.blocks OBVIOUS
    <3>2. Holding(blocks, n, D) /\ rs = Room(blocks, n) /\ q = n \div kBlockSize
      BY <3>1, <1>1, <1>4, <1>7, <1>9
    <3> QED BY <3>2, RoomIs
  <2> QED BY <2>1, <1>1
<1>11. PICK a : a = Min({k - o, Len(src)}) OBVIOUS
<1>12. a \in Nat \ {0} /\ a <= k - o /\ a <= Len(D) - n
  <2>1. k - o \in Nat \ {0} BY <1>4, <1>8
  <2> QED BY <2>1, <1>5, <1>11, MinOfTwo
<1>13. PICK nb : nb = [i \in 1..k |-> IF i \in o + 1..o + a THEN src[i - o] ELSE rs[q + 1][i]]
  OBVIOUS
<1>14. d = [blocks |-> [rs EXCEPT ![q + 1] = nb], size |-> n + a, src |-> SubSeq(src, a + 1, Len(src))]
  <2>1. d = [blocks |-> [rs EXCEPT ![Len(rs)] =
                [i \in 1..k |-> IF i \in o + 1..o + a THEN src[i - o] ELSE rs[Len(rs)][i]]],
             size |-> n + a, src |-> SubSeq(src, a + 1, Len(src))]
    <3>1. rs = IF o # 0 THEN s.blocks ELSE Append(s.blocks, [i \in 1..k |-> Junk])
      BY <1>1, <1>6, <1>9 DEF Room
    <3> QED BY <3>1, <1>1, <1>2, <1>3, <1>6, <1>11 DEF AppendRound
  <2> QED BY <2>1, <1>10, <1>13
<1>15. rs[q + 1] \in Block BY <1>8, <1>10
<1>16. \A i \in o + 1..o + a : src[i - o] = D[k * q + i] /\ src[i - o] \in Byte
  <2>1. ASSUME NEW i \in o + 1..o + a PROVE src[i - o] = D[k * q + i] /\ src[i - o] \in Byte
    <3>1. i - o \in 1..Len(D) - n /\ i - o \in 1..Len(src)
      <4>1. o \in Nat /\ a \in Nat /\ Len(D) \in Nat /\ n \in Nat BY <1>4, <1>8, <1>12
      <4>2. i - o >= 1 /\ i - o <= a /\ i - o \in Int BY <4>1
      <4> QED BY <4>1, <4>2, <1>5, <1>12
    <3>2. n + (i - o) = k * q + i
      <4>1. k * q \in Int BY <1>4, <1>8
      <4> QED BY <4>1, <1>4, <1>8
    <3> QED BY <3>1, <3>2, <1>5
  <2> QED BY <2>1
<1>17. nb \in Block
  <2>1. \A i \in 1..k : rs[q + 1][i] \in Byte BY <1>1, <1>15 DEF Block
  <2> QED BY <2>1, <1>1, <1>13, <1>16 DEF Block
<1>18. PICK bs : bs = [rs EXCEPT ![q + 1] = nb] OBVIOUS
<1>19. /\ bs \in Seq(Block) /\ Len(bs) = q + 1 /\ bs[q + 1] = nb
       /\ \A b \in 0..q : b # q => bs[b + 1] = rs[b + 1]
  BY <1>8, <1>10, <1>17, <1>18
<1>20. k * (q + 1) = k * q + k /\ k * q \in Int BY <1>4, <1>8, Products
<1>21. n + a <= k * (q + 1) /\ k * (q + 1) < n + a + k BY <1>4, <1>8, <1>12, <1>20
<1>22. ASSUME NEW b \in 0..q, NEW i \in 1..k, k * b + i <= n + a
       PROVE  bs[b + 1][i] = D[k * b + i]
  <2>1. CASE b # q
    <3>1. k * b + i <= n
      <4>1. (q - (b + 1)) \in Nat /\ b \in Nat BY <2>1, <1>8
      <4>2. k * (q - (b + 1)) >= 0 BY <4>1, <1>4, Products
      <4>3. k * (q - (b + 1)) = k * q - (k * b + k) /\ k * b \in Int BY <4>1, <1>4, <1>8
      <4>4. i <= k /\ i \in Int /\ n \in Int /\ k \in Int /\ o \in Nat BY <1>4, <1>8
      <4>5. k * b + k <= k * q BY <4>2, <4>3, <4>4, <1>20
      <4> QED BY <4>3, <4>4, <4>5, <1>8, <1>20
    <3> QED BY <2>1, <3>1, <1>10, <1>19
  <2>2. CASE b = q /\ i \in o + 1..o + a BY <2>2, <1>13, <1>16, <1>19
  <2>3. CASE b = q /\ i \notin o + 1..o + a
    <3>1. k * q + i <= n BY <2>3, <1>22, <1>4, <1>8, <1>12, <1>20
    <3>2. bs[q + 1][i] = rs[q + 1][i] BY <2>3, <1>13, <1>19
    <3> QED BY <2>3, <3>1, <3>2, <1>8, <1>10
  <2> QED BY <2>1, <2>2, <2>3
<1>23. n + a \in 0..Len(D) /\ n + a \in Nat BY <1>4, <1>12
<1>24. Holding(bs, n + a, D)
  <2>1. Len(bs) - 1 = q BY <1>8, <1>19
  <2> QED BY <2>1, <1>1, <1>4, <1>19, <1>21, <1>22, <1>23 DEF Holding
<1>25. SubSeq(src, a + 1, Len(src)) = SubSeq(D, n + a + 1, Len(D))
  <2>1. PICK x : x = SubSeq(src, a + 1, Len(src)) OBVIOUS
  <2>2. PICK y : y = SubSeq(D, n + a + 1, Len(D)) OBVIOUS
  <2>3. x \in Seq(Byte) /\ Len(x) = Len(D) - (n + a) /\ \A i \in 1..Len(x) : x[i] = src[a + i]
    <3>1. /\ src \in Seq(Byte) /\ a \in Nat /\ Len(src) \in Nat /\ a <= Len(src)
          /\ Len(src) <= Len(src)
      BY <1>5, <1>12
    <3>2. x \in Seq(Byte) /\ Len(x) = Len(src) - a /\ \A i \in 1..Len(src) - a : x[i] = src[a + i]
      BY <2>1, <3>1, PartIs
    <3>3. Len(src) - a = Len(D) - (n + a) BY <1>4, <1>5, <1>12
    <3> QED BY <3>2, <3>3
  <2>4. y \in Seq(Byte) /\ Len(y) = Len(D) - (n + a) /\ \A i \in 1..Len(y) : y[i] = D[n + a + i]
    <3>1. PICK e : e = n + a OBVIOUS
    <3>2. D \in Seq(Byte) /\ Len(D) \in Nat /\ e \in Nat /\ e <= Len(D) /\ Len(D) <= Len(D)
      BY <3>1, <1>4, <1>12
    <3>3. y \in Seq(Byte) /\ Len(y) = Len(D) - e /\ \A i \in 1..Len(D) - e : y[i] = D[e + i]
      BY <2>2, <3>1, <3>2, PartIs
    <3> QED BY <3>1, <3>3
  <2>5. \A i \in 1..Len(D) - (n + a) : src[a + i] = D[n + a + i]
    <3>1. ASSUME NEW i \in 1..Len(D) - (n + a) PROVE src[a + i] = D[n + a + i]
      <4>1. a + i \in 1..Len(D) - n /\ n + (a + i) = n + a + i BY <1>4, <1>12
      <4> QED BY <4>1, <1>5
    <3> QED BY <3>1
  <2>6. x = y BY <2>3, <2>4, <2>5
  <2> QED BY <2>1, <2>2, <2>6
<1>26. SubSeq(D, n + a + 1, Len(D)) \in Seq(Byte) BY <1>4, <1>12
<1>27. PICK left : left = SubSeq(D, n + a + 1, Len(D)) OBVIOUS
<1>28. PICK e : e = n + a OBVIOUS
<1>29. d = [blocks |-> bs, size |-> e, src |-> left] BY <1>14, <1>18, <1>25, <1>27, <1>28
<1>30. /\ bs \in Seq(Block) /\ e \in Nat /\ left \in Seq(Byte) /\ Holding(bs, e, D)
       /\ left = SubSeq(D, e + 1, Len(D))
  BY <1>19, <1>23, <1>24, <1>26, <1>27, <1>28
<1>31. d \in Appending(D) BY <1>29, <1>30 DEF Appending
<1>32. e > n BY <1>4, <1>12, <1>28
<1> QED BY <1>2, <1>29, <1>31, <1>32

(* A function that follows the steps where it is in S is such a loop.      *)
LEMMA IteratesAre ==
    ASSUME NEW S, NEW n \in Nat, NEW step \in [1..n -> [S -> S]], NEW x \in S, NEW f,
           f = [k \in 0..n |-> f[k]], f[0] = x,
           \A k \in 1..n : f[k - 1] \in S => f[k] = step[k][f[k - 1]]
    PROVE  Iterates(f, n, S, step, x)
<1> DEFINE Bad == {k \in 0..n : f[k] \notin S}
<1>1. Bad = {}
  <2> SUFFICES ASSUME Bad # {} PROVE FALSE OBVIOUS
  <2>1. PICK k \in Bad : \A j \in Bad : k <= j
    <3>1. Bad \subseteq Nat OBVIOUS
    <3> QED BY <3>1, NatMin
  <2>2. k # 0 BY <2>1
  <2>3. k \in 1..n /\ k - 1 \in 0..n /\ ~(k <= k - 1) BY <2>1, <2>2
  <2>4. f[k - 1] \in S BY <2>1, <2>3
  <2>5. f[k] = step[k][f[k - 1]] BY <2>3, <2>4
  <2> QED BY <2>1, <2>4, <2>5
<1>2. \A k \in 0..n : f[k] \in S BY <1>1
<1>3. f \in [0..n -> S] BY <1>2
<1>4. \A k \in 1..n : k - 1 \in 0..n OBVIOUS
<1> QED BY <1>2, <1>3, <1>4 DEF Iterates

(* The loop of Append.                                                     *)
AppendStep(n, D) ==
    [k \in 1..n |-> [s \in Appending(D) |-> IF s.src = <<>> THEN s ELSE AppendRound(s)]]

(* After it everything is written.                                         *)
LEMMA AppendLoopIs ==
    ASSUME NEW fs, NEW src \in Seq(Byte), NEW x, NEW D,
           x = [blocks |-> fs.blocks, size |-> fs.size, src |-> src], x \in Appending(D)
    PROVE  Iterates(AppendLoop(fs, src), Len(src), Appending(D), AppendStep(Len(src), D), x)
<1>1. PICK n : n = Len(src) OBVIOUS
<1>2. PICK S : S = Appending(D) OBVIOUS
<1>3. PICK step : step = AppendStep(n, D) OBVIOUS
<1>4. n \in Nat /\ x \in S BY <1>1, <1>2
<1>5. /\ step = [k \in 1..n |-> [s \in S |-> step[k][s]]]
      /\ \A k \in 1..n, s \in S : step[k][s] = (IF s.src = <<>> THEN s ELSE AppendRound(s))
                                 /\ step[k][s] \in S
  <2>1. \A s \in S : s.src # <<>> => AppendRound(s) \in S BY <1>2, AppendRoundIs
  <2> QED BY <2>1, <1>2, <1>3 DEF AppendStep
<1>6. step \in [1..n -> [S -> S]] BY <1>5
<1>7. PICK f : Iterates(f, n, S, step, x) BY <1>4, <1>6, IteratesExist
<1>8. f = [k \in 0..n |-> IF k = 0 THEN [blocks |-> fs.blocks, size |-> fs.size, src |-> src]
                          ELSE IF f[k - 1].src = <<>> THEN f[k - 1] ELSE AppendRound(f[k - 1])]
  <2> DEFINE g == [k \in 0..n |-> IF k = 0 THEN [blocks |-> fs.blocks, size |-> fs.size, src |-> src]
                          ELSE IF f[k - 1].src = <<>> THEN f[k - 1] ELSE AppendRound(f[k - 1])]
  <2>1. ASSUME NEW k \in 0..n PROVE f[k] = g[k]
    <3>1. CASE k = 0 BY <3>1, <1>7 DEF Iterates
    <3>2. CASE k # 0
      <4>1. k \in 1..n /\ k - 1 \in 0..n BY <3>2, <1>4
      <4>2. f[k] = step[k][f[k - 1]] /\ f[k - 1] \in S BY <4>1, <1>7 DEF Iterates
      <4> QED BY <4>2, <3>2, <1>5
    <3> QED BY <3>1, <3>2
  <2>2. g = [k \in 0..n |-> g[k]] OBVIOUS
  <2>3. f = [k \in 0..n |-> f[k]] BY <1>7 DEF Iterates
  <2> HIDE DEF g
  <2>4. f = g BY <2>1, <2>2, <2>3
  <2> QED BY <2>4 DEF g
<1>9. PICK g : g = AppendLoop(fs, src) OBVIOUS
<1>10. g = [k \in 0..n |-> IF k = 0 THEN [blocks |-> fs.blocks, size |-> fs.size, src |-> src]
                           ELSE IF g[k - 1].src = <<>> THEN g[k - 1] ELSE AppendRound(g[k - 1])]
  BY <1>1, <1>8, <1>9 DEF AppendLoop
<1>11. g = [k \in 0..n |-> g[k]] BY <1>10
<1>12. g[0] = x BY <1>10, <1>4
<1>13. ASSUME NEW k \in 1..n, g[k - 1] \in S PROVE g[k] = step[k][g[k - 1]]
  <2>1. k \in 0..n /\ k # 0 OBVIOUS
  <2>2. g[k] = IF g[k - 1].src = <<>> THEN g[k - 1] ELSE AppendRound(g[k - 1]) BY <2>1, <1>10
  <2> QED BY <2>2, <1>5, <1>13
<1>14. Iterates(g, n, S, step, x) BY <1>4, <1>6, <1>11, <1>12, <1>13, IteratesAre
<1> QED BY <1>1, <1>2, <1>3, <1>9, <1>14

(* A FileState whose blocks hold what was written to it.                   *)
Stored(fs) ==
    /\ fs = [refs |-> fs.refs, blocks |-> fs.blocks, size |-> fs.size, data |-> fs.data]
    /\ fs.size = Len(fs.data) /\ Holding(fs.blocks, fs.size, fs.data)

(* Append: the new bytes follow the old ones.                              *)
LEMMA StateAppendIs ==
    ASSUME NEW fs, Stored(fs), NEW src \in Seq(Byte), NEW d, d = StateAppend(fs, src)
    PROVE  Stored(d)
<1>1. PICK n : n = fs.size OBVIOUS
<1>2. PICK data : data = fs.data OBVIOUS
<1>3. PICK D : D = data \o src OBVIOUS
<1>4. PICK k : k = kBlockSize OBVIOUS
<1>5. PICK bs : bs = fs.blocks OBVIOUS
<1>6. /\ bs \in Seq(Block) /\ n = Len(data) /\ data \in Seq(Byte) /\ n \in Nat /\ Len(src) \in Nat
      /\ n <= k * Len(bs) /\ k * Len(bs) < n + k /\ Len(bs) \in Nat /\ k \in Nat
      /\ \A b \in 0..Len(bs) - 1, i \in 1..k : k * b + i <= n => bs[b + 1][i] = data[k * b + i]
  BY <1>1, <1>2, <1>4, <1>5, EnvAssumption DEF Stored, Holding
<1>7. /\ D \in Seq(Byte) /\ Len(D) = n + Len(src) /\ \A i \in 1..n : D[i] = data[i]
      /\ \A i \in 1..Len(src) : D[n + i] = src[i]
  BY <1>3, <1>6
<1>8. Holding(bs, n, D)
  <2>1. ASSUME NEW b \in 0..Len(bs) - 1, NEW i \in 1..k, k * b + i <= n
        PROVE  bs[b + 1][i] = D[k * b + i]
    <3>1. k * b \in Int /\ k * b >= 0 BY <1>6, Products
    <3>2. k * b + i \in 1..n BY <3>1, <2>1, <1>6
    <3> QED BY <3>2, <2>1, <1>6, <1>7
  <2>2. n \in 0..Len(D) BY <1>6, <1>7
  <2> QED BY <2>1, <2>2, <1>4, <1>6, <1>7 DEF Holding
<1>9. src = SubSeq(D, n + 1, Len(D))
  <2>1. PICK p : p = SubSeq(D, n + 1, Len(D)) OBVIOUS
  <2>2. Len(D) \in Nat /\ n <= Len(D) BY <1>6, <1>7
  <2>3. p \in Seq(Byte) /\ Len(p) = Len(D) - n /\ \A i \in 1..Len(D) - n : p[i] = D[n + i]
    BY <2>1, <2>2, <1>6, <1>7, PartIs
  <2>4. Len(D) - n = Len(src) BY <1>6, <1>7
  <2>5. p = src BY <2>3, <2>4, <1>7
  <2> QED BY <2>1, <2>5
<1>10. PICK x : x = [blocks |-> bs, size |-> n, src |-> src] OBVIOUS
<1>11. x \in Appending(D) BY <1>6, <1>8, <1>9, <1>10 DEF Appending
<1>12. PICK f : f = AppendLoop(fs, src) OBVIOUS
<1>13. PICK S : S = Appending(D) OBVIOUS
<1>14. PICK step : step = AppendStep(Len(src), D) OBVIOUS
<1>15. PICK m : m = Len(src) OBVIOUS
<1>16. Iterates(f, m, S, step, x)
  <2>1. x = [blocks |-> fs.blocks, size |-> fs.size, src |-> src] BY <1>1, <1>5, <1>10
  <2> QED BY <2>1, <1>11, <1>12, <1>13, <1>14, <1>15, AppendLoopIs
<1>17. \A s \in S : s.size \in 0..Len(D) /\ (s.src = <<>> <=> s.size = Len(D))
  <2>1. ASSUME NEW s \in S PROVE s.size \in 0..Len(D) /\ (s.src = <<>> <=> s.size = Len(D))
    <3>1. /\ s.size \in 0..Len(D) /\ s.src = SubSeq(D, s.size + 1, Len(D)) /\ Len(D) \in Nat
      BY <1>6, <1>7, <1>13 DEF Appending, Holding
    <3>2. Len(s.src) = Len(D) - s.size /\ s.src \in Seq(Byte)
      <4>1. s.size \in Nat /\ s.size <= Len(D) BY <3>1
      <4> QED BY <4>1, <3>1, <1>7, PartIs
    <3>3. s.src = <<>> <=> Len(s.src) = 0 BY <3>2
    <3> QED BY <3>1, <3>2, <3>3
  <2> QED BY <2>1
<1>18. PICK left : left = [s \in S |-> Len(D) - s.size] OBVIOUS
<1>19. left \in [S -> Nat] /\ \A s \in S : left[s] = Len(D) - s.size
  BY <1>6, <1>7, <1>17, <1>18
<1>20. ASSUME NEW j \in 1..m, NEW s \in S, NEW next, next = step[j][s]
       PROVE  next \in S /\ (IF left[s] = 0 THEN left[next] = 0 ELSE left[next] < left[s])
  <2>1. next = IF s.src = <<>> THEN s ELSE AppendRound(s)
    BY <1>13, <1>14, <1>15, <1>20 DEF AppendStep
  <2>2. left[s] = Len(D) - s.size /\ s.size \in 0..Len(D) BY <1>17, <1>19
  <2>3. CASE s.src = <<>>
    <3>1. s.size = Len(D) /\ next = s BY <2>1, <2>3, <1>17
    <3>2. left[s] = 0 BY <3>1, <2>2
    <3> QED BY <3>1, <3>2
  <2>4. CASE s.src # <<>>
    <3>1. next \in S /\ next.size > s.size BY <2>1, <2>4, <1>13, AppendRoundIs
    <3>2. left[next] = Len(D) - next.size /\ next.size \in 0..Len(D) BY <3>1, <1>17, <1>19
    <3>3. PICK a, b : a = s.size /\ b = next.size OBVIOUS
    <3>4. a \in 0..Len(D) /\ b \in 0..Len(D) /\ b > a BY <3>1, <3>2, <3>3, <2>2
    <3>5. Len(D) - a # 0 /\ Len(D) - b < Len(D) - a BY <3>4
    <3>6. left[s] # 0 /\ left[next] < left[s] BY <3>2, <3>3, <3>5, <2>2
    <3> QED BY <3>1, <3>6
  <2> QED BY <2>3, <2>4
<1>21. f[m] \in S /\ left[f[m]] = 0
  <2>1. left[x] = Len(D) - n BY <1>10, <1>11, <1>13, <1>19
  <2>3. left[x] <= m BY <2>1, <1>6, <1>7, <1>15
  <2>2. m \in Nat BY <1>6, <1>15
  <2>4. Descends(m, S, step, left) BY <1>19, <1>20 DEF Descends
  <2> QED BY <2>2, <2>3, <2>4, <1>16, IteratesEnd
<1>22. PICK end : end = f[m] OBVIOUS
<1>23. end \in Appending(D) /\ end.size = Len(D)
  <2>1. end \in S /\ Len(D) - end.size = 0 /\ end.size \in 0..Len(D) BY <1>17, <1>19, <1>21, <1>22
  <2>2. PICK e : e = end.size OBVIOUS
  <2>3. Len(D) - e = 0 /\ e \in 0..Len(D) /\ Len(D) \in Nat BY <2>1, <2>2, <1>6, <1>7
  <2>4. e = Len(D) BY <2>3
  <2> QED BY <2>1, <2>2, <2>4, <1>13
<1>24. d = [refs |-> fs.refs, blocks |-> end.blocks, size |-> end.size, data |-> D]
  <2>1. fs = [refs |-> fs.refs, blocks |-> bs, size |-> n, data |-> data]
    BY <1>1, <1>2, <1>5 DEF Stored
  <2>2. d = [fs EXCEPT !.blocks = end.blocks, !.size = end.size, !.data = fs.data \o src]
    BY <1>12, <1>15, <1>22 DEF StateAppend
  <2>3. D = fs.data \o src BY <1>2, <1>3
  <2>4. d = [fs EXCEPT !.blocks = end.blocks, !.size = end.size, !.data = D] BY <2>2, <2>3
  <2> QED BY <2>1, <2>4
<1>25. Holding(end.blocks, end.size, D) BY <1>23 DEF Appending
<1>26. /\ d.blocks = end.blocks /\ d.size = end.size /\ d.data = D
       /\ d = [refs |-> d.refs, blocks |-> d.blocks, size |-> d.size, data |-> d.data]
  BY <1>24
<1> QED BY <1>23, <1>25, <1>26 DEF Stored

(* A file that pieces are appended to, one after the other.                *)
FileStates ==
    {fs \in [refs : Nat, blocks : Seq(Block), size : Nat, data : Seq(Byte)] : Stored(fs)}

(* They are the FileStates that are Stored.                                *)
LEMMA FileStatesAre == ASSUME NEW fs, Stored(fs), fs.refs \in Nat PROVE fs \in FileStates
<1>1. /\ fs.blocks \in Seq(Block) /\ fs.size \in Nat /\ fs.data \in Seq(Byte)
      /\ fs = [refs |-> fs.refs, blocks |-> fs.blocks, size |-> fs.size, data |-> fs.data]
  BY DEF Stored, Holding
<1> QED BY <1>1 DEF FileStates

(* The constructor of FileState makes one.                                 *)
LEMMA NewIsStored == NewFileState \in FileStates
<1>1. NewFileState = [refs |-> 0, blocks |-> <<>>, size |-> 0, data |-> <<>>] BY DEF NewFileState
<1>2. kBlockSize \in Nat \ {0} BY EnvAssumption
<1>3. kBlockSize * 0 = 0 BY <1>2
<1>4. Holding(<<>>, 0, <<>>) BY <1>2, <1>3 DEF Holding
<1>5. Stored(NewFileState) BY <1>1, <1>4 DEF Stored
<1> QED BY <1>1, <1>5, FileStatesAre

(* What a file that is written and closed is.                              *)
LEMMA WrittenIs ==
    ASSUME NEW pieces \in Seq(Seq(Byte)), NEW d, d = WrittenState(pieces)
    PROVE  Stored(d) /\ d.refs = 1
<1>1. PICK n : n = Len(pieces) OBVIOUS
<1>2. PICK S : S = FileStates OBVIOUS
<1>3. PICK x : x = NewFileState OBVIOUS
<1>4. PICK step : step = [k \in 1..n |-> [fs \in S |-> StateAppend(fs, pieces[k])]] OBVIOUS
<1>5. n \in Nat /\ x \in S /\ n \in 0..n BY <1>1, <1>2, <1>3, NewIsStored
<1>6. ASSUME NEW k \in 1..n, NEW fs \in S PROVE StateAppend(fs, pieces[k]) \in S
  <2>1. pieces[k] \in Seq(Byte) BY <1>1
  <2>2. PICK d2 : d2 = StateAppend(fs, pieces[k]) OBVIOUS
  <2>3. Stored(fs) /\ fs.refs \in Nat BY <1>2 DEF FileStates
  <2>4. Stored(d2) BY <2>1, <2>2, <2>3, StateAppendIs
  <2>5. d2.refs = fs.refs
    <3>1. PICK end : end = AppendLoop(fs, pieces[k])[Len(pieces[k])] OBVIOUS
    <3>2. d2 = [fs EXCEPT !.blocks = end.blocks, !.size = end.size, !.data = fs.data \o pieces[k]]
      BY <2>2, <3>1 DEF StateAppend
    <3>3. PICK data : data = fs.data \o pieces[k] OBVIOUS
    <3>4. d2 = [fs EXCEPT !.blocks = end.blocks, !.size = end.size, !.data = data] BY <3>2, <3>3
    <3>5. fs = [refs |-> fs.refs, blocks |-> fs.blocks, size |-> fs.size, data |-> fs.data]
      BY <2>3 DEF Stored
    <3> QED BY <3>4, <3>5
  <2> QED BY <2>2, <2>3, <2>4, <2>5, <1>2, FileStatesAre
<1>7. step \in [1..n -> [S -> S]] BY <1>4, <1>6
<1>8. \A k \in 1..n, fs \in S : step[k][fs] = StateAppend(fs, pieces[k]) BY <1>4
<1>9. PICK f : Iterates(f, n, S, step, x) BY <1>5, <1>7, IteratesExist
<1>10. f = [k \in 0..n |-> IF k = 0 THEN x ELSE StateAppend(f[k - 1], pieces[k])]
  <2> DEFINE g == [k \in 0..n |-> IF k = 0 THEN x ELSE StateAppend(f[k - 1], pieces[k])]
  <2>1. ASSUME NEW k \in 0..n PROVE f[k] = g[k]
    <3>1. CASE k = 0 BY <3>1, <1>9 DEF Iterates
    <3>2. CASE k # 0
      <4>1. k \in 1..n /\ k - 1 \in 0..n BY <3>2, <1>5
      <4>2. f[k] = step[k][f[k - 1]] /\ f[k - 1] \in S BY <4>1, <1>9 DEF Iterates
      <4> QED BY <4>1, <4>2, <3>2, <1>8
    <3> QED BY <3>1, <3>2
  <2>2. g = [k \in 0..n |-> g[k]] OBVIOUS
  <2>3. f = [k \in 0..n |-> f[k]] BY <1>9 DEF Iterates
  <2> HIDE DEF g
  <2>4. f = g BY <2>1, <2>2, <2>3
  <2> QED BY <2>4 DEF g
<1>11. PICK g : g = Written(pieces) OBVIOUS
<1>12. g = [k \in 0..n |-> IF k = 0 THEN x ELSE StateAppend(g[k - 1], pieces[k])]
  BY <1>1, <1>3, <1>10, <1>11 DEF Written
<1>13. g = [k \in 0..n |-> g[k]] /\ g[0] = x BY <1>12, <1>5
<1>14. ASSUME NEW k \in 1..n, g[k - 1] \in S PROVE g[k] = step[k][g[k - 1]]
  <2>1. k \in 0..n /\ k # 0 OBVIOUS
  <2>2. g[k] = StateAppend(g[k - 1], pieces[k]) BY <2>1, <1>12
  <2> QED BY <2>2, <1>8, <1>14
<1>15. Iterates(g, n, S, step, x) BY <1>5, <1>7, <1>13, <1>14, IteratesAre
<1>16. g[n] \in FileStates BY <1>2, <1>5, <1>15 DEF Iterates
<1>17. PICK e : e = g[n] OBVIOUS
<1>18. /\ Stored(e) /\ e = [refs |-> e.refs, blocks |-> e.blocks, size |-> e.size, data |-> e.data]
  BY <1>16, <1>17 DEF FileStates, Stored
<1>19. d = [e EXCEPT !.refs = 1] BY <1>1, <1>11, <1>17 DEF WrittenState
<1>20. d = [refs |-> 1, blocks |-> e.blocks, size |-> e.size, data |-> e.data] BY <1>18, <1>19
<1> QED BY <1>18, <1>20 DEF Stored

(* A loop of Read: what it has copied, and where it is while bytes are     *)
(* left.                                                                   *)
Reading(data, offset, want) ==
    {s \in [dst : Seq(Byte), block : Nat, block_offset : Nat, left : 0..want] :
        /\ s.dst = SubSeq(data, offset + 1, offset + (want - s.left))
        /\ s.left # 0 => /\ s.block_offset < kBlockSize
                         /\ kBlockSize * s.block + s.block_offset = offset + (want - s.left)}

(* A round of Read copies the next bytes, and leaves fewer.                *)
LEMMA CopyRoundIs ==
    ASSUME NEW bs, NEW size, NEW data, Holding(bs, size, data), NEW offset \in Nat, NEW want \in Nat,
           offset + want <= size, NEW s \in Reading(data, offset, want), s.left # 0,
           NEW d, d = CopyRound(bs, s)
    PROVE  d \in Reading(data, offset, want) /\ d.left < s.left
<1>1. PICK k : k = kBlockSize OBVIOUS
<1>2. PICK b, o, left : b = s.block /\ o = s.block_offset /\ left = s.left OBVIOUS
<1>3. PICK p : p = offset + (want - left) OBVIOUS
<1>4. /\ k \in Nat \ {0} /\ b \in Nat /\ o \in Nat /\ left \in 1..want /\ o < k /\ k * b + o = p
      /\ s.dst = SubSeq(data, offset + 1, p) /\ p \in Nat /\ p + left <= size /\ offset <= p
      /\ p + left = offset + want
  <2>1. k \in Nat \ {0} BY <1>1, EnvAssumption
  <2>2. /\ b \in Nat /\ o \in Nat /\ left \in 0..want /\ left # 0 /\ o < k
        /\ s.dst = SubSeq(data, offset + 1, p) /\ k * b + o = p
    BY <1>1, <1>2, <1>3 DEF Reading
  <2>3. size \in Nat BY DEF Holding
  <2>4. left \in 1..want BY <2>2
  <2>5. p \in Nat /\ offset <= p /\ p + left = offset + want BY <2>4, <1>3
  <2>6. p + left <= size BY <2>5
  <2> QED BY <2>1, <2>2, <2>4, <2>5, <2>6
<1>5. /\ size \in Nat /\ size <= Len(data) /\ data \in Seq(Byte) /\ Len(data) \in Nat
      /\ bs \in Seq(Block) /\ Len(bs) \in Nat /\ size <= k * Len(bs)
      /\ \A c \in 0..Len(bs) - 1, i \in 1..k : k * c + i <= size => bs[c + 1][i] = data[k * c + i]
  <2>1. Len(data) \in Nat /\ Len(bs) \in Nat BY DEF Holding
  <2>2. size \in 0..Len(data) /\ data \in Seq(Byte) /\ bs \in Seq(Block) /\ size <= k * Len(bs)
    BY <1>1 DEF Holding
  <2>3. \A c \in 0..Len(bs) - 1, i \in 1..k : k * c + i <= size => bs[c + 1][i] = data[k * c + i]
    BY <1>1 DEF Holding
  <2> QED BY <2>1, <2>2, <2>3
<1>6. k * b \in Int /\ k * (b + 1) = k * b + k BY <1>4, Products
<1>7. b < Len(bs)
  <2>1. PICK L : L = Len(bs) OBVIOUS
  <2>2. k * L \in Int /\ L \in Nat /\ size <= k * L BY <2>1, <1>4, <1>5, Products
  <2>3. k * b < k * L
    <3>1. k * b <= p /\ p < size
      <4>1. left >= 1 /\ left \in Nat /\ size \in Nat BY <1>4, <1>5
      <4> QED BY <4>1, <1>4, <1>6
    <3>2. PICK m, n : m = k * b /\ n = k * L OBVIOUS
    <3>3. m \in Int /\ n \in Int /\ m <= p /\ p < size /\ size <= n /\ p \in Nat /\ size \in Nat
      BY <3>1, <3>2, <2>2, <1>4, <1>5, <1>6
    <3>4. m < n BY <3>3
    <3> QED BY <3>2, <3>4
  <2> QED BY <2>1, <2>2, <2>3, <1>1, <1>4, BlockOf
<1>8. PICK blk : blk = bs[b + 1] OBVIOUS
<1>9. blk \in Seq(Byte) /\ Len(blk) = k /\ \A i \in 1..k : k * b + i <= size => blk[i] = data[k * b + i]
  <2>1. b + 1 \in 1..Len(bs) /\ b \in 0..Len(bs) - 1 BY <1>4, <1>5, <1>7
  <2>2. blk \in [1..k -> Byte] BY <2>1, <1>1, <1>5, <1>8 DEF Block
  <2>3. blk \in Seq(Byte) /\ Len(blk) = k BY <2>2, <1>4
  <2> QED BY <2>1, <2>3, <1>5, <1>8
<1>10. PICK a : a = Min({k - o, left}) OBVIOUS
<1>11. a \in Nat \ {0} /\ a <= k - o /\ a <= left /\ (a = left \/ a = k - o)
  <2>1. k - o \in Nat \ {0} /\ left \in Nat \ {0} BY <1>4
  <2> QED BY <2>1, <1>10, MinOfTwo
<1>12. PICK part : part = SubSeq(blk, o + 1, o + a) OBVIOUS
<1>13. part \in Seq(Byte) /\ Len(part) = a /\ \A i \in 1..a : part[i] = data[p + i]
  <2>1. PICK e : e = o + a OBVIOUS
  <2>2. e \in Nat /\ o <= e /\ e <= Len(blk) /\ o \in Nat /\ e - o = a BY <2>1, <1>4, <1>9, <1>11
  <2>3. part \in Seq(Byte) /\ Len(part) = e - o /\ \A i \in 1..e - o : part[i] = blk[o + i]
    <3>1. part = SubSeq(blk, o + 1, e) /\ blk \in Seq(Byte) BY <2>1, <1>9, <1>12
    <3> QED BY <3>1, <2>2, PartIs
  <2>4. ASSUME NEW i \in 1..a PROVE part[i] = data[p + i]
    <3>1. o + i \in 1..k /\ k * b + (o + i) = p + i /\ p + i <= size
      BY <1>4, <1>5, <1>6, <1>11
    <3>2. blk[o + i] = data[p + i] BY <3>1, <1>9
    <3> QED BY <3>2, <2>2, <2>3
  <2> QED BY <2>2, <2>3, <2>4
<1>14. d = [dst |-> s.dst \o part, block |-> b + 1, block_offset |-> 0, left |-> left - a]
  BY <1>1, <1>2, <1>8, <1>10, <1>12 DEF CopyRound
<1>15. PICK dst : dst = s.dst \o part OBVIOUS
<1>16. PICK q : q = p + a OBVIOUS
<1>17. q \in Nat /\ q <= Len(data) /\ offset <= q /\ left - a \in 0..want
       /\ q = offset + (want - (left - a))
  <2>1. /\ offset \in Nat /\ want \in Nat /\ p \in Nat /\ left \in 1..want /\ a \in Nat /\ a <= left
        /\ p + left <= Len(data) /\ offset <= p /\ p = offset + (want - left) /\ Len(data) \in Nat
    BY <1>3, <1>4, <1>5, <1>11
  <2>2. q \in Nat /\ offset <= q /\ left - a \in 0..want BY <2>1, <1>16
  <2>3. q <= Len(data) BY <2>1, <1>16
  <2>4. q = offset + (want - (left - a)) BY <2>1, <1>16
  <2> QED BY <2>2, <2>3, <2>4
<1>18. dst = SubSeq(data, offset + 1, q)
  <2>1. PICK x : x = s.dst OBVIOUS
  <2>2. /\ p <= Len(data) /\ p \in Nat /\ offset \in Nat /\ offset <= p /\ data \in Seq(Byte)
        /\ offset <= q /\ q \in Nat /\ q <= Len(data)
    BY <1>4, <1>5, <1>17
  <2>3. x = SubSeq(data, offset + 1, p) BY <2>1, <1>4
  <2>4. x \in Seq(Byte) /\ Len(x) = p - offset /\ \A i \in 1..p - offset : x[i] = data[offset + i]
    BY <2>2, <2>3, PartIs
  <2>5. PICK y : y = SubSeq(data, offset + 1, q) OBVIOUS
  <2>6. y \in Seq(Byte) /\ Len(y) = q - offset /\ \A i \in 1..q - offset : y[i] = data[offset + i]
    BY <2>2, <2>5, PartIs
  <2>7. dst \in Seq(Byte) /\ Len(dst) = q - offset
    <3>1. dst \in Seq(Byte) /\ Len(dst) = Len(x) + Len(part)
      <4>1. x \in Seq(Byte) /\ part \in Seq(Byte) /\ dst = x \o part BY <2>1, <2>4, <1>13, <1>15
      <4> QED BY <4>1, JoinIs
    <3> QED BY <3>1, <2>2, <2>4, <1>11, <1>13, <1>16
  <2>8. ASSUME NEW i \in 1..q - offset PROVE dst[i] = y[i]
    <3>1. CASE i <= p - offset
      <4>1. i \in 1..Len(x) BY <3>1, <2>2, <2>4
      <4>2. dst[i] = x[i] BY <4>1, <2>1, <2>4, <1>13, <1>15, JoinIs
      <4> QED BY <4>1, <4>2, <2>4, <2>6
    <3>2. CASE ~(i <= p - offset)
      <4>1. i - (p - offset) \in 1..a /\ p + (i - (p - offset)) = offset + i
        BY <3>2, <2>2, <1>11, <1>16
      <4>2. dst[i] = part[i - (p - offset)]
        <5>1. PICK j : j = i - (p - offset) OBVIOUS
        <5>2. j \in 1..Len(part) BY <5>1, <4>1, <1>13
        <5>3. dst[Len(x) + j] = part[j]
          <6>1. x \in Seq(Byte) /\ part \in Seq(Byte) /\ dst = x \o part BY <2>1, <2>4, <1>13, <1>15
          <6> QED BY <6>1, <5>2, JoinIs
        <5>4. Len(x) + j = i BY <5>1, <2>2, <2>4
        <5> QED BY <5>1, <5>3, <5>4
      <4> QED BY <4>1, <4>2, <2>6, <1>13
    <3> QED BY <3>1, <3>2
  <2>9. dst = y BY <2>6, <2>7, <2>8
  <2> QED BY <2>5, <2>9
<1>19. dst \in Seq(Byte)
  <2>1. s.dst \in Seq(Byte) BY DEF Reading
  <2> QED BY <2>1, <1>13, <1>15, JoinIs
<1>20. left - a # 0 => k * (b + 1) + 0 = q
  <2>1. ASSUME left - a # 0 PROVE k * (b + 1) = q
    <3>1. a = k - o BY <2>1, <1>4, <1>11
    <3> QED BY <3>1, <1>4, <1>6, <1>16
  <2>2. k * (b + 1) \in Int BY <1>4, <1>6
  <2> QED BY <2>1, <2>2
<1>21. d = [dst |-> dst, block |-> b + 1, block_offset |-> 0, left |-> left - a] BY <1>14, <1>15
<1>22. PICK m : m = left - a OBVIOUS
<1>23. /\ d.dst = dst /\ d.block = b + 1 /\ d.block_offset = 0 /\ d.left = m
       /\ d \in [dst : Seq(Byte), block : Nat, block_offset : Nat, left : 0..want]
  <2>1. b + 1 \in Nat /\ 0 \in Nat /\ m \in 0..want BY <1>4, <1>17, <1>22
  <2> QED BY <2>1, <1>19, <1>21, <1>22
<1>24. q = offset + (want - m) /\ 0 < k /\ (m # 0 => k * (b + 1) + 0 = q) BY <1>4, <1>17, <1>20, <1>22
<1>25. d \in Reading(data, offset, want) BY <1>1, <1>18, <1>23, <1>24 DEF Reading
<1> QED BY <1>2, <1>4, <1>11, <1>22, <1>23, <1>25

(* Read returns what was written, at every offset and for every length.    *)
LEMMA StateReadIs ==
    ASSUME NEW fs, Stored(fs), NEW offset \in 0..fs.size, NEW n \in Nat
    PROVE  StateRead(fs, offset, n) = SubSeq(fs.data, offset + 1, Min({offset + n, fs.size}))
<1>1. PICK bs, size, data : bs = fs.blocks /\ size = fs.size /\ data = fs.data OBVIOUS
<1>2. /\ Holding(bs, size, data) /\ size \in Nat /\ size = Len(data) /\ data \in Seq(Byte)
      /\ offset \in Nat /\ offset <= size /\ kBlockSize \in Nat \ {0}
  BY <1>1, EnvAssumption DEF Stored, Holding
<1>3. PICK want : want = Min({n, fs.size - offset}) OBVIOUS
<1>4. want \in Nat /\ offset + want <= size /\ Min({offset + n, fs.size}) = offset + want
  <2>1. size - offset \in Nat /\ offset + n \in Nat BY <1>2
  <2>2. want = IF n <= size - offset THEN n ELSE size - offset BY <2>1, <1>1, <1>3, MinOfTwo
  <2>3. Min({offset + n, size}) = IF offset + n <= size THEN offset + n ELSE size
    BY <2>1, <1>2, MinOfTwo
  <2> QED BY <2>2, <2>3, <1>1, <1>2
<1>5. PICK S : S = Reading(data, offset, want) OBVIOUS
<1>6. PICK x : x = [dst |-> <<>>, block |-> offset \div kBlockSize,
                    block_offset |-> offset % kBlockSize, left |-> want]
  OBVIOUS
<1>7. x \in S
  <2>1. PICK b, o : b = offset \div kBlockSize /\ o = offset % kBlockSize OBVIOUS
  <2>2. b \in Nat /\ o \in 0..kBlockSize - 1 /\ offset = kBlockSize * b + o
    BY <2>1, <1>2, Division
  <2>3. x = [dst |-> <<>>, block |-> b, block_offset |-> o, left |-> want] BY <2>1, <1>6
  <2>4. want - want = 0 /\ offset + 0 = offset /\ want \in 0..want BY <1>2, <1>4
  <2>5. SubSeq(data, offset + 1, offset) = <<>>
    <3>1. PICK p : p = SubSeq(data, offset + 1, offset) OBVIOUS
    <3>2. p \in Seq(Byte) /\ Len(p) = offset - offset BY <3>1, <1>2, PartIs
    <3> QED BY <3>1, <3>2, <1>2
  <2>6. o \in Nat /\ o < kBlockSize BY <2>2, <1>2
  <2>7. x \in [dst : Seq(Byte), block : Nat, block_offset : Nat, left : 0..want]
    BY <2>2, <2>3, <2>4, <2>6
  <2> QED BY <2>2, <2>3, <2>4, <2>5, <2>6, <2>7, <1>5 DEF Reading
<1>8. PICK step : step = [k \in 1..want |-> [s \in S |-> IF s.left = 0 THEN s ELSE CopyRound(bs, s)]]
  OBVIOUS
<1>9. \A s \in S : s.left # 0 => CopyRound(bs, s) \in S /\ CopyRound(bs, s).left < s.left
  BY <1>2, <1>4, <1>5, CopyRoundIs
<1>10. \A k \in 1..want, s \in S :
          step[k][s] = (IF s.left = 0 THEN s ELSE CopyRound(bs, s)) /\ step[k][s] \in S
  BY <1>8, <1>9
<1>11. step \in [1..want -> [S -> S]] BY <1>8, <1>9
<1>12. PICK f : Iterates(f, want, S, step, x) BY <1>4, <1>7, <1>11, IteratesExist
<1>13. f = [k \in 0..want |-> IF k = 0 THEN x
                              ELSE IF f[k - 1].left = 0 THEN f[k - 1] ELSE CopyRound(bs, f[k - 1])]
  <2> DEFINE g == [k \in 0..want |-> IF k = 0 THEN x
                              ELSE IF f[k - 1].left = 0 THEN f[k - 1] ELSE CopyRound(bs, f[k - 1])]
  <2>1. ASSUME NEW k \in 0..want PROVE f[k] = g[k]
    <3>1. CASE k = 0 BY <3>1, <1>12 DEF Iterates
    <3>2. CASE k # 0
      <4>1. k \in 1..want /\ k - 1 \in 0..want BY <3>2, <1>4
      <4>2. f[k] = step[k][f[k - 1]] /\ f[k - 1] \in S BY <4>1, <1>12 DEF Iterates
      <4> QED BY <4>1, <4>2, <3>2, <1>10
    <3> QED BY <3>1, <3>2
  <2>2. g = [k \in 0..want |-> g[k]] OBVIOUS
  <2>3. f = [k \in 0..want |-> f[k]] BY <1>12 DEF Iterates
  <2> HIDE DEF g
  <2>4. f = g BY <2>1, <2>2, <2>3
  <2> QED BY <2>4 DEF g
<1>14. PICK g : g = ReadLoop(fs, offset, want) OBVIOUS
<1>15. g = [k \in 0..want |-> IF k = 0 THEN x
                              ELSE IF g[k - 1].left = 0 THEN g[k - 1] ELSE CopyRound(bs, g[k - 1])]
  BY <1>1, <1>6, <1>13, <1>14 DEF ReadLoop
<1>16. g = [k \in 0..want |-> g[k]] /\ g[0] = x BY <1>15, <1>4
<1>17. ASSUME NEW k \in 1..want, g[k - 1] \in S PROVE g[k] = step[k][g[k - 1]]
  <2>1. k \in 0..want /\ k # 0 OBVIOUS
  <2>2. g[k] = IF g[k - 1].left = 0 THEN g[k - 1] ELSE CopyRound(bs, g[k - 1]) BY <2>1, <1>15
  <2> QED BY <2>2, <1>10, <1>17
<1>18. Iterates(g, want, S, step, x) BY <1>4, <1>7, <1>11, <1>16, <1>17, IteratesAre
<1>19. PICK left : left = [s \in S |-> s.left] OBVIOUS
<1>20. Descends(want, S, step, left)
  <2>1. \A s \in S : s.left \in Nat BY <1>5 DEF Reading
  <2>2. left \in [S -> Nat] /\ \A s \in S : left[s] = s.left BY <2>1, <1>19
  <2>3. ASSUME NEW k \in 1..want, NEW s \in S, NEW d, d = step[k][s]
        PROVE  d \in S /\ (IF left[s] = 0 THEN left[d] = 0 ELSE left[d] < left[s])
    <3>1. d = (IF s.left = 0 THEN s ELSE CopyRound(bs, s)) /\ d \in S BY <2>3, <1>10
    <3> QED BY <3>1, <2>2, <1>9
  <2> QED BY <2>2, <2>3 DEF Descends
<1>21. PICK end : end = g[want] OBVIOUS
<1>22. end \in S /\ left[end] = 0
  <2>1. left[x] <= want BY <1>4, <1>6, <1>7, <1>19
  <2> QED BY <2>1, <1>4, <1>18, <1>20, <1>21, IteratesEnd
<1>23. end.left = 0 BY <1>19, <1>22
<1>24. end.dst = SubSeq(data, offset + 1, offset + want)
  <2>1. end.dst = SubSeq(data, offset + 1, offset + (want - end.left)) BY <1>5, <1>22 DEF Reading
  <2>2. want - end.left = want BY <1>4, <1>23
  <2> QED BY <2>1, <2>2
<1>25. StateRead(fs, offset, n) = end.dst BY <1>3, <1>14, <1>21 DEF StateRead
<1> QED BY <1>1, <1>4, <1>24, <1>25

-----------------------------------------------------------------------------
(* The files of InMemoryEnv.                                               *)

(* Every FileState is referenced and holds what was written to it.         *)
FilesType(e) ==
    /\ e.kind = "mem" /\ DOMAIN e.file_map \subseteq Files
    /\ e.states = [s \in DOMAIN e.states |-> e.states[s]]
    /\ \A s \in DOMAIN e.states : Stored(e.states[s]) /\ e.states[s].refs \in Nat \ {0}
RefsOf(e, s) == IF s \in DOMAIN e.states THEN e.states[s].refs ELSE 0

(* What refers to it: names, tables in the cache, and tables being opened. *)
NamesOf(e, s)  == {f \in DOMAIN e.file_map : e.file_map[f] = s}
ReadersOf(s)   == {h \in Allocated : cache.handles[h].file.state = s}
OpeningOf(s)   == {t \in Opening : thread[t].raf.state = s}

(* A FileState whose count changes.                                        *)
LEMMA RefsChange ==
    ASSUME NEW fs, Stored(fs), NEW k \in Nat \ {0}, NEW d, d = [fs EXCEPT !.refs = k]
    PROVE  Stored(d) /\ d.refs = k
<1>1. fs = [refs |-> fs.refs, blocks |-> fs.blocks, size |-> fs.size, data |-> fs.data]
  BY DEF Stored
<1>2. d = [refs |-> k, blocks |-> fs.blocks, size |-> fs.size, data |-> fs.data] BY <1>1
<1> QED BY <1>2 DEF Stored

(* FileState::Ref.                                                         *)
LEMMA StateRefIs ==
    ASSUME NEW e, EnvType(e), FilesType(e), NEW s \in DOMAIN e.states, NEW d, d = Ref(e, s)
    PROVE  /\ EnvType(d) /\ FilesType(d) /\ d.file_map = e.file_map
           /\ DOMAIN d.states = DOMAIN e.states
           /\ \A x : RefsOf(d, x) = IF x = s THEN RefsOf(e, x) + 1 ELSE RefsOf(e, x)
<1>1. EnvType(d) /\ d.kind = e.kind /\ d.file_map = e.file_map BY RefIs
<1>2. PICK k : k = e.states[s].refs + 1 OBVIOUS
<1>3. PICK new : new = [e.states[s] EXCEPT !.refs = k] OBVIOUS
<1>4. Stored(e.states[s]) /\ k \in Nat \ {0} BY <1>2 DEF FilesType
<1>5. Stored(new) /\ new.refs = k BY <1>3, <1>4, RefsChange
<1>6. d.states = [e.states EXCEPT ![s] = new]
  <2>1. e = [kind |-> e.kind, file_map |-> e.file_map, states |-> e.states, allowed |-> e.allowed]
    BY DEF EnvType
  <2>2. d = [e EXCEPT !.states = [e.states EXCEPT ![s] = new]] BY <1>2, <1>3 DEF Ref
  <2> QED BY <2>1, <2>2
<1>7. DOMAIN d.states = DOMAIN e.states /\ d.states = [x \in DOMAIN d.states |-> d.states[x]]
  BY <1>6 DEF FilesType
<1>8. \A x \in DOMAIN e.states : d.states[x] = IF x = s THEN new ELSE e.states[x] BY <1>6
<1>9. FilesType(d) BY <1>1, <1>4, <1>5, <1>7, <1>8 DEF FilesType
<1> QED BY <1>1, <1>2, <1>5, <1>7, <1>8, <1>9 DEF RefsOf

(* FileState::Unref: the last reference deletes the file.                  *)
LEMMA StateUnrefIs ==
    ASSUME NEW e, EnvType(e), FilesType(e), NEW s \in DOMAIN e.states, NEW d, d = Unref(e, s)
    PROVE  /\ EnvType(d) /\ FilesType(d) /\ d.file_map = e.file_map
           /\ DOMAIN d.states \subseteq DOMAIN e.states
           /\ \A x : RefsOf(d, x) = IF x = s THEN RefsOf(e, x) - 1 ELSE RefsOf(e, x)
<1>1. /\ e = [kind |-> e.kind, file_map |-> e.file_map, states |-> e.states, allowed |-> e.allowed]
      /\ e.kind = "mem" /\ e.states[s].refs \in Nat \ {0} /\ Stored(e.states[s])
      /\ e.states = [x \in DOMAIN e.states |-> e.states[x]]
  BY DEF EnvType, FilesType
<1>2. ASSUME NEW st, d = [e EXCEPT !.states = st]
      PROVE  EnvType(d) /\ d.states = st /\ d.file_map = e.file_map /\ d.kind = "mem"
  <2>1. d = [kind |-> e.kind, file_map |-> e.file_map, states |-> st, allowed |-> e.allowed]
    BY <1>1, <1>2
  <2> QED BY <2>1, <1>1 DEF EnvType
<1>3. CASE e.states[s].refs > 1
  <2>1. PICK k : k = e.states[s].refs - 1 OBVIOUS
  <2>2. k \in Nat \ {0} BY <1>1, <1>3, <2>1
  <2>3. PICK new : new = [e.states[s] EXCEPT !.refs = k] OBVIOUS
  <2>4. Stored(new) /\ new.refs = k BY <1>1, <2>2, <2>3, RefsChange
  <2>5. PICK st : st = [e.states EXCEPT ![s] = new] OBVIOUS
  <2>6. d = [e EXCEPT !.states = st] BY <1>3, <2>1, <2>3, <2>5 DEF Unref
  <2>7. EnvType(d) /\ d.states = st /\ d.file_map = e.file_map /\ d.kind = "mem" BY <2>6, <1>2
  <2>8. DOMAIN st = DOMAIN e.states /\ st = [x \in DOMAIN st |-> st[x]] BY <1>1, <2>5
  <2>9. \A x \in DOMAIN e.states : st[x] = IF x = s THEN new ELSE e.states[x] BY <2>5
  <2>10. FilesType(d) BY <2>2, <2>4, <2>7, <2>8, <2>9 DEF FilesType
  <2> QED BY <2>1, <2>4, <2>7, <2>8, <2>9, <2>10 DEF RefsOf
<1>4. CASE ~(e.states[s].refs > 1)
  <2>1. e.states[s].refs = 1 BY <1>1, <1>4
  <2>2. PICK st : st = Without(e.states, s) OBVIOUS
  <2>3. d = [e EXCEPT !.states = st] BY <1>4, <2>2 DEF Unref
  <2>4. EnvType(d) /\ d.states = st /\ d.file_map = e.file_map /\ d.kind = "mem" BY <2>3, <1>2
  <2>5. /\ DOMAIN st = DOMAIN e.states \ {s} /\ st = [x \in DOMAIN st |-> st[x]]
        /\ \A x \in DOMAIN st : st[x] = e.states[x]
    BY <2>2 DEF Without, Restrict
  <2>6. FilesType(d) BY <2>4, <2>5 DEF FilesType
  <2> QED BY <2>1, <2>4, <2>5, <2>6 DEF RefsOf
<1> QED BY <1>3, <1>4

(* The counts of e, where k counts the references that are not names.      *)
Counted(e, k) ==
    /\ EnvType(e) /\ FilesType(e) /\ k \in [Nat -> Nat]
    /\ \A s \in Nat : RefsOf(e, s) = Cardinality(NamesOf(e, s)) + k[s]

(* The names of a file can be counted.                                     *)
LEMMA NamesFinite ==
    ASSUME NEW e, FilesType(e), NEW s
    PROVE  /\ IsFiniteSet(NamesOf(e, s)) /\ Cardinality(NamesOf(e, s)) \in Nat
           /\ NamesOf(e, s) # {} => Cardinality(NamesOf(e, s)) # 0
<1>1. NamesOf(e, s) \in SUBSET Files BY DEF NamesOf, FilesType
<1>2. IsFiniteSet(NamesOf(e, s)) BY <1>1, CacheAssumption, FS_Subset
<1> QED BY <1>2, FS_CardinalityType, FS_EmptySet

(* A file with a name is there.                                            *)
LEMMA NamedIsThere ==
    ASSUME NEW e, NEW k, Counted(e, k), NEW f \in DOMAIN e.file_map
    PROVE  e.file_map[f] \in Nat /\ e.file_map[f] \in DOMAIN e.states
<1>1. PICK s : s = e.file_map[f] OBVIOUS
<1>2. s \in Nat BY <1>1 DEF Counted, EnvType
<1>3. NamesOf(e, s) # {} BY <1>1 DEF NamesOf
<1>4. Cardinality(NamesOf(e, s)) # 0 /\ Cardinality(NamesOf(e, s)) \in Nat
  BY <1>3, NamesFinite DEF Counted
<1>5. RefsOf(e, s) = Cardinality(NamesOf(e, s)) + k[s] /\ k[s] \in Nat BY <1>2 DEF Counted
<1>6. RefsOf(e, s) # 0 BY <1>4, <1>5
<1> QED BY <1>1, <1>2, <1>6 DEF RefsOf

(* A name goes, and the file with its last reference.                      *)
LEMMA NameGoes ==
    ASSUME NEW e, NEW k, Counted(e, k), NEW f, NEW d, d = DeleteFileInternal(e, f)
    PROVE  /\ Counted(d, k) /\ DOMAIN d.states \subseteq DOMAIN e.states
           /\ DOMAIN d.file_map = DOMAIN e.file_map \ {f}
           /\ \A x \in DOMAIN d.file_map : d.file_map[x] = e.file_map[x]
<1>1. CASE f \notin DOMAIN e.file_map BY <1>1 DEF DeleteFileInternal
<1>2. CASE f \in DOMAIN e.file_map
  <2>1. PICK s : s = e.file_map[f] OBVIOUS
  <2>2. s \in Nat /\ s \in DOMAIN e.states BY <2>1, <1>2, NamedIsThere
  <2>3. PICK m : m = Without(e.file_map, f) OBVIOUS
  <2>4. PICK u : u = [e EXCEPT !.file_map = m] OBVIOUS
  <2>5. /\ e = [kind |-> e.kind, file_map |-> e.file_map, states |-> e.states, allowed |-> e.allowed]
        /\ e.kind = "mem" /\ EnvType(e) /\ FilesType(e)
    BY DEF Counted, EnvType, FilesType
  <2>6. u = [kind |-> e.kind, file_map |-> m, states |-> e.states, allowed |-> e.allowed]
    BY <2>4, <2>5
  <2>7. /\ DOMAIN m = DOMAIN e.file_map \ {f} /\ \A x \in DOMAIN m : m[x] = e.file_map[x]
        /\ m \in [DOMAIN m -> Nat]
    BY <2>3, <2>5 DEF Without, Restrict, EnvType
  <2>8. EnvType(u) BY <2>5, <2>6, <2>7 DEF EnvType
  <2>9. FilesType(u) BY <2>5, <2>6, <2>7 DEF FilesType
  <2>10. d = Unref(u, s) BY <2>1, <2>3, <2>4, <2>5, <1>2 DEF DeleteFileInternal
  <2>11. s \in DOMAIN u.states BY <2>2, <2>6
  <2>12. /\ EnvType(d) /\ FilesType(d) /\ d.file_map = u.file_map
         /\ DOMAIN d.states \subseteq DOMAIN u.states
         /\ \A x : RefsOf(d, x) = IF x = s THEN RefsOf(u, x) - 1 ELSE RefsOf(u, x)
    BY <2>8, <2>9, <2>10, <2>11, StateUnrefIs
  <2>13. d.file_map = m /\ DOMAIN d.states \subseteq DOMAIN e.states
         /\ \A x : RefsOf(u, x) = RefsOf(e, x)
    BY <2>6, <2>12 DEF RefsOf
  <2>14. ASSUME NEW x \in Nat PROVE RefsOf(d, x) = Cardinality(NamesOf(d, x)) + k[x]
    <3>1. NamesOf(d, x) = NamesOf(e, x) \ {f} BY <2>7, <2>13 DEF NamesOf
    <3>2. f \in NamesOf(e, x) <=> x = s BY <2>1, <1>2 DEF NamesOf
    <3>3. PICK A : A = NamesOf(e, x) OBVIOUS
    <3>4. PICK B : B = NamesOf(d, x) OBVIOUS
    <3>5. IsFiniteSet(A) /\ Cardinality(A) \in Nat BY <2>5, <3>3, NamesFinite
    <3>6. B = A \ {f} /\ (f \in A <=> x = s) BY <3>1, <3>2, <3>3, <3>4
    <3>7. Cardinality(B) = IF x = s THEN Cardinality(A) - 1 ELSE Cardinality(A)
      BY <3>5, <3>6, FS_RemoveElement
    <3>8. RefsOf(e, x) = Cardinality(A) + k[x] /\ k[x] \in Nat BY <3>3 DEF Counted
    <3>9. RefsOf(d, x) = Cardinality(B) + k[x] BY <2>12, <2>13, <3>5, <3>7, <3>8
    <3> QED BY <3>4, <3>9
  <2>15. k \in [Nat -> Nat] BY DEF Counted
  <2>16. Counted(d, k) BY <2>12, <2>14, <2>15 DEF Counted
  <2> QED BY <2>7, <2>13, <2>16
<1> QED BY <1>1, <1>2

(* A new file gets a name, and its first reference with it.                *)
LEMMA NameComes ==
    ASSUME NEW e, NEW k, Counted(e, k), NEW f \in Files, NEW s \in Nat, s \notin DOMAIN e.states,
           NEW pieces \in Seq(Seq(Byte)), NEW d, d = WriteFile(e, f, s, pieces)
    PROVE  Counted(d, k) /\ DOMAIN d.states \subseteq DOMAIN e.states \cup {s}
<1>1. PICK u : u = DeleteFileInternal(e, f) OBVIOUS
<1>2. /\ Counted(u, k) /\ DOMAIN u.states \subseteq DOMAIN e.states /\ f \notin DOMAIN u.file_map
      /\ s \notin DOMAIN u.states
  BY <1>1, NameGoes
<1>3. /\ EnvType(u) /\ FilesType(u) /\ u.kind = "mem" /\ k \in [Nat -> Nat]
      /\ u = [kind |-> u.kind, file_map |-> u.file_map, states |-> u.states, allowed |-> u.allowed]
      /\ u.states = [x \in DOMAIN u.states |-> u.states[x]]
      /\ \A x \in DOMAIN u.states : Stored(u.states[x]) /\ u.states[x].refs \in Nat \ {0}
  BY <1>2 DEF Counted, EnvType, FilesType
<1>4. PICK m, fs : m = With(u.file_map, f, s) /\ fs = WrittenState(pieces) OBVIOUS
<1>5. PICK st : st = With(u.states, s, fs) OBVIOUS
<1>6. Stored(fs) /\ fs.refs = 1 BY <1>4, WrittenIs
<1>7. e.kind = "mem" BY DEF Counted, FilesType
<1>8. d = [kind |-> u.kind, file_map |-> m, states |-> st, allowed |-> u.allowed]
  <2>1. PICK v : v = [u EXCEPT !.file_map = m] OBVIOUS
  <2>2. v = [kind |-> u.kind, file_map |-> m, states |-> u.states, allowed |-> u.allowed]
    BY <2>1, <1>3
  <2>3. d = [v EXCEPT !.states = st]
    <3>1. d = [v EXCEPT !.states = With(v.states, s, fs)] BY <2>1, <1>1, <1>4, <1>7 DEF WriteFile
    <3>2. v.states = u.states BY <2>2
    <3>3. With(v.states, s, fs) = st BY <3>2, <1>5
    <3> QED BY <3>1, <3>3
  <2> QED BY <2>2, <2>3
<1>9. /\ DOMAIN m = DOMAIN u.file_map \cup {f}
      /\ \A x \in DOMAIN m : m[x] = IF x = f THEN s ELSE u.file_map[x]
      /\ m \in [DOMAIN m -> Nat]
  <2>1. u.file_map \in [DOMAIN u.file_map -> Nat] BY <1>3 DEF EnvType
  <2>2. /\ DOMAIN m = DOMAIN u.file_map \cup {f}
        /\ \A x \in DOMAIN m : m[x] = IF x = f THEN s ELSE u.file_map[x]
        /\ m = [x \in DOMAIN m |-> m[x]]
    <3>1. PICK fm : fm = u.file_map OBVIOUS
    <3>2. m = With(fm, f, s) BY <3>1, <1>4
    <3>3. m = [x \in DOMAIN fm \cup {f} |-> IF x = f THEN s ELSE fm[x]] BY <3>2 DEF With
    <3>4. DOMAIN m = DOMAIN fm \cup {f} BY <3>3
    <3>5. \A x \in DOMAIN fm \cup {f} : m[x] = IF x = f THEN s ELSE fm[x] BY <3>3
    <3>6. m = [x \in DOMAIN fm \cup {f} |-> m[x]] BY <3>3
    <3> QED BY <3>1, <3>4, <3>5, <3>6
  <2> QED BY <2>1, <2>2
<1>10. /\ DOMAIN st = DOMAIN u.states \cup {s} /\ st = [x \in DOMAIN st |-> st[x]]
       /\ \A x \in DOMAIN st : st[x] = IF x = s THEN fs ELSE u.states[x]
  <2>1. PICK old : old = u.states OBVIOUS
  <2>2. st = With(old, s, fs) BY <2>1, <1>5
  <2>3. st = [x \in DOMAIN old \cup {s} |-> IF x = s THEN fs ELSE old[x]] BY <2>2 DEF With
  <2>4. DOMAIN st = DOMAIN old \cup {s} BY <2>3
  <2>5. \A x \in DOMAIN old \cup {s} : st[x] = IF x = s THEN fs ELSE old[x] BY <2>3
  <2>6. st = [x \in DOMAIN old \cup {s} |-> st[x]] BY <2>3
  <2> QED BY <2>1, <2>4, <2>5, <2>6
<1>11. EnvType(d)
  <2>1. u.kind \in {"posix", "mem"} /\ u.allowed \in Nat BY <1>3 DEF EnvType
  <2>2. d.kind = u.kind /\ d.file_map = m /\ d.states = st /\ d.allowed = u.allowed BY <1>8
  <2>3. m \in [DOMAIN m -> Nat] BY <1>9
  <2> QED BY <2>1, <2>2, <2>3, <1>8 DEF EnvType
<1>12. FilesType(d)
  <2>1. DOMAIN u.file_map \subseteq Files BY <1>3 DEF FilesType
  <2>2. DOMAIN m \subseteq Files BY <2>1, <1>9
  <2>3. ASSUME NEW x \in DOMAIN st PROVE Stored(st[x]) /\ st[x].refs \in Nat \ {0}
    BY <2>3, <1>3, <1>6, <1>10
  <2>4. d.kind = "mem" /\ d.file_map = m /\ d.states = st BY <1>3, <1>8
  <2> QED BY <2>2, <2>3, <2>4, <1>10 DEF FilesType
<1>13. ASSUME NEW x \in Nat PROVE RefsOf(d, x) = Cardinality(NamesOf(d, x)) + k[x]
  <2>1. RefsOf(u, x) = Cardinality(NamesOf(u, x)) + k[x] /\ k[x] \in Nat BY <1>2 DEF Counted
  <2>2. CASE x # s
    <3>1. NamesOf(d, x) = NamesOf(u, x) BY <2>2, <1>2, <1>8, <1>9 DEF NamesOf
    <3>2. RefsOf(d, x) = RefsOf(u, x) BY <2>2, <1>8, <1>10 DEF RefsOf
    <3> QED BY <3>1, <3>2, <2>1
  <2>3. CASE x = s
    <3>1. RefsOf(u, x) = 0 BY <2>3, <1>2 DEF RefsOf
    <3>2. Cardinality(NamesOf(u, x)) = 0 /\ k[x] = 0 BY <3>1, <2>1, <1>3, NamesFinite
    <3>3. NamesOf(u, x) = {} BY <3>2, <1>3, NamesFinite
    <3>4. NamesOf(d, x) = {f}
      <4>1. f \in NamesOf(d, x) BY <2>3, <1>8, <1>9 DEF NamesOf
      <4>2. \A y \in NamesOf(d, x) : y = f \/ y \in NamesOf(u, x) BY <1>8, <1>9 DEF NamesOf
      <4> QED BY <4>1, <4>2, <3>3
    <3>5. Cardinality({f}) = 1 BY FS_Singleton
    <3>6. RefsOf(d, x) = 1 BY <2>3, <1>6, <1>8, <1>10 DEF RefsOf
    <3> QED BY <3>2, <3>4, <3>5, <3>6
  <2> QED BY <2>2, <2>3
<1>14. Counted(d, k) BY <1>3, <1>11, <1>12, <1>13 DEF Counted
<1>15. DOMAIN d.states \subseteq DOMAIN e.states \cup {s} BY <1>2, <1>8, <1>10
<1> QED BY <1>14, <1>15

(* A name moves, and the file of the name it takes loses one.              *)
LEMMA NameMoves ==
    ASSUME NEW e, NEW k, Counted(e, k), NEW src \in DOMAIN e.file_map, NEW target \in Files,
           src # target, NEW d, d = RenameTo(e, src, target)
    PROVE  Counted(d, k) /\ DOMAIN d.states \subseteq DOMAIN e.states
<1>1. PICK u : u = DeleteFileInternal(e, target) OBVIOUS
<1>2. /\ Counted(u, k) /\ DOMAIN u.states \subseteq DOMAIN e.states
      /\ DOMAIN u.file_map = DOMAIN e.file_map \ {target}
      /\ \A x \in DOMAIN u.file_map : u.file_map[x] = e.file_map[x]
  BY <1>1, NameGoes
<1>3. PICK s : s = e.file_map[src] OBVIOUS
<1>4. PICK fm : fm = u.file_map OBVIOUS
<1>5. src \in DOMAIN fm /\ target \notin DOMAIN fm /\ fm[src] = s BY <1>2, <1>3, <1>4
<1>6. /\ EnvType(u) /\ FilesType(u) /\ k \in [Nat -> Nat] /\ fm \in [DOMAIN fm -> Nat]
      /\ DOMAIN fm \subseteq Files
  BY <1>2, <1>4 DEF Counted, EnvType, FilesType
<1>7. s \in Nat BY <1>5, <1>6
<1>8. PICK m : m = With(Without(fm, src), target, s) OBVIOUS
<1>9. /\ DOMAIN m = (DOMAIN fm \ {src}) \cup {target}
      /\ \A x \in DOMAIN m : m[x] = IF x = target THEN s ELSE fm[x]
      /\ m = [x \in DOMAIN m |-> m[x]]
  <2>1. PICK w : w = Without(fm, src) OBVIOUS
  <2>2. DOMAIN w = DOMAIN fm \ {src} /\ \A x \in DOMAIN w : w[x] = fm[x]
    BY <2>1 DEF Without, Restrict
  <2>3. m = [x \in DOMAIN w \cup {target} |-> IF x = target THEN s ELSE w[x]]
    BY <2>1, <1>8 DEF With
  <2>4. DOMAIN m = DOMAIN w \cup {target} BY <2>3
  <2>5. \A x \in DOMAIN w \cup {target} : m[x] = IF x = target THEN s ELSE w[x] BY <2>3
  <2>6. m = [x \in DOMAIN w \cup {target} |-> m[x]] BY <2>3
  <2> QED BY <2>2, <2>4, <2>5, <2>6
<1>10. m \in [DOMAIN m -> Nat] BY <1>6, <1>7, <1>9
<1>11. d = [kind |-> u.kind, file_map |-> m, states |-> u.states, allowed |-> u.allowed]
  <2>1. d = [u EXCEPT !.file_map = With(Without(u.file_map, src), target, s)]
    <3>1. u = [kind |-> u.kind, file_map |-> u.file_map, states |-> u.states, allowed |-> u.allowed]
      BY <1>6 DEF EnvType
    <3> QED BY <3>1, <1>1, <1>3 DEF RenameTo
  <2>2. d = [u EXCEPT !.file_map = m] BY <2>1, <1>4, <1>8
  <2>3. u = [kind |-> u.kind, file_map |-> u.file_map, states |-> u.states, allowed |-> u.allowed]
    BY <1>6 DEF EnvType
  <2> QED BY <2>2, <2>3
<1>12. /\ d.kind = u.kind /\ d.file_map = m /\ d.states = u.states /\ d.allowed = u.allowed
  BY <1>11
<1>13. EnvType(d)
  <2>1. u.kind \in {"posix", "mem"} /\ u.allowed \in Nat BY <1>6 DEF EnvType
  <2> QED BY <2>1, <1>10, <1>11, <1>12 DEF EnvType
<1>14. FilesType(d)
  <2>1. DOMAIN m \subseteq Files BY <1>6, <1>9
  <2>2. u.kind = "mem" /\ u.states = [x \in DOMAIN u.states |-> u.states[x]] BY <1>6 DEF FilesType
  <2>3. \A x \in DOMAIN u.states : Stored(u.states[x]) /\ u.states[x].refs \in Nat \ {0}
    BY <1>6 DEF FilesType
  <2> QED BY <2>1, <2>2, <2>3, <1>12 DEF FilesType
<1>15. ASSUME NEW x \in Nat PROVE RefsOf(d, x) = Cardinality(NamesOf(d, x)) + k[x]
  <2>1. RefsOf(u, x) = Cardinality(NamesOf(u, x)) + k[x] BY <1>2 DEF Counted
  <2>2. RefsOf(d, x) = RefsOf(u, x) BY <1>12 DEF RefsOf
  <2>3. PICK A : A = NamesOf(u, x) OBVIOUS
  <2>4. PICK B : B = NamesOf(d, x) OBVIOUS
  <2>5. IsFiniteSet(A) BY <2>3, <1>6, NamesFinite
  <2>6. A = {f \in DOMAIN fm : fm[f] = x} /\ B = {f \in DOMAIN m : m[f] = x}
    BY <2>3, <2>4, <1>4, <1>12 DEF NamesOf
  <2>7. B = IF x = s THEN (A \ {src}) \cup {target} ELSE A
    <3>1. CASE x = s
      <4>1. \A f : f \in B <=> f \in (A \ {src}) \cup {target} BY <3>1, <2>6, <1>5, <1>9
      <4> QED BY <4>1, <3>1
    <3>2. CASE x # s
      <4>1. \A f : f \in B <=> f \in A BY <3>2, <2>6, <1>5, <1>9
      <4> QED BY <4>1, <3>2
    <3> QED BY <3>1, <3>2
  <2>8. Cardinality(B) = Cardinality(A)
    <3>1. CASE x = s
      <4>1. src \in A /\ target \notin A BY <3>1, <2>6, <1>5
      <4>2. IsFiniteSet(A \ {src}) /\ Cardinality(A \ {src}) = Cardinality(A) - 1
        BY <4>1, <2>5, FS_RemoveElement
      <4>3. target \notin A \ {src} BY <4>1
      <4>4. Cardinality((A \ {src}) \cup {target}) = Cardinality(A \ {src}) + 1
        BY <4>2, <4>3, FS_AddElement
      <4>5. Cardinality(A) \in Nat BY <2>5, FS_CardinalityType
      <4> QED BY <4>2, <4>4, <4>5, <2>7, <3>1
    <3>2. CASE x # s BY <3>2, <2>7
    <3> QED BY <3>1, <3>2
  <2> QED BY <2>1, <2>2, <2>3, <2>4, <2>8
<1>16. Counted(d, k) BY <1>6, <1>13, <1>14, <1>15 DEF Counted
<1> QED BY <1>2, <1>12, <1>16

(* One more reader.                                                        *)
LEMMA ReaderComes ==
    ASSUME NEW e, NEW k, Counted(e, k), NEW s \in DOMAIN e.states,
           NEW j \in [Nat -> Nat], \A x \in Nat : j[x] = IF x = s THEN k[x] + 1 ELSE k[x],
           NEW d, d = Ref(e, s)
    PROVE  Counted(d, j) /\ DOMAIN d.states = DOMAIN e.states
<1>1. EnvType(e) /\ FilesType(e) /\ k \in [Nat -> Nat] BY DEF Counted
<1>2. /\ EnvType(d) /\ FilesType(d) /\ d.file_map = e.file_map
      /\ DOMAIN d.states = DOMAIN e.states
      /\ \A x : RefsOf(d, x) = IF x = s THEN RefsOf(e, x) + 1 ELSE RefsOf(e, x)
  BY <1>1, StateRefIs
<1>3. ASSUME NEW x \in Nat PROVE RefsOf(d, x) = Cardinality(NamesOf(d, x)) + j[x]
  <2>1. NamesOf(d, x) = NamesOf(e, x) BY <1>2 DEF NamesOf
  <2>2. PICK n : n = Cardinality(NamesOf(e, x)) OBVIOUS
  <2>3. n \in Nat /\ k[x] \in Nat BY <2>2, <1>1, NamesFinite
  <2>4. RefsOf(e, x) = n + k[x] BY <2>2 DEF Counted
  <2>5. RefsOf(d, x) = IF x = s THEN RefsOf(e, x) + 1 ELSE RefsOf(e, x) BY <1>2
  <2>6. j[x] = IF x = s THEN k[x] + 1 ELSE k[x] OBVIOUS
  <2>7. RefsOf(d, x) = n + j[x] BY <2>3, <2>4, <2>5, <2>6
  <2> QED BY <2>1, <2>2, <2>7
<1> QED BY <1>2, <1>3 DEF Counted

(* One reader less: the file was there, and goes with its last reference.  *)
LEMMA ReaderGoes ==
    ASSUME NEW e, NEW k, Counted(e, k), NEW s \in Nat, k[s] # 0,
           NEW j \in [Nat -> Nat], \A x \in Nat : j[x] = IF x = s THEN k[x] - 1 ELSE k[x],
           NEW raf, raf.state = s, NEW d, d = CloseFile(e, raf)
    PROVE  Counted(d, j) /\ DOMAIN d.states \subseteq DOMAIN e.states
<1>1. EnvType(e) /\ FilesType(e) /\ k \in [Nat -> Nat] BY DEF Counted
<1>2. s \in DOMAIN e.states
  <2>1. PICK n : n = Cardinality(NamesOf(e, s)) OBVIOUS
  <2>2. n \in Nat /\ k[s] \in Nat BY <2>1, <1>1, NamesFinite
  <2>3. RefsOf(e, s) = n + k[s] BY <2>1 DEF Counted
  <2>4. RefsOf(e, s) # 0 BY <2>2, <2>3
  <2> QED BY <2>4 DEF RefsOf
<1>3. d = Unref(e, s) BY <1>1 DEF CloseFile, FilesType
<1>4. /\ EnvType(d) /\ FilesType(d) /\ d.file_map = e.file_map
      /\ DOMAIN d.states \subseteq DOMAIN e.states
      /\ \A x : RefsOf(d, x) = IF x = s THEN RefsOf(e, x) - 1 ELSE RefsOf(e, x)
  BY ONLY <1>1, <1>2, <1>3, StateUnrefIs
<1>5. ASSUME NEW x \in Nat PROVE RefsOf(d, x) = Cardinality(NamesOf(d, x)) + j[x]
  <2>1. NamesOf(d, x) = NamesOf(e, x) BY <1>4 DEF NamesOf
  <2>2. PICK n : n = Cardinality(NamesOf(e, x)) OBVIOUS
  <2>3. n \in Nat /\ k[x] \in Nat BY <2>2, <1>1, NamesFinite
  <2>4. RefsOf(e, x) = n + k[x] BY <2>2 DEF Counted
  <2>5. RefsOf(d, x) = IF x = s THEN RefsOf(e, x) - 1 ELSE RefsOf(e, x) BY <1>4
  <2>6. j[x] = IF x = s THEN k[x] - 1 ELSE k[x] OBVIOUS
  <2>7. RefsOf(d, x) = n + j[x] BY <2>3, <2>4, <2>5, <2>6
  <2> QED BY <2>1, <2>2, <2>7
<1> QED BY <1>4, <1>5 DEF Counted

(* The readers, in the cache and not yet in it.                            *)
Readers == [s \in Nat |-> Cardinality(ReadersOf(s)) + Cardinality(OpeningOf(s))]

(* They can be counted.                                                    *)
LEMMA ReadersCount ==
    ASSUME CacheInv
    PROVE  /\ \A s : /\ IsFiniteSet(ReadersOf(s)) /\ Cardinality(ReadersOf(s)) \in Nat
                     /\ IsFiniteSet(OpeningOf(s)) /\ Cardinality(OpeningOf(s)) \in Nat
           /\ Readers \in [Nat -> Nat]
<1>1. inserts \in Nat /\ Allocated \subseteq 1..inserts
  <2>1. PICK S : S = InTable(cache) OBVIOUS
  <2> QED BY <2>1, ShardFacts
<1>2. IsFiniteSet(1..inserts)
  <2>1. 1 \in Int /\ inserts \in Int BY <1>1
  <2> QED BY <2>1, FS_Interval
<1>3. ASSUME NEW s
      PROVE  /\ IsFiniteSet(ReadersOf(s)) /\ Cardinality(ReadersOf(s)) \in Nat
             /\ IsFiniteSet(OpeningOf(s)) /\ Cardinality(OpeningOf(s)) \in Nat
  <2>1. ReadersOf(s) \in SUBSET (1..inserts) BY <1>1 DEF ReadersOf
  <2>2. OpeningOf(s) \in SUBSET Threads BY DEF OpeningOf, Opening
  <2>3. IsFiniteSet(ReadersOf(s)) /\ IsFiniteSet(OpeningOf(s))
    BY <1>2, <2>1, <2>2, CacheAssumption, FS_Subset
  <2> QED BY <2>3, FS_CardinalityType
<1>4. Readers \in [Nat -> Nat]
  <2>1. \A s \in Nat : Cardinality(ReadersOf(s)) + Cardinality(OpeningOf(s)) \in Nat
    <3> TAKE s \in Nat
    <3>1. PICK m, n : m = Cardinality(ReadersOf(s)) /\ n = Cardinality(OpeningOf(s)) OBVIOUS
    <3>2. m \in Nat /\ n \in Nat BY <1>3, <3>1
    <3> QED BY <3>1, <3>2
  <2> QED BY <2>1 DEF Readers
<1> QED BY <1>3, <1>4

(* k counts the readers before a step of the cache and j those after it:   *)
(* of the handles it frees, and others, which o counts.                    *)
Recounts(k, o, j) ==
    LET A == Allocated \cap Allocated'
    IN  /\ Counted(env, k) /\ o \in [Nat -> Nat]
        /\ \A s \in Nat : k[s] = Cardinality(ReadersOf(s)) + o[s]
        /\ j = [s \in Nat |-> Cardinality({h \in A : cache'.handles[h].file.state = s}) + o[s]]

(* A step of the cache closes the file of what it frees.                   *)
LEMMA ShardFiles ==
    ASSUME CacheInv, CacheBecomes(cache'), Kept, NEW k, NEW o, NEW j, Recounts(k, o, j)
    PROVE  j \in [Nat -> Nat] /\ Counted(env', j) /\ DOMAIN env'.states \subseteq DOMAIN env.states
<1>1. PICK A : A = Allocated \cap Allocated' OBVIOUS
<1> DEFINE N(s) == {h \in A : cache'.handles[h].file.state = s}
<1>2. /\ Counted(env, k) /\ o \in [Nat -> Nat]
      /\ \A s \in Nat : k[s] = Cardinality(ReadersOf(s)) + o[s]
      /\ j = [s \in Nat |-> Cardinality(N(s)) + o[s]]
  BY <1>1 DEF Recounts
<1>3. \A s : N(s) = {h \in A : cache.handles[h].file.state = s} BY <1>1 DEF Kept
<1>4. k \in [Nat -> Nat] BY <1>2 DEF Counted
<1>5. CASE Allocated \ Allocated' = {}
  <2>1. env' = env BY <1>5 DEF CacheBecomes, Allocated
  <2>2. \A s : N(s) = ReadersOf(s)
    <3>1. A = Allocated BY <1>5, <1>1
    <3>2. \A s : N(s) = {h \in Allocated : cache.handles[h].file.state = s} BY <1>3, <3>1
    <3> QED BY <3>2 DEF ReadersOf
  <2>3. \A s \in Nat : j[s] = k[s] BY <2>2, <1>2
  <2>4. j = k
    <3>1. j = [s \in Nat |-> j[s]] BY <1>2
    <3> QED BY <3>1, <2>3, <1>4
  <2> QED BY <2>1, <2>4, <1>4, <1>2
<1>6. CASE Allocated \ Allocated' # {}
  <2>1. PICK h \in Allocated \ Allocated' : env' = CloseFile(env, cache.handles[h].file)
    BY <1>6 DEF CacheBecomes, Allocated
  <2>2. A = Allocated \ {h} BY <2>1, <1>1 DEF Kept
  <2>3. PICK raf : raf = cache.handles[h].file OBVIOUS
  <2>4. PICK s : s = raf.state OBVIOUS
  <2>5. s \in Nat
    <3>1. cache.handles \in [Allocated -> Handle] BY ShardFacts
    <3>2. cache.handles[h] \in Handle BY <3>1, <2>1
    <3> QED BY <3>2, <2>3, <2>4 DEF Handle, Raf
  <2>6. ASSUME NEW x \in Nat
        PROVE  /\ Cardinality(N(x)) + o[x] \in Nat
               /\ Cardinality(N(x)) + o[x] = IF x = s THEN k[x] - 1 ELSE k[x]
               /\ x = s => k[x] # 0
    <3>1. PICK B : B = ReadersOf(x) OBVIOUS
    <3>2. PICK C : C = N(x) OBVIOUS
    <3>3. IsFiniteSet(B) BY <3>1, ReadersCount
    <3>4. h \in B <=> x = s BY <3>1, <2>1, <2>3, <2>4 DEF ReadersOf
    <3>5. C \ {h} = B \ {h} /\ h \notin C BY <3>1, <3>2, <1>3, <2>2 DEF ReadersOf
    <3>6. /\ Cardinality(B) \in Nat /\ Cardinality(C) \in Nat
          /\ Cardinality(C) + (IF h \in B THEN 1 ELSE 0) = Cardinality(B) + (IF h \in C THEN 1 ELSE 0)
      BY <3>3, <3>5, OneChanges
    <3>7. Cardinality(C) + (IF x = s THEN 1 ELSE 0) = Cardinality(B) BY <3>4, <3>5, <3>6
    <3>8. k[x] = Cardinality(B) + o[x] /\ o[x] \in Nat BY <3>1, <1>2
    <3>9. /\ Cardinality(C) + o[x] \in Nat
          /\ Cardinality(C) + o[x] = IF x = s THEN k[x] - 1 ELSE k[x]
          /\ x = s => k[x] # 0
      BY <3>6, <3>7, <3>8
    <3> QED BY <3>2, <3>9
  <2>7. j \in [Nat -> Nat] /\ \A x \in Nat : j[x] = IF x = s THEN k[x] - 1 ELSE k[x]
    BY <2>6, <1>2
  <2>8. k[s] # 0 BY <2>5, <2>6
  <2>9. PICK d : d = env' OBVIOUS
  <2>10. d = CloseFile(env, raf) BY <2>1, <2>3, <2>9
  <2>11. Counted(env, k) /\ raf.state = s BY <2>4, <1>2
  <2>12. Counted(d, j) /\ DOMAIN d.states \subseteq DOMAIN env.states
    BY ONLY <2>5, <2>7, <2>8, <2>10, <2>11, ReaderGoes
  <2> QED BY <2>7, <2>9, <2>12
<1> QED BY <1>5, <1>6

(* The invariant of the files: their counts are right, a new file has a    *)
(* number that no other has, and no thread is at work with the limiter.    *)
FilesInv ==
    env.kind = "mem" =>
        /\ Counted(env, Readers)
        /\ \A s \in DOMAIN env.states : s \in Nat /\ s <= Max(Files) + names
        /\ \A t \in Threads : thread[t].pc \notin {"acquire", "map"}

Opens(w, s) == w.pc = "table" /\ w.raf.state = s

(* What a step of a thread changes of the readers not yet in the cache.    *)
LEMMA ThreadOpening ==
    ASSUME CacheInv, NEW t \in Threads, NEW r \in Work, thread' = [thread EXCEPT ![t] = r], NEW s
    PROVE  /\ Cardinality(OpeningOf(s)) \in Nat /\ Cardinality(OpeningOf(s)') \in Nat
           /\ Cardinality(OpeningOf(s)') + (IF Opens(thread[t], s) THEN 1 ELSE 0)
                 = Cardinality(OpeningOf(s)) + (IF Opens(r, s) THEN 1 ELSE 0)
<1>1. \A u \in Threads : thread'[u] = IF u = t THEN r ELSE thread[u] BY Moves DEF CacheInv
<1>2. PICK A : A = OpeningOf(s) OBVIOUS
<1>3. PICK B : B = OpeningOf(s)' OBVIOUS
<1>4. B = {u \in Threads : thread'[u].pc = "table" /\ thread'[u].raf.state = s}
  BY <1>3 DEF OpeningOf, Opening
<1>5. A = {u \in Threads : thread[u].pc = "table" /\ thread[u].raf.state = s}
  BY <1>2 DEF OpeningOf, Opening
<1>6. B \ {t} = A \ {t} BY <1>1, <1>4, <1>5
<1>7. (t \in A <=> Opens(thread[t], s)) /\ (t \in B <=> Opens(r, s))
  BY <1>1, <1>4, <1>5 DEF Opens
<1>8. IsFiniteSet(A) BY <1>2, ReadersCount
<1>9. /\ Cardinality(A) \in Nat /\ Cardinality(B) \in Nat
      /\ Cardinality(B) + (IF t \in A THEN 1 ELSE 0) = Cardinality(A) + (IF t \in B THEN 1 ELSE 0)
  BY <1>6, <1>8, OneChanges
<1> QED BY <1>2, <1>3, <1>7, <1>9

(* A step of a thread after which the counts are right.                    *)
LEMMA FilesSettled ==
    ASSUME CacheInv, FilesInv, env.kind = "mem", NEW t \in Threads, NEW r \in Work,
           thread' = [thread EXCEPT ![t] = r], r.pc \notin {"acquire", "map"},
           names' = names, NEW j, Counted(env', j),
           \A s \in Nat : j[s] = Cardinality(ReadersOf(s)') + Cardinality(OpeningOf(s)'),
           DOMAIN env'.states \subseteq DOMAIN env.states
    PROVE  FilesInv'
<1>1. \A u \in Threads : thread'[u] = IF u = t THEN r ELSE thread[u] BY Moves DEF CacheInv
<1>2. \A u \in Threads : thread'[u].pc \notin {"acquire", "map"} BY <1>1 DEF FilesInv
<1>3. \A s \in DOMAIN env'.states : s \in Nat /\ s <= Max(Files) + names' BY DEF FilesInv
<1>4. PICK R : R = Readers' OBVIOUS
<1>5. R = [s \in Nat |-> Cardinality(ReadersOf(s)') + Cardinality(OpeningOf(s)')]
  BY <1>4 DEF Readers
<1>6. j \in [Nat -> Nat] BY DEF Counted
<1>7. R = j BY <1>5, <1>6
<1>8. Counted(env', Readers') BY <1>4, <1>7
<1> QED BY <1>2, <1>3, <1>8 DEF FilesInv

(* What FilesInv says of a count.                                          *)
LEMMA ReadersAre ==
    ASSUME CacheInv, FilesInv, env.kind = "mem"
    PROVE  /\ Counted(env, Readers) /\ Readers \in [Nat -> Nat] /\ EnvType(env) /\ FilesType(env)
           /\ \A s \in Nat : Readers[s] = Cardinality(ReadersOf(s)) + Cardinality(OpeningOf(s))
BY DEF FilesInv, Counted, Readers

(* A step that opens, closes or moves no file.                             *)
LEMMA FilesIdle ==
    ASSUME CacheInv, FilesInv, env.kind = "mem", NEW t \in Threads, NEW r \in Work,
           thread' = [thread EXCEPT ![t] = r], r.pc \notin {"acquire", "map", "table"},
           thread[t].pc # "table", UNCHANGED <<env, names>>, Allocated' = Allocated, Kept
    PROVE  FilesInv'
<1>1. Counted(env', Readers) /\ Readers \in [Nat -> Nat] BY ReadersAre
<1>2. ASSUME NEW s \in Nat
      PROVE  Readers[s] = Cardinality(ReadersOf(s)') + Cardinality(OpeningOf(s)')
  <2>1. ReadersOf(s)' = ReadersOf(s) BY DEF ReadersOf, Kept
  <2>2. ~Opens(thread[t], s) /\ ~Opens(r, s) BY DEF Opens
  <2>3. Cardinality(OpeningOf(s)') = Cardinality(OpeningOf(s))
    <3>1. PICK n, p : n = Cardinality(OpeningOf(s)) /\ p = Cardinality(OpeningOf(s)') OBVIOUS
    <3>2. /\ n \in Nat /\ p \in Nat
          /\ p + (IF Opens(thread[t], s) THEN 1 ELSE 0) = n + (IF Opens(r, s) THEN 1 ELSE 0)
      BY <3>1, ThreadOpening
    <3> QED BY <2>2, <3>1, <3>2
  <2>4. Readers[s] = Cardinality(ReadersOf(s)) + Cardinality(OpeningOf(s)) BY ReadersAre
  <2> QED BY <2>1, <2>3, <2>4
<1>3. PICK j : j = Readers OBVIOUS
<1>4. \A s \in Nat : j[s] = Cardinality(ReadersOf(s)') + Cardinality(OpeningOf(s)') BY <1>2, <1>3
<1>5. Counted(env', j) /\ DOMAIN env'.states \subseteq DOMAIN env.states BY <1>1, <1>3
<1> QED BY <1>4, <1>5, FilesSettled

(* OpenFile: the file of the name gets a reader.                           *)
LEMMA OpenFileCounts ==
    ASSUME CacheInv, FilesInv, env.kind = "mem", NEW t \in Threads, OpenFile(t)
    PROVE  FilesInv'
<1>1. /\ TypeInv /\ thread[t].pc = "open" /\ UNCHANGED <<cache, inserts, names>>
      /\ Idle \in Work /\ Idle.pc = "idle" /\ Kept /\ Allocated' = Allocated
  BY ThreadFacts DEF OpenFile, Kept, Allocated
<1>2. CASE thread[t].file \notin DOMAIN env.file_map
  <2>1. thread' = [thread EXCEPT ![t] = Idle] /\ env' = env BY <1>2 DEF OpenFile
  <2> QED BY <2>1, <1>1, FilesIdle
<1>3. CASE thread[t].file \in DOMAIN env.file_map
  <2>1. PICK s : s = env.file_map[thread[t].file] OBVIOUS
  <2>2. PICK raf : raf = [NoFile EXCEPT !.state = s] OBVIOUS
  <2>3. PICK e : e = env' OBVIOUS
  <2>4. PICK K : K = Readers OBVIOUS
  <2>5. Counted(env, K) /\ K \in [Nat -> Nat] BY <2>4, ReadersAre
  <2>6. s \in Nat /\ s \in DOMAIN env.states BY <2>1, <2>5, <1>3, NamedIsThere
  <2>7. raf = [state |-> s, mapped |-> FALSE] BY <2>2 DEF NoFile
  <2>8. raf \in Raf /\ raf.state = s BY <2>6, <2>7 DEF Raf
  <2>9. Become(t, "table", NULL, raf) /\ e = Ref(env, s)
    BY <1>3, <2>1, <2>2, <2>3 DEF OpenFile
  <2>10. PICK r : r = [pc |-> "table", file |-> thread[t].file, handle |-> NULL, raf |-> raf] OBVIOUS
  <2>11. r \in Work /\ thread' = [thread EXCEPT ![t] = r]
    <3>1. "table" \in PCs /\ NULL \in Nat BY DEF PCs, NULL
    <3> QED BY <3>1, <1>1, <2>8, <2>9, <2>10, BecomeIs
  <2>12. PICK j : j = [x \in Nat |-> IF x = s THEN K[x] + 1 ELSE K[x]] OBVIOUS
  <2>13. j \in [Nat -> Nat] /\ \A x \in Nat : j[x] = IF x = s THEN K[x] + 1 ELSE K[x]
    BY <2>5, <2>12
  <2>14. Counted(e, j) /\ DOMAIN e.states = DOMAIN env.states
    BY ONLY <2>5, <2>6, <2>9, <2>13, ReaderComes
  <2>15. ASSUME NEW x \in Nat
         PROVE  j[x] = Cardinality(ReadersOf(x)') + Cardinality(OpeningOf(x)')
    <3>1. ReadersOf(x)' = ReadersOf(x) BY <1>1 DEF ReadersOf
    <3>2. ~Opens(thread[t], x) /\ (Opens(r, x) <=> x = s) BY <1>1, <2>8, <2>10 DEF Opens
    <3>3. PICK m, n, p : m = Cardinality(ReadersOf(x)) /\ n = Cardinality(OpeningOf(x))
                         /\ p = Cardinality(OpeningOf(x)')
      OBVIOUS
    <3>4. m \in Nat /\ n \in Nat /\ p \in Nat /\ p = n + (IF x = s THEN 1 ELSE 0)
      <4>1. m \in Nat BY <3>3, ReadersCount
      <4>2. /\ n \in Nat /\ p \in Nat
            /\ p + (IF Opens(thread[t], x) THEN 1 ELSE 0) = n + (IF Opens(r, x) THEN 1 ELSE 0)
        BY <2>11, <3>3, ThreadOpening
      <4> QED BY <3>2, <4>1, <4>2
    <3>5. K[x] = m + n BY <2>4, <3>3, ReadersAre
    <3>6. j[x] = IF x = s THEN K[x] + 1 ELSE K[x] BY <2>13
    <3>7. j[x] = m + p BY <3>4, <3>5, <3>6
    <3> QED BY <3>1, <3>3, <3>7
  <2>16. r.pc \notin {"acquire", "map"} BY <2>10
  <2>17. Counted(env', j) /\ DOMAIN env'.states \subseteq DOMAIN env.states BY <2>3, <2>14
  <2> QED BY <1>1, <2>11, <2>15, <2>16, <2>17, FilesSettled
<1> QED BY <1>2, <1>3

(* OpenFails: the reader goes.                                             *)
LEMMA OpenFailsCounts ==
    ASSUME CacheInv, FilesInv, env.kind = "mem", NEW t \in Threads, OpenFails(t)
    PROVE  FilesInv'
<1>1. /\ TypeInv /\ thread[t].pc = "table" /\ UNCHANGED <<cache, inserts, names>>
      /\ Idle \in Work /\ Idle.pc = "idle" /\ thread[t].raf \in Raf
      /\ thread' = [thread EXCEPT ![t] = Idle]
  BY ThreadFacts DEF OpenFails
<1>2. PICK raf : raf = thread[t].raf OBVIOUS
<1>3. PICK s : s = raf.state OBVIOUS
<1>4. PICK e : e = env' OBVIOUS
<1>5. PICK K : K = Readers OBVIOUS
<1>6. Counted(env, K) /\ K \in [Nat -> Nat] BY <1>5, ReadersAre
<1>7. s \in Nat /\ raf.state = s BY <1>1, <1>2, <1>3 DEF Raf
<1>8. e = CloseFile(env, raf) BY <1>2, <1>4 DEF OpenFails
<1>9. PICK j : j = [x \in Nat |-> IF x = s THEN K[x] - 1 ELSE K[x]] OBVIOUS
<1>10. ASSUME NEW x \in Nat
       PROVE  /\ j[x] \in Nat /\ (x = s => K[x] # 0)
              /\ j[x] = Cardinality(ReadersOf(x)') + Cardinality(OpeningOf(x)')
  <2>1. ReadersOf(x)' = ReadersOf(x) BY <1>1 DEF ReadersOf, Allocated
  <2>2. ~Opens(Idle, x) /\ (Opens(thread[t], x) <=> x = s) BY <1>1, <1>2, <1>3 DEF Opens
  <2>3. PICK m, n, p : m = Cardinality(ReadersOf(x)) /\ n = Cardinality(OpeningOf(x))
                       /\ p = Cardinality(OpeningOf(x)')
    OBVIOUS
  <2>4. m \in Nat /\ n \in Nat /\ p \in Nat /\ p + (IF x = s THEN 1 ELSE 0) = n
    <3>1. m \in Nat BY <2>3, ReadersCount
    <3>2. /\ n \in Nat /\ p \in Nat
          /\ p + (IF Opens(thread[t], x) THEN 1 ELSE 0) = n + (IF Opens(Idle, x) THEN 1 ELSE 0)
      BY <1>1, <2>3, ThreadOpening
    <3> QED BY <2>2, <3>1, <3>2
  <2>5. K[x] = m + n BY <1>5, <2>3, ReadersAre
  <2>6. j[x] = IF x = s THEN K[x] - 1 ELSE K[x] BY <1>9
  <2>7. j[x] \in Nat /\ (x = s => K[x] # 0) /\ j[x] = m + p BY <2>4, <2>5, <2>6
  <2> QED BY <2>1, <2>3, <2>7
<1>11. j \in [Nat -> Nat] BY <1>9, <1>10
<1>12. \A x \in Nat : j[x] = IF x = s THEN K[x] - 1 ELSE K[x] BY <1>9
<1>13. K[s] # 0 BY <1>7, <1>10
<1>14. Counted(e, j) /\ DOMAIN e.states \subseteq DOMAIN env.states
  BY ONLY <1>6, <1>7, <1>8, <1>11, <1>12, <1>13, ReaderGoes
<1>15. Counted(env', j) /\ DOMAIN env'.states \subseteq DOMAIN env.states BY <1>4, <1>14
<1>16. \A x \in Nat : j[x] = Cardinality(ReadersOf(x)') + Cardinality(OpeningOf(x)') BY <1>10
<1>17. Idle.pc \notin {"acquire", "map"} BY <1>1
<1> QED BY <1>1, <1>15, <1>16, <1>17, FilesSettled

(* A step that may free a handle, and in which no thread opens a table.    *)
LEMMA FreeCounts ==
    ASSUME CacheInv, FilesInv, env.kind = "mem", CacheBecomes(cache'), Kept,
           Allocated' \subseteq Allocated, NEW t \in Threads, NEW r \in Work,
           thread' = [thread EXCEPT ![t] = r], r.pc \notin {"acquire", "map", "table"},
           thread[t].pc # "table", names' = names
    PROVE  FilesInv'
<1>1. PICK A : A = Allocated \cap Allocated' OBVIOUS
<1>2. PICK k : k = Readers OBVIOUS
<1>3. PICK o : o = [s \in Nat |-> Cardinality(OpeningOf(s))] OBVIOUS
<1>4. o \in [Nat -> Nat] BY <1>3, ReadersCount
<1>5. Counted(env, k) /\ \A s \in Nat : k[s] = Cardinality(ReadersOf(s)) + o[s]
  BY <1>2, <1>3, ReadersAre
<1>6. PICK j : j = [s \in Nat |-> Cardinality({h \in A : cache'.handles[h].file.state = s}) + o[s]]
  OBVIOUS
<1>7. j \in [Nat -> Nat] /\ Counted(env', j) /\ DOMAIN env'.states \subseteq DOMAIN env.states
  <2>1. Recounts(k, o, j) BY <1>1, <1>4, <1>5, <1>6 DEF Recounts
  <2> QED BY <2>1, ShardFiles
<1>8. ASSUME NEW s \in Nat
      PROVE  j[s] = Cardinality(ReadersOf(s)') + Cardinality(OpeningOf(s)')
  <2>1. ReadersOf(s)' = {h \in A : cache'.handles[h].file.state = s}
    <3>1. A = Allocated' BY <1>1
    <3> QED BY <3>1 DEF ReadersOf
  <2>2. Cardinality(OpeningOf(s)') = o[s]
    <3>1. PICK n, p : n = Cardinality(OpeningOf(s)) /\ p = Cardinality(OpeningOf(s)') OBVIOUS
    <3>2. /\ n \in Nat /\ p \in Nat
          /\ p + (IF Opens(thread[t], s) THEN 1 ELSE 0) = n + (IF Opens(r, s) THEN 1 ELSE 0)
      BY <3>1, ThreadOpening
    <3>3. ~Opens(thread[t], s) /\ ~Opens(r, s) BY DEF Opens
    <3> QED BY <3>1, <3>2, <3>3, <1>3
  <2> QED BY <2>1, <2>2, <1>6
<1> QED BY <1>7, <1>8, FilesSettled

(* InsertTable: the reader of the thread becomes one of the cache.         *)
LEMMA InsertCounts ==
    ASSUME CacheInv, FilesInv, env.kind = "mem", NEW t \in Threads, InsertTable(t)
    PROVE  FilesInv'
<1>1. PICK h : h = inserts + 1 OBVIOUS
<1>2. PICK raf : raf = thread[t].raf OBVIOUS
<1>3. /\ Kept /\ h \in Allocated' /\ h \notin Allocated /\ Allocated' \subseteq Allocated \cup {h}
      /\ cache'.handles[h].file = raf
  BY <1>1, <1>2, InsertKeeps
<1>4. CacheBecomes(cache')
  <2>1. PICK c : CacheBecomes(c) BY DEF InsertTable
  <2> QED BY <2>1 DEF CacheBecomes
<1>5. PICK r : r = [pc |-> "evict", file |-> thread[t].file, handle |-> h, raf |-> NoFile] OBVIOUS
<1>6. r \in Work /\ thread' = [thread EXCEPT ![t] = r]
  <2>1. /\ TypeInv /\ NoFile \in Raf /\ inserts \in Nat BY ThreadFacts DEF TypeInv
  <2>2. Become(t, "evict", h, NoFile) BY <1>1 DEF InsertTable
  <2>3. "evict" \in PCs /\ h \in Nat BY <2>1, <1>1 DEF PCs
  <2> QED BY <2>1, <2>2, <2>3, <1>5, BecomeIs
<1>7. PICK A : A = Allocated \cap Allocated' OBVIOUS
<1>8. PICK k : k = Readers OBVIOUS
<1>9. PICK o : o = [s \in Nat |-> Cardinality(OpeningOf(s))] OBVIOUS
<1>10. o \in [Nat -> Nat] BY <1>9, ReadersCount
<1>11. Counted(env, k) /\ \A s \in Nat : k[s] = Cardinality(ReadersOf(s)) + o[s]
  BY <1>8, <1>9, ReadersAre
<1>12. PICK j : j = [s \in Nat |-> Cardinality({x \in A : cache'.handles[x].file.state = s}) + o[s]]
  OBVIOUS
<1>13. j \in [Nat -> Nat] /\ Counted(env', j) /\ DOMAIN env'.states \subseteq DOMAIN env.states
  <2>1. Recounts(k, o, j) BY <1>7, <1>10, <1>11, <1>12 DEF Recounts
  <2> QED BY <2>1, <1>3, <1>4, ShardFiles
<1>14. ASSUME NEW s \in Nat
       PROVE  j[s] = Cardinality(ReadersOf(s)') + Cardinality(OpeningOf(s)')
  <2>1. PICK M : M = ReadersOf(s)' OBVIOUS
  <2>2. PICK N : N = {x \in A : cache'.handles[x].file.state = s} OBVIOUS
  <2>3. Allocated' = A \cup {h} /\ h \notin A BY <1>3, <1>7
  <2>4. M = {x \in A \cup {h} : cache'.handles[x].file.state = s} BY <2>1, <2>3 DEF ReadersOf
  <2>5. M \ {h} = N \ {h} /\ h \notin N /\ (h \in M <=> raf.state = s)
    BY <2>2, <2>3, <2>4, <1>3
  <2>6. IsFiniteSet(N)
    <3>1. \A x \in N : x \in ReadersOf(s) BY <2>2, <1>3, <1>7 DEF ReadersOf, Kept
    <3>2. N \in SUBSET ReadersOf(s) BY <3>1
    <3> QED BY <3>2, ReadersCount, FS_Subset
  <2>7. /\ Cardinality(M) \in Nat /\ Cardinality(N) \in Nat
        /\ Cardinality(M) = Cardinality(N) + (IF raf.state = s THEN 1 ELSE 0)
    <3>1. /\ Cardinality(N) \in Nat /\ Cardinality(M) \in Nat
          /\ Cardinality(M) + (IF h \in N THEN 1 ELSE 0) = Cardinality(N) + (IF h \in M THEN 1 ELSE 0)
      BY <2>5, <2>6, OneChanges
    <3> QED BY <3>1, <2>5
  <2>8. PICK n, p : n = Cardinality(OpeningOf(s)) /\ p = Cardinality(OpeningOf(s)') OBVIOUS
  <2>9. n \in Nat /\ p \in Nat /\ p + (IF raf.state = s THEN 1 ELSE 0) = n
    <3>1. /\ n \in Nat /\ p \in Nat
          /\ p + (IF Opens(thread[t], s) THEN 1 ELSE 0) = n + (IF Opens(r, s) THEN 1 ELSE 0)
      BY <2>8, <1>6, ThreadOpening
    <3>2. ~Opens(r, s) /\ (Opens(thread[t], s) <=> raf.state = s)
      BY <1>2, <1>5 DEF Opens, InsertTable
    <3> QED BY <3>1, <3>2
  <2>10. j[s] = Cardinality(N) + n BY <2>2, <2>8, <1>9, <1>12
  <2>11. j[s] = Cardinality(M) + p BY <2>7, <2>9, <2>10
  <2> QED BY <2>1, <2>8, <2>11
<1>15. r.pc \notin {"acquire", "map"} /\ names' = names BY <1>5 DEF InsertTable
<1> QED BY <1>6, <1>13, <1>14, <1>15, FilesSettled

(* A change of names leaves the readers alone.                             *)
LEMMA NamesCount ==
    ASSUME CacheInv, FilesInv, env.kind = "mem",
           \E f \in Files : DeleteFile(f) \/ NewWritableFile(f) \/ \E g \in Files : RenameFile(f, g)
    PROVE  FilesInv'
<1>1. PICK k : k = Readers OBVIOUS
<1>2. PICK d : d = env' OBVIOUS
<1>3. Counted(env, k) BY <1>1, ReadersAre
<1>4. UNCHANGED <<cache, inserts, thread>> /\ names \in Nat /\ names' = names + 1
  BY DEF DeleteFile, NewWritableFile, RenameFile, ChangeNames, CacheInv, TypeInv
<1>5. Readers' = Readers
  <2>1. \A s : ReadersOf(s)' = ReadersOf(s) BY <1>4 DEF ReadersOf, Allocated
  <2>2. \A s : OpeningOf(s)' = OpeningOf(s) BY <1>4 DEF OpeningOf, Opening
  <2> QED BY <2>1, <2>2 DEF Readers
<1>6. PICK m : m = Max(Files) OBVIOUS
<1>7. m \in Nat
  <2>1. Files \subseteq Nat /\ IsFiniteSet(Files) /\ Files # {} BY CacheAssumption
  <2> QED BY <2>1, <1>6, MaxIs
<1>8. \A s \in DOMAIN env.states : s \in Nat /\ s <= m + names BY <1>6 DEF FilesInv
<1>9. PICK new : new = m + names + 1 OBVIOUS
<1>10. new \in Nat /\ new \notin DOMAIN env.states BY <1>4, <1>7, <1>8, <1>9
<1>11. Counted(d, k) /\ DOMAIN d.states \subseteq DOMAIN env.states \cup {new}
  <2>1. CASE \E f \in Files : DeleteFile(f)
    <3>1. PICK f \in Files : d = DeleteFileInternal(env, f)
      BY <2>1, <1>2 DEF DeleteFile, ChangeNames
    <3> QED BY <3>1, <1>3, NameGoes
  <2>2. CASE \E f \in Files : NewWritableFile(f)
    <3>1. PICK f \in Files : d = WriteFile(env, f, new, Pieces[f])
      BY <2>2, <1>2, <1>6, <1>9 DEF NewWritableFile, ChangeNames
    <3>2. PICK ps : ps = Pieces[f] OBVIOUS
    <3>3. ps \in Seq(Seq(Byte)) BY <3>2, CacheAssumption DEF Byte
    <3>4. d = WriteFile(env, f, new, ps) BY <3>1, <3>2
    <3> QED BY ONLY <3>3, <3>4, <1>3, <1>10, NameComes
  <2>3. CASE \E f, g \in Files : RenameFile(f, g)
    <3>1. PICK f \in Files, g \in Files : /\ f # g /\ f \in DOMAIN env.file_map
                                          /\ d = RenameTo(env, f, g)
      BY <2>3, <1>2 DEF RenameFile, ChangeNames
    <3> QED BY <3>1, <1>3, NameMoves
  <2> QED BY <2>1, <2>2, <2>3
<1>12. \A s \in DOMAIN d.states : s \in Nat /\ s <= m + names'
  BY <1>4, <1>7, <1>8, <1>9, <1>10, <1>11
<1>13. \A t \in Threads : thread'[t].pc \notin {"acquire", "map"} BY <1>4 DEF FilesInv
<1>14. Counted(env', Readers') BY <1>1, <1>2, <1>5, <1>11
<1> QED BY <1>2, <1>6, <1>12, <1>13, <1>14 DEF FilesInv

(* The environment is one of the two for good.                             *)
LEMMA KindStays == ASSUME CacheInv, [Next]_vars PROVE env'.kind = env.kind
<1>1. EnvType(env) /\ env.allowed \in Nat BY DEF CacheInv, TypeInv, EnvType
<1>2. CASE UNCHANGED vars BY <1>2 DEF vars
<1>3. ASSUME NEW t \in Threads, NEW f \in Files, FindTable(t, f) PROVE env'.kind = env.kind
  BY <1>3 DEF FindTable
<1>4. ASSUME NEW t \in Threads, OpenFile(t) PROVE env'.kind = env.kind
  <2>1. env' = env \/ \E s : env' = Ref(env, s) BY <1>4 DEF OpenFile
  <2> QED BY <2>1, <1>1, RefIs
<1>5. ASSUME NEW t \in Threads, Acquire(t) \/ MapFails(t) PROVE env'.kind = env.kind
  <2>1. env' = env \/ \E k \in Int : env' = [env EXCEPT !.allowed = k]
    BY <1>1, <1>5 DEF Acquire, MapFails
  <2>2. env = [kind |-> env.kind, file_map |-> env.file_map, states |-> env.states,
               allowed |-> env.allowed]
    BY <1>1 DEF EnvType
  <2> QED BY <2>1, <2>2
<1>6. ASSUME NEW t \in Threads, Map(t) \/ EvictEnds(t) PROVE env'.kind = env.kind
  BY <1>6 DEF Map, EvictEnds
<1>7. ASSUME NEW t \in Threads, OpenFails(t) PROVE env'.kind = env.kind
  <2>1. PICK raf : env' = CloseFile(env, raf) BY <1>7 DEF OpenFails
  <2> QED BY <2>1, <1>1, CloseFileIs
<1>8. ASSUME NEW t \in Threads, NEW f \in Files,
             InsertTable(t) \/ EvictOldest(t) \/ Release(t) \/ Evict(t, f)
      PROVE  env'.kind = env.kind
  <2>1. PICK c : CacheBecomes(c) BY <1>8 DEF InsertTable, EvictOldest, Release, Evict
  <2> QED BY <2>1, <1>1, BecomesIs
<1>9. ASSUME NEW t \in Threads, InsertTable(t) \/ EvictOldest(t) \/ Release(t)
      PROVE  env'.kind = env.kind
  <2>1. PICK c : CacheBecomes(c) BY <1>9 DEF InsertTable, EvictOldest, Release
  <2> QED BY <2>1, <1>1, BecomesIs
<1>10. CASE \E f \in Files : DeleteFile(f) \/ NewWritableFile(f) \/ \E g \in Files : RenameFile(f, g)
  BY <1>10, NamesChange DEF CacheInv
<1> QED BY <1>2, <1>3, <1>4, <1>5, <1>6, <1>7, <1>8, <1>9, <1>10 DEF Next

(* In the beginning every file has its name.                               *)
LEMMA FilesInit == Init => FilesInv
<1> SUFFICES ASSUME Init, env.kind = "mem" PROVE FilesInv BY DEF FilesInv
<1>1. PICK m : m = [f \in Files |-> f] OBVIOUS
<1>2. PICK st : st = [f \in Files |-> WrittenState(Pieces[f])] OBVIOUS
<1>3. env = [kind |-> "mem", file_map |-> m, allowed |-> MaxMmaps, states |-> st]
  <2>1. PICK kind \in {"posix", "mem"} :
           env = [kind |-> kind, file_map |-> m, allowed |-> MaxMmaps,
                  states |-> IF kind = "posix" THEN <<>> ELSE st]
    BY <1>1, <1>2 DEF Init
  <2>2. kind = "mem" BY <2>1
  <2> QED BY <2>1, <2>2
<1>4. env.kind = "mem" /\ env.file_map = m /\ env.states = st /\ env.allowed = MaxMmaps BY <1>3
<1>5. Files \subseteq Nat /\ IsFiniteSet(Files) /\ MaxMmaps \in Nat
  BY CacheAssumption, EnvAssumption
<1>6. EnvType(env)
  <2>1. m \in [DOMAIN m -> Nat] BY <1>1, <1>5
  <2> QED BY <2>1, <1>3, <1>4, <1>5 DEF EnvType
<1>7. ASSUME NEW f \in Files PROVE Stored(st[f]) /\ st[f].refs = 1
  <2>1. PICK ps : ps = Pieces[f] OBVIOUS
  <2>2. ps \in Seq(Seq(Byte)) BY <2>1, CacheAssumption DEF Byte
  <2>3. PICK d : d = WrittenState(ps) OBVIOUS
  <2>4. Stored(d) /\ d.refs = 1 BY ONLY <2>2, <2>3, WrittenIs
  <2> QED BY <2>1, <2>3, <2>4, <1>2
<1>8. DOMAIN st = Files /\ DOMAIN m = Files /\ \A f \in Files : m[f] = f BY <1>1, <1>2
<1>9. FilesType(env)
  <2>1. st = [s \in DOMAIN st |-> st[s]] BY <1>2
  <2> QED BY <2>1, <1>4, <1>7, <1>8 DEF FilesType
<1>10. ASSUME NEW s PROVE ReadersOf(s) = {} /\ OpeningOf(s) = {}
  <2>1. Allocated = {} BY DEF Init, Allocated
  <2>2. Opening = {} BY DEF Init, Opening, Idle
  <2> QED BY <2>1, <2>2 DEF ReadersOf, OpeningOf
<1>11. PICK k : k = Readers OBVIOUS
<1>12. \A s \in Nat : k[s] = 0
  <2> TAKE s \in Nat
  <2>1. Cardinality(ReadersOf(s)) = 0 /\ Cardinality(OpeningOf(s)) = 0 BY <1>10, FS_EmptySet
  <2> QED BY <2>1, <1>11 DEF Readers
<1>13. k \in [Nat -> Nat]
  <2>1. k = [s \in Nat |-> k[s]] BY <1>11 DEF Readers
  <2> QED BY <2>1, <1>12
<1>14. ASSUME NEW s \in Nat PROVE RefsOf(env, s) = Cardinality(NamesOf(env, s)) + k[s]
  <2>1. CASE s \in Files
    <3>1. NamesOf(env, s) = {s} BY <2>1, <1>4, <1>8 DEF NamesOf
    <3>2. Cardinality(NamesOf(env, s)) = 1 BY <3>1, FS_Singleton
    <3>3. RefsOf(env, s) = 1 BY <2>1, <1>4, <1>7, <1>8 DEF RefsOf
    <3> QED BY <3>2, <3>3, <1>12
  <2>2. CASE s \notin Files
    <3>1. NamesOf(env, s) = {} BY <2>2, <1>4, <1>8 DEF NamesOf
    <3>2. Cardinality(NamesOf(env, s)) = 0 BY <3>1, FS_EmptySet
    <3>3. RefsOf(env, s) = 0 BY <2>2, <1>4, <1>8 DEF RefsOf
    <3> QED BY <3>2, <3>3, <1>12
  <2> QED BY <2>1, <2>2
<1>15. Counted(env, Readers) BY <1>6, <1>9, <1>11, <1>13, <1>14 DEF Counted
<1>16. ASSUME NEW s \in DOMAIN env.states PROVE s \in Nat /\ s <= Max(Files) + names
  <2>1. s \in Files /\ names = 0 BY <1>4, <1>8 DEF Init
  <2>2. Max(Files) \in Nat /\ s <= Max(Files) BY <2>1, <1>5, MaxIs
  <2> QED BY <2>1, <2>2, <1>5
<1>17. \A t \in Threads : thread[t].pc \notin {"acquire", "map"} BY DEF Init, Idle
<1> QED BY <1>15, <1>16, <1>17 DEF FilesInv

(* FindTable moves no file.                                                *)
LEMMA FindTableCounts ==
    ASSUME CacheInv, FilesInv, env.kind = "mem", NEW t \in Threads, NEW f \in Files, FindTable(t, f)
    PROVE  FilesInv'
<1>1. /\ thread[t] = Idle /\ ~Locked /\ UNCHANGED <<inserts, env, names>> /\ thread[t].pc # "table"
  BY DEF FindTable, Idle
<1>2. CASE TableLookup(cache, f) # NULL
  <2>1. Allocated' = Allocated /\ Kept BY <1>1, <1>2, FindTableHits DEF FindTable
  <2>2. TableLookup(cache, f) \in Nat
    <3>1. PICK S : S = InTable(cache) OBVIOUS
    <3> QED BY <3>1, <1>2, ShardFacts, LookupIs
  <2>3. PICK h : h = TableLookup(cache, f) OBVIOUS
  <2>4. PICK r : r = [Idle EXCEPT !.pc = "use", !.file = f, !.handle = h] OBVIOUS
  <2>5. r = [pc |-> "use", file |-> f, handle |-> h, raf |-> NoFile] BY <2>4 DEF Idle
  <2>6. r \in Work /\ r.pc = "use" BY <2>2, <2>3, <2>5 DEF Work, PCs, Raf, NoFile, NULL
  <2>7. thread' = [thread EXCEPT ![t] = r] BY <1>2, <2>3, <2>4 DEF FindTable
  <2> QED BY <2>1, <2>6, <2>7, <1>1, FilesIdle
<1>3. CASE TableLookup(cache, f) = NULL
  <2>1. PICK r : r = [Idle EXCEPT !.pc = "open", !.file = f] OBVIOUS
  <2>2. r = [pc |-> "open", file |-> f, handle |-> NULL, raf |-> NoFile] BY <2>1 DEF Idle
  <2>3. r \in Work /\ r.pc = "open" BY <2>2 DEF Work, PCs, Raf, NoFile, NULL
  <2>4. thread' = [thread EXCEPT ![t] = r] /\ cache' = cache BY <1>3, <2>1 DEF FindTable
  <2>5. Allocated' = Allocated /\ Kept BY <2>4 DEF Allocated, Kept
  <2> QED BY <2>3, <2>4, <2>5, <1>1, FilesIdle
<1> QED BY <1>2, <1>3

(* Every step keeps the counts.                                            *)
LEMMA FilesStep == CacheInv /\ FilesInv /\ [Next]_vars => FilesInv'
<1> SUFFICES ASSUME CacheInv, FilesInv, [Next]_vars, env'.kind = "mem" PROVE FilesInv'
  BY DEF FilesInv
<1>1. env.kind = "mem" BY KindStays
<1>2. CASE UNCHANGED vars
  <2>1. \A s : ReadersOf(s)' = ReadersOf(s) /\ OpeningOf(s)' = OpeningOf(s)
    BY <1>2 DEF vars, ReadersOf, OpeningOf, Opening, Allocated
  <2>2. Readers' = Readers BY <2>1 DEF Readers
  <2> QED BY <2>2, <1>2 DEF vars, FilesInv
<1>3. ASSUME NEW t \in Threads, NEW f \in Files, FindTable(t, f) PROVE FilesInv'
  BY <1>1, <1>3, FindTableCounts
<1>4. ASSUME NEW t \in Threads, OpenFile(t) PROVE FilesInv' BY <1>1, <1>4, OpenFileCounts
<1>5. ASSUME NEW t \in Threads PROVE ~Acquire(t) /\ ~Map(t) /\ ~MapFails(t)
  BY <1>1 DEF FilesInv, Acquire, Map, MapFails
<1>6. ASSUME NEW t \in Threads, OpenFails(t) PROVE FilesInv' BY <1>1, <1>6, OpenFailsCounts
<1>7. ASSUME NEW t \in Threads, InsertTable(t) PROVE FilesInv' BY <1>1, <1>7, InsertCounts
<1>8. ASSUME NEW t \in Threads, NEW f \in Files, Evict(t, f) \/ EvictOldest(t) PROVE FilesInv'
  <2>1. Allocated' \subseteq Allocated /\ Kept BY <1>8, EvictsKeep
  <2>2. CacheBecomes(cache') /\ UNCHANGED <<thread, names>>
    <3>1. PICK c : CacheBecomes(c) BY <1>8 DEF Evict, EvictOldest
    <3> QED BY <3>1, <1>8 DEF CacheBecomes, Evict, EvictOldest
  <2>3. PICK r : r = thread[t] OBVIOUS
  <2>4. r \in Work /\ thread \in [Threads -> Work] /\ Idle.pc = "idle"
    BY <2>3, ThreadFacts DEF TypeInv
  <2>5. thread' = [thread EXCEPT ![t] = r] BY <2>2, <2>3, <2>4
  <2>6. r.pc \notin {"acquire", "map", "table"} BY <1>8, <2>3, <2>4 DEF Evict, EvictOldest
  <2> QED BY <2>1, <2>2, <2>3, <2>4, <2>5, <2>6, <1>1, FreeCounts
<1>9. ASSUME NEW t \in Threads, EvictOldest(t) PROVE FilesInv'
  <2>1. thread[t].pc = "evict" BY <1>9 DEF EvictOldest
  <2>2. thread[t].file \in Files BY <2>1, ThreadFacts
  <2> QED BY <2>2, <1>8, <1>9
<1>10. ASSUME NEW t \in Threads, Release(t) PROVE FilesInv'
  <2>1. Allocated' \subseteq Allocated /\ Kept BY <1>10, ReleaseKeeps
  <2>2. CacheBecomes(cache')
    <3>1. PICK c : CacheBecomes(c) BY <1>10 DEF Release
    <3> QED BY <3>1 DEF CacheBecomes
  <2>3. /\ thread[t].pc = "use" /\ thread' = [thread EXCEPT ![t] = Idle] /\ names' = names
        /\ Idle \in Work /\ Idle.pc = "idle"
    BY <1>10, ThreadFacts DEF Release
  <2> QED BY <2>1, <2>2, <2>3, <1>1, FreeCounts
<1>11. ASSUME NEW t \in Threads, EvictEnds(t) PROVE FilesInv'
  <2>1. /\ TypeInv /\ NoFile \in Raf /\ thread[t].handle \in Nat /\ thread[t].pc = "evict"
        /\ UNCHANGED <<cache, env, names>>
    BY <1>11, ThreadFacts DEF EvictEnds
  <2>2. PICK r : r = [pc |-> "use", file |-> thread[t].file, handle |-> thread[t].handle,
                      raf |-> NoFile]
    OBVIOUS
  <2>3. r \in Work /\ thread' = [thread EXCEPT ![t] = r]
    <3>1. "use" \in PCs /\ Become(t, "use", thread[t].handle, NoFile) BY <1>11 DEF PCs, EvictEnds
    <3> QED BY <3>1, <2>1, <2>2, BecomeIs
  <2>4. r.pc = "use" /\ Allocated' = Allocated /\ Kept BY <2>1, <2>2 DEF Allocated, Kept
  <2> QED BY <2>1, <2>3, <2>4, <1>1, FilesIdle
<1>12. CASE \E f \in Files : DeleteFile(f) \/ NewWritableFile(f) \/ \E g \in Files : RenameFile(f, g)
  BY <1>1, <1>12, NamesCount
<1> QED BY <1>2, <1>3, <1>4, <1>5, <1>6, <1>7, <1>8, <1>9, <1>10, <1>11, <1>12 DEF Next

(* FileState: a table that is open reads what was written to the file it   *)
(* opened, at every offset and length, though its name was deleted, given  *)
(* to another file or renamed; a file without name or reader is freed.     *)
THEOREM ReadsItsFileHolds == Spec => []ReadsItsFile
<1>1. CacheInv /\ FilesInv => ReadsItsFile
  <2> SUFFICES ASSUME CacheInv, FilesInv, env.kind = "mem" PROVE ReadsItsFile
    BY DEF ReadsItsFile
  <2>1. /\ Counted(env, Readers) /\ FilesType(env)
        /\ \A s \in Nat : Readers[s] = Cardinality(ReadersOf(s)) + Cardinality(OpeningOf(s))
        /\ \A s \in DOMAIN env.states : s \in Nat
    BY ReadersAre DEF FilesInv
  <2>2. ASSUME NEW h \in Allocated PROVE cache.handles[h].file.state \in DOMAIN env.states
    <3>1. PICK s : s = cache.handles[h].file.state OBVIOUS
    <3>2. s \in Nat
      <4>1. cache.handles \in [Allocated -> Handle] BY ShardFacts
      <4> QED BY <4>1, <3>1 DEF Handle, Raf
    <3>3. ReadersOf(s) # {} BY <3>1 DEF ReadersOf
    <3>4. PICK m, n, p : /\ m = Cardinality(ReadersOf(s)) /\ n = Cardinality(OpeningOf(s))
                         /\ p = Cardinality(NamesOf(env, s))
      OBVIOUS
    <3>5. m \in Nat /\ n \in Nat /\ p \in Nat BY <3>4, <2>1, ReadersCount, NamesFinite
    <3>6. m # 0
      <4>1. IsFiniteSet(ReadersOf(s)) BY ReadersCount
      <4> QED BY <4>1, <3>3, <3>4, FS_EmptySet
    <3>7. RefsOf(env, s) = p + (m + n) BY <2>1, <3>2, <3>4 DEF Counted
    <3>8. RefsOf(env, s) # 0 BY <3>5, <3>6, <3>7
    <3> QED BY <3>1, <3>8 DEF RefsOf
  <2>3. ASSUME NEW s \in DOMAIN env.states
        PROVE  \/ Cardinality(ReadersOf(s)) + Cardinality(OpeningOf(s)) > 0
               \/ s \in Range(env.file_map)
    <3>1. s \in Nat BY <2>1
    <3>2. PICK m, n, p : /\ m = Cardinality(ReadersOf(s)) /\ n = Cardinality(OpeningOf(s))
                         /\ p = Cardinality(NamesOf(env, s))
      OBVIOUS
    <3>3. m \in Nat /\ n \in Nat /\ p \in Nat BY <3>2, <2>1, ReadersCount, NamesFinite
    <3>4. RefsOf(env, s) = p + (m + n) BY <2>1, <3>1, <3>2 DEF Counted
    <3>5. RefsOf(env, s) \in Nat \ {0} BY <2>1 DEF RefsOf, FilesType
    <3>6. m + n > 0 \/ p # 0 BY <3>3, <3>4, <3>5
    <3>7. p # 0 => NamesOf(env, s) # {} BY <3>2, FS_EmptySet
    <3>8. NamesOf(env, s) # {} => s \in Range(env.file_map) BY DEF NamesOf, Range
    <3> QED BY <3>2, <3>6, <3>7, <3>8
  <2>4. ASSUME NEW s \in DOMAIN env.states, NEW offset \in 0..env.states[s].size,
               NEW n \in 0..env.states[s].size
        PROVE  StateRead(env.states[s], offset, n)
                  = SubSeq(env.states[s].data, offset + 1, Min({offset + n, env.states[s].size}))
    <3>1. PICK fs : fs = env.states[s] OBVIOUS
    <3>2. Stored(fs) BY <3>1, <2>1 DEF FilesType
    <3>3. offset \in 0..fs.size /\ n \in Nat BY <3>1
    <3>4. StateRead(fs, offset, n) = SubSeq(fs.data, offset + 1, Min({offset + n, fs.size}))
      BY ONLY <3>2, <3>3, StateReadIs
    <3> QED BY <3>1, <3>4
  <2> QED BY <2>2, <2>3, <2>4 DEF ReadsItsFile, ReadersOf, OpeningOf
<1> QED BY <1>1, FilesInit, FilesStep, CacheInvHolds, PTL DEF Spec
=============================================================================
