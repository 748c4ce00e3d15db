--------------------------- MODULE MemTableProofs ---------------------------
(***************************************************************************)
(* Proofs about MemTable, for any keys, heights, number of updates and     *)
(* readers: what readers without a lock find in a list that a writer       *)
(* changes under them, who keeps the memtable alive, and the arena.        *)
(*                                                                         *)
(* The invariant is about the lists: on every level the linked nodes form  *)
(* a chain in the order of their keys that misses none of them, and what   *)
(* is linked on a level is linked on all lower ones.  A search that reads  *)
(* one pointer at a time then always stands on a linked node before its    *)
(* target, whatever is linked meanwhile.                                   *)
(***************************************************************************)
EXTENDS MemTable, FiniteSetTheorems, TLAPS

Before(a, b) == b # head_ /\ (a = head_ \/ KeyLess(NodeKey(a), NodeKey(b)))

(* A pointer of the level was stored in the node.                          *)
Linked(n, l) == n \in DOMAIN next /\ next[n][l] # Uninit

(* How many nodes are inserted, on all their levels.                       *)
Inserted == IF writer.pc = "idle" THEN Len(key) ELSE Len(key) - 1

Allocated == IF writer.pc \in {"find", "height"} THEN Len(key) - 1 ELSE Len(key)

ListTypes ==
    /\ key \in Seq(Keys)
    /\ next \in [0..Allocated -> [Levels -> {NULL, Uninit} \cup 1..Len(key)]]
    /\ heights \subseteq 1..kMaxHeight
    /\ \E h \in heights : \A g \in heights : h >= g
    /\ published \in Nat

(* The pointer leads from a node to the next of its level.                 *)
Chained(n, l) ==
    /\ next[n][l] # NULL => Linked(next[n][l], l) /\ Before(n, next[n][l])
    /\ \A m \in DOMAIN next : Linked(m, l) /\ Before(n, m) =>
          next[n][l] # NULL /\ ~Before(m, next[n][l])

ListInv ==
    /\ \A l \in Levels : Linked(head_, l)
    /\ \A n \in 1..Inserted : Linked(n, 0)
    /\ \A n \in DOMAIN next, l \in Levels : Linked(n, l) => Chained(n, l)
    /\ \A n \in DOMAIN next, l \in Levels : Linked(n, l) => \A i \in 0..l : Linked(n, i)
    /\ \A n \in DOMAIN next, l \in Levels : Linked(n, l) /\ n # head_ => l < GetMaxHeight
    /\ published <= Inserted

(* The last node of the level before the new one.                          *)
LastBefore(p, l) ==
    /\ Linked(p, l) /\ Before(p, Len(key))
    /\ \A m \in DOMAIN next : Linked(m, l) /\ Before(m, Len(key)) => ~Before(p, m)

WriterType == [pc : {"idle", "find", "height", "link"}, node : Nat, x : Nat, level : Nat,
               height : Nat, prev : [Levels -> Int]]
WriterInv ==
    /\ writer \in WriterType
    /\ writer.pc # "idle" => writer.node = Len(key) /\ Len(key) > 0
    /\ writer.pc = "find" =>
          /\ writer.level \in Levels /\ writer.level < GetMaxHeight
          /\ Linked(writer.x, writer.level) /\ Before(writer.x, Len(key))
          /\ \A l \in writer.level + 1..GetMaxHeight - 1 : LastBefore(writer.prev[l], l)
    /\ writer.pc = "height" =>
          /\ writer.level = 0
          /\ \A l \in 0..GetMaxHeight - 1 : LastBefore(writer.prev[l], l)
    /\ writer.pc = "link" =>
          /\ writer.height \in 1..GetMaxHeight /\ writer.level < writer.height
          /\ \A l \in writer.level..writer.height - 1 : LastBefore(writer.prev[l], l)
          /\ \A l \in Levels : Linked(Len(key), l) <=> l < writer.level

-----------------------------------------------------------------------------
Ops == {"none", "get", "seek", "last", "prev", "first", "next"}
Positions == {NULL} \cup 1..Len(key)

ReaderType ==
    [op : Ops, running : BOOLEAN, held : BOOLEAN, target : Nat \X Nat,
     x : Nat, level : Levels, from : Positions, pos : Positions, snap : Nat]
ReaderTypes == rd \in [Readers -> ReaderType]

(* Where a reader is, or was when its operation began.                     *)
Place(n) == n = NULL \/ Linked(n, 0)

Holders == {r \in Readers : rd[r].held}
RefInv ==
    /\ owned => refs = Cardinality(Holders) + 1
    /\ ~owned => refs = Cardinality(Holders)

(* What an arena is between two allocations: the rest of the current block *)
(* was given to nobody.                                                    *)
RegionType == [block : Nat, start : Nat, end : Nat]
ArenaType == [blocks : Seq(Nat), current : Nat, ptr : Nat, remaining : Nat,
              regions : SUBSET RegionType]
ArenaInv(a) ==
    /\ a \in ArenaType
    /\ a.current = 0 => a.remaining = 0
    /\ a.current # 0 => a.current \in DOMAIN a.blocks /\ a.ptr + a.remaining = a.blocks[a.current]
    /\ \A g \in a.regions :
          /\ g.block \in DOMAIN a.blocks /\ g.end <= a.blocks[g.block]
          /\ g.start < g.end
          /\ g.block = a.current => g.end <= a.ptr
    /\ \A g, h \in a.regions : g # h /\ g.block = h.block => g.end <= h.start \/ h.end <= g.start

-----------------------------------------------------------------------------
(* Keys in order.                                                          *)

(* The internal key of an entry is a pair of numbers.                      *)
LEMMA NodeKeyType ==
    ASSUME key \in Seq(Keys), NEW n \in 1..Len(key)
    PROVE  NodeKey(n) \in Nat \X Nat /\ NodeKey(n)[1] = key[n] /\ NodeKey(n)[2] = n /\ key[n] \in Keys
<1>1. key[n] \in Keys /\ n \in Nat
  OBVIOUS
<1>2. key[n] \in Nat
  BY <1>1, MemTableAssumption
<1> QED BY <1>1, <1>2 DEF NodeKey

(* InternalKeyComparator orders internal keys strictly and totally.        *)
LEMMA KeyLessOrder ==
    /\ \A a, b, c \in Nat \X Nat : KeyLess(a, b) /\ KeyLess(b, c) => KeyLess(a, c)
    /\ \A a \in Nat \X Nat : ~KeyLess(a, a)
    /\ \A a, b \in Nat \X Nat : a = b \/ KeyLess(a, b) \/ KeyLess(b, a)
BY DEF KeyLess

(* No two entries have the same internal key: of two nodes one is first,   *)
(* head_ being before all.                                                 *)
LEMMA BeforeOrder ==
    ASSUME key \in Seq(Keys)
    PROVE  /\ \A a, b, c \in 0..Len(key) : Before(a, b) /\ Before(b, c) => Before(a, c)
           /\ \A a \in 0..Len(key) : ~Before(a, a)
           /\ \A a, b \in 0..Len(key) : a = b \/ Before(a, b) \/ Before(b, a)
<1>0. Len(key) \in Nat
  OBVIOUS
<1>1. \A n \in 1..Len(key) : NodeKey(n) \in Nat \X Nat /\ NodeKey(n)[2] = n
  BY NodeKeyType
<1>2. \A a, b \in 1..Len(key) : NodeKey(a) = NodeKey(b) => a = b
  BY <1>1
<1>3. \A a \in 0..Len(key) : a = head_ \/ a \in 1..Len(key)
  BY <1>0 DEF head_
<1>4. head_ \notin 1..Len(key)
  BY <1>0 DEF head_
<1>5. ASSUME NEW a \in 0..Len(key), NEW b \in 0..Len(key), NEW c \in 0..Len(key),
             Before(a, b), Before(b, c)
      PROVE  Before(a, c)
  BY <1>1, <1>3, <1>4, <1>5, KeyLessOrder DEF Before
<1>6. ASSUME NEW a \in 0..Len(key), Before(a, a) PROVE FALSE
  BY <1>1, <1>3, <1>6, KeyLessOrder DEF Before
<1>7. ASSUME NEW a \in 0..Len(key), NEW b \in 0..Len(key)
      PROVE  a = b \/ Before(a, b) \/ Before(b, a)
  BY <1>1, <1>2, <1>3, KeyLessOrder DEF Before
<1> QED BY <1>5, <1>6, <1>7

(* The highest of the heights max_height_ had is one of them.              *)
LEMMA MaxFacts ==
    ASSUME NEW S, S \subseteq 1..kMaxHeight, \E h \in S : \A g \in S : h >= g
    PROVE  Max(S) \in S /\ Max(S) \in 1..kMaxHeight /\ \A h \in S : h \in 1..Max(S)
<1>1. Max(S) \in S /\ \A h \in S : Max(S) >= h
  BY DEF Max
<1>0. kMaxHeight \in Nat
  BY MemTableAssumption
<1>2. ASSUME NEW h \in S PROVE h \in Nat /\ h >= 1
  <2>1. h \in 1..kMaxHeight
    OBVIOUS
  <2> QED BY <2>1, <1>0
<1>3. Max(S) \in 1..kMaxHeight
  BY <1>1
<1>4. ASSUME NEW h \in S PROVE h \in 1..Max(S)
  <2>1. h \in Nat /\ h >= 1 /\ Max(S) \in Nat /\ Max(S) >= h
    BY <1>1, <1>2
  <2> QED BY <2>1
<1> QED BY <1>1, <1>3, <1>4

-----------------------------------------------------------------------------
(* The lists under the writer's steps.                                     *)

(* The nodes that exist.                                                   *)
LEMMA DomainFacts ==
    ASSUME ListTypes, WriterInv
    PROVE  /\ Len(key) \in Nat /\ Allocated \in Nat /\ Inserted \in Nat
           /\ Allocated <= Len(key) /\ Inserted <= Allocated
           /\ DOMAIN next = 0..Allocated
           /\ \A n \in DOMAIN next : n \in 0..Len(key)
           /\ \A n \in DOMAIN next, l \in Levels : next[n][l] \in {NULL, Uninit} \cup 1..Len(key)
           /\ \A l \in Levels : 0 \in Levels /\ l \in Nat /\ \A i \in 0..l : i \in Levels
<1>1. Len(key) \in Nat /\ DOMAIN next = 0..Allocated
  BY DEF ListTypes
<1>2. Allocated \in Nat /\ Inserted \in Nat /\ Allocated <= Len(key) /\ Inserted <= Allocated
  BY <1>1 DEF WriterInv, Allocated, Inserted
<1>3. \A n \in DOMAIN next, l \in Levels : next[n][l] \in {NULL, Uninit} \cup 1..Len(key)
  BY <1>1 DEF ListTypes
<1>4. \A l \in Levels : 0 \in Levels /\ l \in Nat /\ \A i \in 0..l : i \in Levels
  BY MemTableAssumption DEF Levels
<1> QED BY <1>1, <1>2, <1>3, <1>4

(* A step that adds at most an entry or a node that nothing points to      *)
(* leaves the lists as they are.                                           *)
LEMMA ListsStay ==
    ASSUME ListTypes, WriterInv, ListInv,
           key' = key \/ \E k \in Keys : key' = Append(key, k),
           DOMAIN next \subseteq DOMAIN next',
           \A n \in DOMAIN next : next'[n] = next[n],
           \A n \in DOMAIN next' : n \in DOMAIN next \/ \A l \in Levels : next'[n][l] = Uninit
    PROVE  /\ \A a, b \in 0..Len(key) : Before(a, b)' <=> Before(a, b)
           /\ \A n, l : l \in Levels => (Linked(n, l)' <=> Linked(n, l))
           /\ \A n \in DOMAIN next', l \in Levels : Linked(n, l)' => Chained(n, l)'
<1>1. \A a, b \in 0..Len(key) : Before(a, b)' <=> Before(a, b)
  <2>1. \A n \in 1..Len(key) : key'[n] = key[n]
    BY DEF ListTypes
  <2>2. \A n \in 1..Len(key) : NodeKey(n)' = NodeKey(n)
    BY <2>1 DEF NodeKey
  <2>3. \A n \in 0..Len(key) : n = head_ \/ n \in 1..Len(key)
    BY DEF head_, ListTypes
  <2> QED BY <2>2, <2>3 DEF Before
<1>2. \A n, l : l \in Levels => (Linked(n, l)' <=> Linked(n, l))
  BY DEF Linked
<1>3. ASSUME NEW n \in DOMAIN next', NEW l \in Levels, Linked(n, l)' PROVE Chained(n, l)'
  <2>1. Linked(n, l) /\ n \in DOMAIN next
    BY <1>2, <1>3 DEF Linked
  <2>2. Chained(n, l)
    BY <2>1 DEF ListInv
  <2>3. PICK p : p = next[n][l] /\ p = next'[n][l]
    BY <2>1
  <2>4. p # NULL => p \in 0..Len(key)
    BY <2>1, <2>3, DomainFacts DEF Linked
  <2>5. p # NULL => Linked(p, l)' /\ Before(n, p)'
    BY <2>1, <2>2, <2>3, <2>4, <1>1, <1>2, DomainFacts DEF Chained
  <2>6. ASSUME NEW m \in DOMAIN next', Linked(m, l)', Before(n, m)'
        PROVE  p # NULL /\ ~Before(m, p)'
    <3>1. Linked(m, l) /\ m \in DOMAIN next
      BY <1>2, <2>6 DEF Linked
    <3>2. Before(n, m)
      BY <3>1, <2>1, <2>6, <1>1, DomainFacts
    <3>3. p # NULL /\ ~Before(m, p)
      BY <3>1, <3>2, <2>2, <2>3 DEF Chained
    <3> QED BY <3>1, <3>3, <2>4, <1>1, DomainFacts
  <2> QED BY <2>3, <2>5, <2>6 DEF Chained
<1> QED BY <1>1, <1>2, <1>3

(* max_height_ and the levels below it.                                    *)
LEMMA HeightFacts ==
    ASSUME ListTypes
    PROVE  /\ kMaxHeight \in Nat /\ GetMaxHeight \in heights
           /\ GetMaxHeight \in Nat /\ GetMaxHeight >= 1 /\ GetMaxHeight <= kMaxHeight
           /\ \A l \in 0..GetMaxHeight - 1 : l \in Levels
<1>1. kMaxHeight \in Nat
  BY MemTableAssumption
<1>2. GetMaxHeight \in heights /\ GetMaxHeight \in 1..kMaxHeight
  BY MaxFacts DEF ListTypes, GetMaxHeight
<1> QED BY <1>1, <1>2 DEF Levels

(* MemTable::Add starts a search that has read no pointer yet.             *)
LEMMA AddStep ==
    ASSUME ListTypes, WriterInv, ListInv, NEW k \in Keys, Add(k)
    PROVE  ListTypes' /\ WriterInv' /\ ListInv'
<1> USE DEF Add
<1>1. Len(key) \in Nat /\ Len(key') = Len(key) + 1 /\ key' \in Seq(Keys) /\ writer'.pc = "find"
  BY DEF ListTypes, IdleWriter
<1>2. Allocated' = Allocated /\ Inserted' = Inserted /\ GetMaxHeight' = GetMaxHeight
      /\ Allocated = Len(key) /\ Inserted = Len(key)
  BY <1>1 DEF Allocated, Inserted, GetMaxHeight
<1>3. ListTypes'
  <2>1. next' \in [0..Allocated' -> [Levels -> {NULL, Uninit} \cup 1..Len(key')]]
    BY <1>1, <1>2 DEF ListTypes
  <2> QED BY <1>1, <2>1 DEF ListTypes
<1>4. /\ \A n, l : l \in Levels => (Linked(n, l)' <=> Linked(n, l))
      /\ \A n \in DOMAIN next', l \in Levels : Linked(n, l)' => Chained(n, l)'
  BY ListsStay
<1>5. ListInv'
  <2>1. 0 \in Levels /\ \A l \in Levels : \A i \in 0..l : i \in Levels
    BY DomainFacts, MemTableAssumption DEF Levels
  <2> QED BY <1>2, <1>4, <2>1 DEF ListInv
<1>6. WriterInv'
  <2>1. writer' = [pc |-> "find", node |-> Len(key'), x |-> head_, level |-> GetMaxHeight - 1,
                   height |-> 0, prev |-> [l \in Levels |-> Uninit]]
    BY <1>1 DEF IdleWriter
  <2>2. GetMaxHeight - 1 \in Levels /\ GetMaxHeight \in Nat /\ GetMaxHeight >= 1
    BY HeightFacts DEF Levels
  <2>3. Linked(writer.x, writer.level)' /\ Before(writer.x, Len(key))'
    <3>1. Linked(head_, GetMaxHeight - 1)
      BY <2>2 DEF ListInv
    <3> QED BY <1>1, <2>1, <3>1, <1>2 DEF Before, head_, Linked
  <2>4. writer'.level + 1..GetMaxHeight' - 1 = {}
    BY <2>1, <2>2, <1>2
  <2>5. writer' \in WriterType
    BY <1>1, <2>1, <2>2 DEF WriterType, head_, Uninit
  <2> QED BY <1>1, <1>2, <2>1, <2>2, <2>3, <2>4, <2>5 DEF WriterInv
<1> QED BY <1>3, <1>5, <1>6

(* One round of the writer's search.                                       *)
LEMMA FindStep ==
    ASSUME ListTypes, WriterInv, ListInv, FindGreaterOrEqual
    PROVE  ListTypes' /\ WriterInv' /\ ListInv'
<1> USE DEF WriterType
<1> DEFINE n == next[writer.x][writer.level]
<1>0. /\ UNCHANGED <<key, next, heights, published>> /\ writer.pc = "find"
      /\ writer' = IF KeyIsAfterNode(NodeKey(writer.node), n) THEN [writer EXCEPT !.x = n]
                   ELSE [writer EXCEPT !.prev[writer.level] = writer.x,
                                 !.pc    = IF writer.level = 0 THEN "height" ELSE "find",
                                 !.level = IF writer.level = 0 THEN 0 ELSE writer.level - 1]
  BY DEF FindGreaterOrEqual
<1>1. /\ writer.level \in Levels /\ writer.level < GetMaxHeight
      /\ Linked(writer.x, writer.level) /\ Before(writer.x, Len(key))
      /\ \A l \in writer.level + 1..GetMaxHeight - 1 : LastBefore(writer.prev[l], l)
      /\ writer.node = Len(key) /\ Len(key) > 0
      /\ writer \in WriterType
  BY <1>0 DEF WriterInv
<1>2. writer'.pc \in {"find", "height"}
  BY <1>0, <1>1
<1>3. GetMaxHeight' = GetMaxHeight /\ (\A p, l : LastBefore(p, l)' <=> LastBefore(p, l))
      /\ (\A p, l : Linked(p, l)' <=> Linked(p, l)) /\ (\A p : Before(p, Len(key))' <=> Before(p, Len(key)))
  BY <1>0 DEF GetMaxHeight, LastBefore, Linked, Before, NodeKey
<1>4. ListTypes'
  BY <1>0, <1>2 DEF ListTypes, Allocated
<1>5. ListInv'
  BY <1>0, <1>2 DEF ListInv, Inserted, Linked, Chained, Before, NodeKey, GetMaxHeight
<1>6. Chained(writer.x, writer.level) /\ writer.x \in DOMAIN next
  BY <1>1 DEF ListInv, Linked
<1>7. WriterInv'
  <2> HIDE DEF n
  <2>1. CASE KeyIsAfterNode(NodeKey(writer.node), n)
    <3>1. n # NULL /\ Linked(n, writer.level) /\ n # head_ /\ n \in DOMAIN next
      BY <1>6, <2>1 DEF Chained, KeyIsAfterNode, n, Before, Linked
    <3>2. Before(n, Len(key)) /\ n \in Nat
      BY <1>1, <2>1, <3>1, DomainFacts DEF KeyIsAfterNode, Before, head_
    <3>3. writer' = [writer EXCEPT !.x = n]
      BY <1>0, <2>1 DEF n
    <3>4. writer'.x = n /\ writer'.level = writer.level /\ writer'.prev = writer.prev
          /\ writer'.pc = "find" /\ writer'.node = writer.node
      BY <3>3, <1>0, <1>1
    <3>5. writer' \in WriterType
      BY <3>2, <3>3, <1>1
    <3> QED BY <1>0, <1>1, <1>3, <3>1, <3>2, <3>4, <3>5 DEF WriterInv
  <2>2. CASE ~KeyIsAfterNode(NodeKey(writer.node), n)
    <3>1. LastBefore(writer.x, writer.level)
      <4>1. ASSUME NEW m \in DOMAIN next, Linked(m, writer.level), Before(m, Len(key)),
                   Before(writer.x, m)
            PROVE  FALSE
        <5>1. n # NULL /\ ~Before(m, n) /\ Linked(n, writer.level) /\ n # head_
          BY <1>6, <4>1 DEF Chained, n, Before
        <5>2. ~Before(n, Len(key))
          BY <1>1, <2>2, <5>1 DEF Before, KeyIsAfterNode
        <5>3. m \in 0..Len(key) /\ n \in 0..Len(key) /\ Len(key) \in 0..Len(key)
          BY <5>1, DomainFacts DEF Linked
        <5> QED BY <4>1, <5>1, <5>2, <5>3, BeforeOrder DEF ListTypes
      <4> QED BY <4>1, <1>1 DEF LastBefore
    <3>2. writer' = [writer EXCEPT !.prev[writer.level] = writer.x,
                                 !.pc    = IF writer.level = 0 THEN "height" ELSE "find",
                                 !.level = IF writer.level = 0 THEN 0 ELSE writer.level - 1]
      BY <1>0, <2>2 DEF n
    <3>3. /\ writer'.x = writer.x /\ writer'.node = writer.node
          /\ writer'.prev = [writer.prev EXCEPT ![writer.level] = writer.x]
          /\ writer'.pc = (IF writer.level = 0 THEN "height" ELSE "find")
          /\ writer'.level = (IF writer.level = 0 THEN 0 ELSE writer.level - 1)
          /\ writer'.height = writer.height
      BY <3>2, <1>1
    <3>4. writer' \in WriterType
      <4>1. [writer.prev EXCEPT ![writer.level] = writer.x] \in [Levels -> Int]
        BY <1>1 DEF WriterType
      <4>2. (IF writer.level = 0 THEN 0 ELSE writer.level - 1) \in Nat
            /\ (IF writer.level = 0 THEN "height" ELSE "find") \in {"find", "height"}
        BY <1>1
      <4> HIDE DEF WriterType
      <4>3. writer \in WriterType => writer' =
              [pc |-> IF writer.level = 0 THEN "height" ELSE "find", node |-> writer.node,
               x |-> writer.x, level |-> IF writer.level = 0 THEN 0 ELSE writer.level - 1,
               height |-> writer.height, prev |-> [writer.prev EXCEPT ![writer.level] = writer.x]]
        BY <3>2 DEF WriterType
      <4> QED BY <4>1, <4>2, <4>3, <1>1 DEF WriterType
    <3>5. ASSUME NEW l \in writer.level..GetMaxHeight - 1 PROVE LastBefore(writer'.prev[l], l)
      <4>1. l \in Levels /\ (l = writer.level \/ l \in writer.level + 1..GetMaxHeight - 1)
        BY <1>1, HeightFacts DEF Levels
      <4>2. writer'.prev[l] = IF l = writer.level THEN writer.x ELSE writer.prev[l]
        BY <4>1, <3>3, <1>1 DEF WriterType
      <4> QED BY <4>1, <4>2, <3>1, <1>1
    <3>6. CASE writer.level = 0
      BY <1>0, <1>1, <1>3, <3>3, <3>4, <3>5, <3>6 DEF WriterInv
    <3>7. CASE writer.level > 0
      <4>1. writer'.level \in Levels /\ writer'.level < GetMaxHeight /\ writer'.level + 1 = writer.level
            /\ writer'.pc = "find"
        BY <3>3, <3>7, <1>1, HeightFacts DEF Levels
      <4>2. Linked(writer'.x, writer'.level)
        BY <4>1, <3>3, <3>7, <1>1, <1>6 DEF ListInv
      <4> QED BY <1>0, <1>1, <1>3, <3>3, <3>4, <3>5, <4>1, <4>2 DEF WriterInv
    <3> QED BY <3>6, <3>7, <1>1
  <2> QED BY <2>1, <2>2
<1> QED BY <1>4, <1>5, <1>7

(* A new height: on the levels that were empty head_ is the last node      *)
(* before the new one.                                                     *)
LEMMA RaiseStep ==
    ASSUME ListTypes, WriterInv, ListInv, NEW height \in 1..kMaxHeight, RaiseHeight(height)
    PROVE  ListTypes' /\ WriterInv' /\ ListInv'
<1> USE DEF WriterType
<1>0. /\ UNCHANGED <<key, published>> /\ writer.pc = "height"
      /\ heights' = (IF height > GetMaxHeight THEN heights \cup {height} ELSE heights)
      /\ writer' = [writer EXCEPT !.pc = "link", !.height = height,
                                  !.prev = [l \in Levels |-> IF l \in GetMaxHeight..height - 1
                                                             THEN head_ ELSE writer.prev[l]]]
      /\ next' = [n \in DOMAIN next \cup {writer.node} |->
                    IF n = writer.node THEN [l \in Levels |-> Uninit] ELSE next[n]]
  BY DEF RaiseHeight
<1>1. /\ writer.level = 0 /\ writer.node = Len(key) /\ Len(key) > 0
      /\ \A l \in 0..GetMaxHeight - 1 : LastBefore(writer.prev[l], l)
      /\ writer \in WriterType
  BY <1>0 DEF WriterInv
<1>2. writer'.pc = "link" /\ writer'.height = height /\ writer'.level = 0 /\ writer'.node = Len(key)
      /\ writer'.prev = [l \in Levels |-> IF l \in GetMaxHeight..height - 1
                                          THEN head_ ELSE writer.prev[l]]
  BY <1>0, <1>1
<1>3. Len(key) \in Nat /\ Allocated = Len(key) - 1 /\ Allocated' = Len(key)
      /\ Inserted' = Inserted /\ DOMAIN next = 0..Len(key) - 1 /\ Len(key) \notin DOMAIN next
  BY <1>0, <1>2 DEF Allocated, Inserted, ListTypes
<1>4. DOMAIN next' = 0..Len(key)
  BY <1>0, <1>1, <1>3
<1>5. kMaxHeight \in Nat /\ GetMaxHeight \in Nat /\ GetMaxHeight \in heights /\ GetMaxHeight >= 1
      /\ GetMaxHeight <= kMaxHeight
  BY HeightFacts
<1>6. ListTypes'
  <2>1. next' \in [0..Len(key) -> [Levels -> {NULL, Uninit} \cup 1..Len(key)]]
    BY <1>0, <1>3, <1>4 DEF ListTypes
  <2>2. heights' \subseteq 1..kMaxHeight
    BY <1>0 DEF ListTypes
  <2>3. \E h \in heights' : \A g \in heights' : h >= g
    <3>1. \A g \in heights : g \in 1..GetMaxHeight
      BY MaxFacts DEF ListTypes, GetMaxHeight
    <3>2. CASE height > GetMaxHeight
      <4>1. heights' = heights \cup {height} /\ height \in Nat
        BY <3>2, <1>0, <1>5
      <4>2. \A g \in heights' : height >= g
        BY <4>1, <3>1, <3>2, <1>5
      <4> QED BY <4>1, <4>2
    <3>3. CASE ~(height > GetMaxHeight)
      BY <3>3, <1>0 DEF ListTypes
    <3> QED BY <3>2, <3>3
  <2> QED BY <2>1, <2>2, <2>3, <1>0, <1>3 DEF ListTypes
<1>7. /\ \A n, l : l \in Levels => (Linked(n, l)' <=> Linked(n, l))
      /\ \A n \in DOMAIN next', l \in Levels : Linked(n, l)' => Chained(n, l)'
      /\ \A a, b \in 0..Len(key) : Before(a, b)' <=> Before(a, b)
  <2>1. DOMAIN next \subseteq DOMAIN next' /\ \A n \in DOMAIN next : next'[n] = next[n]
    BY <1>0, <1>1, <1>3
  <2>2. \A n \in DOMAIN next' : n \in DOMAIN next \/ \A l \in Levels : next'[n][l] = Uninit
    BY <1>0
  <2> QED BY <2>1, <2>2, <1>0, ListsStay
<1>8. GetMaxHeight' \in Nat /\ GetMaxHeight' >= GetMaxHeight /\ GetMaxHeight' >= height
      /\ GetMaxHeight' <= kMaxHeight
  <2>1. \A h \in heights' : h \in 1..GetMaxHeight'
    BY <1>6, MaxFacts DEF ListTypes, GetMaxHeight
  <2>2. GetMaxHeight \in heights' /\ (height > GetMaxHeight => height \in heights')
    BY <1>0, <1>5
  <2>3. GetMaxHeight' \in 1..kMaxHeight
    BY <1>6, MaxFacts DEF ListTypes, GetMaxHeight
  <2> QED BY <2>1, <2>2, <2>3, <1>5
<1>9. ListInv'
  <2>1. 0 \in Levels /\ \A l \in Levels : l \in Nat /\ \A i \in 0..l : i \in Levels
    BY DomainFacts, MemTableAssumption DEF Levels
  <2>2. ASSUME NEW n \in DOMAIN next', NEW l \in Levels, Linked(n, l)'
        PROVE  (\A i \in 0..l : Linked(n, i)') /\ (n # head_ => l < GetMaxHeight')
    <3>1. n \in DOMAIN next /\ Linked(n, l)
      BY <2>2, <1>7 DEF Linked
    <3>2. (\A i \in 0..l : Linked(n, i)) /\ (n # head_ => l < GetMaxHeight)
      BY <3>1 DEF ListInv
    <3> QED BY <3>2, <2>1, <1>5, <1>7, <1>8
  <2>3. (\A l \in Levels : Linked(head_, l)') /\ (\A n \in 1..Inserted : Linked(n, 0)')
    BY <1>7, <2>1 DEF ListInv
  <2> QED BY <2>2, <2>3, <1>0, <1>3, <1>7 DEF ListInv
<1>10. WriterInv'
  <2>1. ASSUME NEW l \in 0..height - 1 PROVE LastBefore(writer.prev[l], l)'
    <3>0. l \in Levels /\ l \in Nat
      BY <1>5 DEF Levels
    <3>1. PICK p : p = writer'.prev[l]
      OBVIOUS
    <3>2. LastBefore(p, l)
      <4>1. CASE l < GetMaxHeight
        BY <4>1, <3>0, <3>1, <1>1, <1>2, <1>5
      <4>2. CASE ~(l < GetMaxHeight)
        <5>1. p = head_
          BY <4>2, <3>0, <3>1, <1>2, <1>5
        <5>2. Linked(head_, l) /\ \A m \in DOMAIN next : Linked(m, l) => m = head_
          BY <4>2, <3>0 DEF ListInv
        <5>3. Before(head_, Len(key)) /\ ~Before(head_, head_)
          BY <1>1 DEF Before, head_
        <5> QED BY <5>1, <5>2, <5>3 DEF LastBefore
      <4> QED BY <4>1, <4>2
    <3>3. p \in DOMAIN next /\ p \in 0..Len(key) /\ Len(key) \in 0..Len(key)
      BY <3>2, <1>1, <1>3 DEF LastBefore, Linked
    <3>4. ASSUME NEW m \in DOMAIN next', Linked(m, l)', Before(m, Len(key))'
          PROVE  ~Before(p, m)'
      <4>1. m \in DOMAIN next /\ Linked(m, l) /\ m \in 0..Len(key)
        BY <3>0, <3>4, <1>7, <1>4 DEF Linked
      <4>2. Before(m, Len(key))
        BY <4>1, <3>3, <3>4, <1>0, <1>7 DEF Before, NodeKey
      <4> QED BY <4>1, <4>2, <3>2, <3>3, <1>7 DEF LastBefore
    <3>5. Linked(p, l)' /\ Before(p, Len(key))'
      BY <3>0, <3>2, <1>7, <1>0 DEF LastBefore, Before, NodeKey
    <3> QED BY <3>1, <3>4, <3>5 DEF LastBefore
  <2>2. \A l \in Levels : ~Linked(Len(key), l)'
    BY <1>3, <1>7, <1>0 DEF Linked
  <2>3. writer' \in WriterType
    <3>1. [l \in Levels |-> IF l \in GetMaxHeight..height - 1 THEN head_ ELSE writer.prev[l]]
            \in [Levels -> Int]
      BY <1>1 DEF head_
    <3>2. height \in Nat
      BY <1>5
    <3> QED BY <1>0, <1>1, <3>1, <3>2
  <2>4. \A l \in Levels : l \in Nat
    BY <1>5 DEF Levels
  <2>5. writer'.height \in 1..GetMaxHeight' /\ writer'.level < writer'.height
    BY <1>2, <1>5, <1>8
  <2>6. (\A l \in writer.level..writer.height - 1 : LastBefore(writer.prev[l], l))'
    BY <2>1, <1>2
  <2>7. \A l \in Levels : Linked(Len(key), l)' <=> l < writer'.level
    BY <2>2, <2>4, <1>2
  <2> QED BY <1>0, <1>1, <1>2, <2>3, <2>5, <2>6, <2>7 DEF WriterInv
<1> QED BY <1>6, <1>9, <1>10

(* Linking the new node on one level.                                      *)
LEMMA LinkStep ==
    ASSUME ListTypes, WriterInv, ListInv, Link
    PROVE  /\ ListTypes' /\ WriterInv' /\ ListInv'
           /\ \A n, l : l \in Levels /\ Linked(n, l) => Linked(n, l)'
<1> USE DEF WriterType
<1>0. PICK i, p, q, w : i = writer.level /\ p = writer.prev[i] /\ q = next[p][i] /\ w = Len(key)
  OBVIOUS
<1>1. /\ UNCHANGED <<key, heights, published>> /\ writer.pc = "link"
      /\ writer.node = w /\ Len(key) > 0
      /\ writer' = IF i + 1 = writer.height THEN IdleWriter ELSE [writer EXCEPT !.level = i + 1]
      /\ next' = [next EXCEPT ![w][i] = q, ![p][i] = w]
  BY <1>0 DEF Link, WriterInv
<1>2. /\ writer.height \in 1..GetMaxHeight /\ writer.level < writer.height
      /\ \A l \in i..writer.height - 1 : LastBefore(writer.prev[l], l)
      /\ \A l \in Levels : Linked(w, l) <=> l < i
      /\ writer \in WriterType
  BY <1>0, <1>1 DEF WriterInv
<1>3. kMaxHeight \in Nat /\ GetMaxHeight \in Nat /\ GetMaxHeight <= kMaxHeight /\ GetMaxHeight' = GetMaxHeight
  BY <1>1, HeightFacts DEF GetMaxHeight
<1>4. i \in Nat /\ i \in Levels /\ i \in 0..writer.height - 1 /\ i < GetMaxHeight
  BY <1>0, <1>2, <1>3 DEF Levels
<1>5. Len(key) \in Nat /\ w \in 1..Len(key) /\ Allocated = w /\ DOMAIN next = 0..w
  BY <1>0, <1>1 DEF ListTypes, Allocated
<1>6. LastBefore(p, i) /\ p \in 0..w /\ p # w /\ Before(p, w)
  <2>1. LastBefore(p, i)
    BY <1>0, <1>2, <1>4
  <2>2. p \in 0..w /\ w \in 0..w /\ Before(p, w)
    BY <2>1, <1>0, <1>5 DEF LastBefore, Linked
  <2> QED BY <2>1, <2>2, <1>0, BeforeOrder DEF ListTypes
<1>7. q # Uninit /\ q \in {NULL} \cup 1..w /\ Chained(p, i) /\ Linked(p, i)
  <2>1. Linked(p, i) /\ p \in DOMAIN next
    BY <1>5, <1>6 DEF LastBefore
  <2> QED BY <2>1, <1>0, <1>4, DomainFacts DEF ListInv, Linked
<1>8. /\ DOMAIN next' = 0..w
      /\ \A n \in 0..w : DOMAIN next'[n] = Levels
      /\ \A n \in 0..w, l \in Levels :
            next'[n][l] = IF n = w /\ l = i THEN q ELSE IF n = p /\ l = i THEN w ELSE next[n][l]
  BY <1>1, <1>4, <1>5, <1>6 DEF ListTypes
<1>9. next' \in [0..w -> [Levels -> {NULL, Uninit} \cup 1..w]]
  BY <1>0, <1>1, <1>4, <1>5, <1>6, <1>7 DEF ListTypes
<1>10. \A n, l : l \in Levels => (Linked(n, l)' <=> Linked(n, l) \/ (n = w /\ l = i))
  <2>1. w # Uninit
    BY <1>5 DEF Uninit
  <2> QED BY <2>1, <1>5, <1>7, <1>8 DEF Linked
<1>11. \A a, b : Before(a, b)' <=> Before(a, b)
  BY <1>1 DEF Before, NodeKey
<1>12. writer'.pc \in {"idle", "link"} /\ (writer'.pc = "idle" <=> i + 1 = writer.height)
  BY <1>1, <1>2 DEF IdleWriter
<1>13. ListTypes'
  <2>1. Allocated' = w
    BY <1>0, <1>1, <1>12 DEF Allocated
  <2> QED BY <2>1, <1>0, <1>1, <1>9 DEF ListTypes
<1>14. ASSUME NEW n \in DOMAIN next', NEW l \in Levels, Linked(n, l)' PROVE Chained(n, l)'
  <2>0. n \in 0..w /\ w \in 0..w
    BY <1>5, <1>8
  <2>o. /\ \A a, b, c \in 0..w : Before(a, b) /\ Before(b, c) => Before(a, c)
        /\ \A a \in 0..w : ~Before(a, a)
        /\ \A a, b \in 0..w : a = b \/ Before(a, b) \/ Before(b, a)
    BY <1>0, BeforeOrder DEF ListTypes
  <2>1. PICK z : z = next'[n][l]
    OBVIOUS
  <2>2. SUFFICES /\ z # NULL => Linked(z, l)' /\ Before(n, z)
                 /\ \A m \in 0..w : Linked(m, l)' /\ Before(n, m) => z # NULL /\ ~Before(m, z)
    BY <2>1, <1>8, <1>11 DEF Chained
  <2>3. CASE l # i
    <3>1. Linked(n, l) /\ z = next[n][l] /\ n \in DOMAIN next
      BY <2>0, <2>1, <2>3, <1>5, <1>8, <1>10, <1>14
    <3>2. Chained(n, l)
      BY <3>1 DEF ListInv
    <3> QED BY <3>1, <3>2, <2>3, <1>5, <1>10 DEF Chained
  <2>4. CASE l = i /\ n = w
    <3>1. z = q
      BY <2>0, <2>1, <2>4, <1>8
    <3>2. q # NULL => Linked(q, i) /\ Before(p, q) /\ q \in 0..w
      BY <1>0, <1>5, <1>7 DEF Chained, Linked
    <3>3. q # NULL => q # w /\ ~Before(q, w)
      BY <3>2, <1>0, <1>2, <1>4, <1>5, <1>6 DEF LastBefore
    <3>4. q # NULL => Before(w, q)
      BY <3>2, <3>3, <2>0, <2>o
    <3>5. ASSUME NEW m \in 0..w, Linked(m, l)', Before(n, m) PROVE q # NULL /\ ~Before(m, q)
      <4>1. m # w /\ Linked(m, i)
        BY <3>5, <2>0, <2>4, <2>o, <1>10
      <4>2. Before(p, m)
        BY <3>5, <2>0, <2>4, <2>o, <1>6
      <4> QED BY <4>1, <4>2, <1>0, <1>5, <1>7 DEF Chained
    <3> QED BY <3>1, <3>2, <3>4, <3>5, <2>4, <1>10
  <2>5. CASE l = i /\ n = p
    <3>1. z = w /\ w # NULL
      BY <2>0, <2>1, <2>5, <1>5, <1>6, <1>8 DEF NULL
    <3>2. ASSUME NEW m \in 0..w, Linked(m, l)', Before(n, m) PROVE ~Before(m, w)
      <4>1. CASE m = w
        BY <4>1, <2>0, <2>o
      <4>2. CASE m # w
        BY <4>2, <3>2, <2>5, <1>0, <1>5, <1>6, <1>10 DEF LastBefore
      <4> QED BY <4>1, <4>2
    <3> QED BY <3>1, <3>2, <2>5, <1>6, <1>10
  <2>6. CASE l = i /\ n # w /\ n # p
    <3>1. Linked(n, i) /\ z = next[n][i] /\ n \in DOMAIN next
      BY <2>0, <2>1, <2>6, <1>5, <1>8, <1>10, <1>14
    <3>2. Chained(n, i)
      BY <3>1, <1>4 DEF ListInv
    <3>3. z # NULL => Linked(z, i) /\ Before(n, z) /\ z \in 0..w
      BY <3>1, <3>2, <1>5 DEF Chained, Linked
    <3>4. ASSUME NEW m \in 0..w, Linked(m, l)', Before(n, m) PROVE z # NULL /\ ~Before(m, z)
      <4>1. CASE m # w
        BY <4>1, <3>1, <3>2, <3>4, <2>6, <1>5, <1>10 DEF Chained
      <4>2. CASE m = w
        <5>1. ~Before(p, n)
          BY <4>2, <3>1, <3>4, <1>0, <1>6 DEF LastBefore
        <5>2. Before(n, p)
          BY <5>1, <2>0, <2>6, <2>o, <1>6
        <5>3. z # NULL /\ ~Before(p, z)
          BY <5>2, <3>1, <3>2, <1>5, <1>6, <1>7 DEF Chained
        <5> QED BY <5>3, <4>2, <3>3, <2>0, <2>o, <1>6
      <4> QED BY <4>1, <4>2
    <3> QED BY <3>3, <3>4, <2>6, <1>10
  <2> QED BY <2>3, <2>4, <2>5, <2>6
<1>15. 0 \in Levels /\ \A l \in Levels : l \in Nat /\ \A j \in 0..l : j \in Levels
  BY <1>3, <1>4 DEF Levels
<1>16. ListInv'
  <2>1. \A l \in Levels : Linked(head_, l)'
    BY <1>10 DEF ListInv
  <2>2. Inserted = w - 1 /\ Inserted' = (IF i + 1 = writer.height THEN w ELSE w - 1)
    BY <1>0, <1>1, <1>12 DEF Inserted
  <2>3. i + 1 = writer.height => Linked(w, 0)'
    BY <1>2, <1>4, <1>10, <1>15
  <2>4. ASSUME NEW n \in 1..Inserted' PROVE Linked(n, 0)'
    <3>1. n \in 1..Inserted \/ (i + 1 = writer.height /\ n = w)
      BY <2>2, <1>5
    <3> QED BY <3>1, <2>3, <1>10, <1>15 DEF ListInv
  <2>5. published' <= Inserted'
    BY <2>2, <1>1, <1>5 DEF ListInv, ListTypes
  <2>6. ASSUME NEW n \in DOMAIN next', NEW l \in Levels, Linked(n, l)'
        PROVE  (\A j \in 0..l : Linked(n, j)') /\ (n # head_ => l < GetMaxHeight')
    <3>1. CASE Linked(n, l)
      <4>1. (\A j \in 0..l : Linked(n, j)) /\ (n # head_ => l < GetMaxHeight)
        BY <3>1, <1>5, <1>8 DEF ListInv
      <4> QED BY <4>1, <1>3, <1>10, <1>15
    <3>2. CASE n = w /\ l = i
      <4>1. \A j \in 0..l : j = i \/ Linked(w, j)
        BY <3>2, <1>2, <1>4, <1>15
      <4> QED BY <4>1, <3>2, <1>3, <1>4, <1>10, <1>15
    <3> QED BY <3>1, <3>2, <2>6, <1>10
  <2> QED BY <2>1, <2>4, <2>5, <2>6, <1>14 DEF ListInv
<1>17. WriterInv'
  <2>1. CASE i + 1 = writer.height
    <3>1. writer' = IdleWriter
      BY <2>1, <1>1
    <3> QED BY <3>1 DEF WriterInv, IdleWriter, head_, Uninit
  <2>2. CASE i + 1 # writer.height
    <3>1. writer' = [writer EXCEPT !.level = i + 1]
      BY <2>2, <1>1
    <3>2. writer' \in WriterType /\ writer'.pc = "link" /\ writer'.level = i + 1
          /\ writer'.height = writer.height /\ writer'.prev = writer.prev /\ writer'.node = w
      <4>1. i + 1 \in Nat /\ writer \in WriterType
        BY <1>2, <1>4
      <4> HIDE DEF WriterType
      <4>2. writer \in WriterType => writer' =
              [pc |-> writer.pc, node |-> writer.node, x |-> writer.x, level |-> i + 1,
               height |-> writer.height, prev |-> writer.prev]
        BY <3>1 DEF WriterType
      <4> QED BY <4>1, <4>2, <1>1 DEF WriterType
    <3>3. ASSUME NEW l \in i + 1..writer.height - 1 PROVE LastBefore(writer.prev[l], l)'
      <4>1. PICK o : o = writer.prev[l] /\ o = writer'.prev[l]
        BY <3>2
      <4>0. l \in i..writer.height - 1 /\ l # i /\ l \in Levels
        BY <1>2, <1>3, <1>4 DEF Levels
      <4>2. LastBefore(o, l) /\ l \in Levels /\ l # i
        BY <4>0, <4>1, <1>2
      <4>3. LastBefore(o, l)'
        BY <4>2, <1>1, <1>5, <1>8, <1>10, <1>11 DEF LastBefore
      <4> QED BY <4>1, <4>3
    <3>4. \A l \in Levels : Linked(Len(key), l)' <=> l < i + 1
      <4>1. \A l \in Levels : Linked(w, l)' <=> (l < i \/ l = i)
        BY <1>2, <1>10
      <4>2. \A l \in Levels : (l < i \/ l = i) <=> l < i + 1
        BY <1>4, <1>15
      <4> QED BY <4>1, <4>2, <1>0, <1>1 DEF Linked
    <3>5. writer'.height \in 1..GetMaxHeight' /\ writer'.level < writer'.height
      BY <3>2, <2>2, <1>2, <1>3, <1>4
    <3>6. (\A l \in writer.level..writer.height - 1 : LastBefore(writer.prev[l], l))'
      BY <3>2, <3>3
    <3>7. (\A l \in Levels : Linked(Len(key), l) <=> l < writer.level)'
      BY <3>2, <3>4
    <3> QED BY <3>2, <3>5, <3>6, <3>7, <1>0, <1>1 DEF WriterInv
  <2> QED BY <2>1, <2>2
<1>18. \A n, l : l \in Levels /\ Linked(n, l) => Linked(n, l)'
  BY <1>10
<1> QED BY <1>13, <1>16, <1>17, <1>18

(* What the writer's steps never do: change an entry, unlink a node or     *)
(* take back a sequence number.                                            *)
Grows ==
    /\ Len(key) <= Len(key') /\ \A n \in 1..Len(key) : key'[n] = key[n]
    /\ \A n \in DOMAIN next, l \in Levels : Linked(n, l) => Linked(n, l)'
    /\ published <= published'

(* The empty list.                                                         *)
LEMMA ListStart == ASSUME Init PROVE ListTypes /\ WriterInv /\ ListInv
<1> USE DEF Init
<1>1. kMaxHeight \in Nat /\ kMaxHeight >= 1 /\ Len(key) = 0 /\ key \in Seq(Keys)
  BY MemTableAssumption
<1>2. writer.pc = "idle" /\ writer \in WriterType /\ Allocated = 0 /\ Inserted = 0
  BY <1>1 DEF IdleWriter, WriterType, head_, Uninit, Allocated, Inserted
<1>3. ListTypes
  BY <1>1, <1>2 DEF ListTypes, head_, NULL
<1>4. ListInv
  <2>1. DOMAIN next = {head_} /\ \A l \in Levels : next[head_][l] = NULL /\ Linked(head_, l)
    BY DEF Linked, NULL, Uninit
  <2>2. 0 \in Levels /\ \A l \in Levels : \A i \in 0..l : i \in Levels
    BY <1>1 DEF Levels
  <2>3. \A n \in DOMAIN next, l \in Levels : Chained(n, l)
    BY <2>1 DEF Chained, Before
  <2>4. 1..Inserted = {} /\ published <= Inserted
    BY <1>2
  <2> QED BY <2>1, <2>2, <2>3, <2>4 DEF ListInv
<1> QED BY <1>2, <1>3, <1>4 DEF WriterInv

(* The lists are in order after every step, and only grow.                 *)
LEMMA ListNext ==
    ASSUME ListTypes, WriterInv, ListInv, [Next]_vars
    PROVE  ListTypes' /\ WriterInv' /\ ListInv' /\ Grows
<1>0. Len(key) \in Nat /\ published \in Nat
  BY DEF ListTypes
<1>1. CASE \E k \in Keys : Add(k)
  <2>1. PICK k \in Keys : Add(k)
    BY <1>1
  <2>2. Grows
    BY <2>1, <1>0 DEF Add, Grows, Linked, ListTypes
  <2> QED BY <2>1, <2>2, AddStep
<1>2. CASE FindGreaterOrEqual
  <2>1. Grows
    BY <1>2, <1>0 DEF FindGreaterOrEqual, Grows, Linked
  <2> QED BY <2>1, <1>2, FindStep
<1>3. CASE \E height \in 1..kMaxHeight : RaiseHeight(height)
  <2>1. PICK height \in 1..kMaxHeight : RaiseHeight(height)
    BY <1>3
  <2>2. writer.node \notin DOMAIN next
    BY <2>1 DEF RaiseHeight, WriterInv, ListTypes, Allocated
  <2>3. Grows
    BY <2>1, <2>2, <1>0 DEF RaiseHeight, Grows, Linked
  <2> QED BY <2>1, <2>3, RaiseStep
<1>4. CASE Link
  <2>1. Grows
    BY <1>4, <1>0, LinkStep DEF Link, Grows
  <2> QED BY <2>1, <1>4, LinkStep
<1>5. CASE Publish
  <2>1. ListTypes' /\ WriterInv'
    BY <1>5 DEF Publish, ListTypes, WriterInv, Allocated, Linked, Before, LastBefore, NodeKey,
                GetMaxHeight
  <2>2. Inserted = Len(key) /\ published' = Len(key)
    BY <1>5 DEF Publish, Inserted
  <2>3. ListInv'
    BY <1>0, <1>5, <2>2 DEF Publish, ListInv, Inserted, Linked, Chained, Before, NodeKey, GetMaxHeight
  <2>4. Grows
    BY <1>0, <1>5, <2>2 DEF Publish, Grows, Linked
  <2> QED BY <2>1, <2>3, <2>4
<1>6. CASE UNCHANGED list_vars
  <2>1. ListTypes' /\ WriterInv'
    BY <1>6 DEF list_vars, ListTypes, WriterInv, Allocated, Linked, Before, LastBefore, NodeKey,
                GetMaxHeight
  <2>2. ListInv'
    BY <1>6 DEF list_vars, ListInv, Inserted, Linked, Chained, Before, NodeKey, GetMaxHeight
  <2>3. Grows
    BY <1>0, <1>6 DEF list_vars, Grows, Linked
  <2> QED BY <2>1, <2>2, <2>3
<1>7. CASE UNCHANGED vars
  BY <1>6, <1>7 DEF vars, list_vars
<1>8. CASE Flushed
  BY <1>6, <1>8 DEF Flushed
<1>9. ASSUME NEW r \in Readers,
             \/ Ref(r) \/ Unref(r) \/ SearchRound(r)
             \/ \E k \in Keys, s \in 0..published : Get(r, k, s) \/ Seek(r, k, s)
             \/ SeekToFirst(r) \/ SeekToLast(r) \/ NextEntry(r) \/ Prev(r)
      PROVE  UNCHANGED list_vars
  BY <1>9 DEF Ref, Unref, SearchRound, Get, Seek, SeekToFirst, SeekToLast, NextEntry, Prev,
              Search, Move
<1> QED BY <1>1, <1>2, <1>3, <1>4, <1>5, <1>6, <1>7, <1>8, <1>9 DEF Next

-----------------------------------------------------------------------------
(* What the readers find.                                                  *)

(* A search stands on a linked node before its target.                     *)
ReaderOk(d) ==
    /\ Place(d.pos) /\ Place(d.from) /\ d.snap <= published
    /\ d.running =>
          /\ Linked(d.x, d.level)
          /\ d.op \in {"get", "seek", "last", "prev"}
          /\ d.op # "last" => d.x = head_ \/ KeyLess(NodeKey(d.x), d.target)
    /\ d.op = "get" => d.target[2] = d.snap
    /\ d.op \in {"next", "prev"} => d.from # NULL
    /\ d.op = "prev" => d.target = NodeKey(d.from)

(* The entry n was passed over.                                            *)
Passed(d, n) ==
    \/ d.op = "next"  /\ Between(n, d.from, d.pos)
    \/ d.op = "prev"  /\ Between(n, d.pos, d.from)
    \/ d.op = "first" /\ Between(n, NULL, d.pos)
    \/ d.op = "last"  /\ Between(n, d.pos, NULL)
    \/ d.op = "seek"  /\ ~KeyLess(NodeKey(n), d.target) /\ Between(n, NULL, d.pos)
MoveOk(d) ==
    ~d.running => RightWay(d) /\ \A n \in 1..Len(key) : n <= d.snap => ~Passed(d, n)

(* pos is the entry that a Get of the key k at the snapshot s has to find. *)
Newest(k, s, pos) ==
    LET found == pos # NULL /\ key[pos] = k
    IN  /\ found => pos <= s
        /\ \A n \in 1..Len(key) : key[n] = k /\ n <= s => found /\ n <= pos
GetOk(d) == d.op = "get" /\ ~d.running => Newest(d.target[1], d.snap, d.pos)

(* The invariant reader by reader.                                         *)
AllOk(d) == ReaderOk(d) /\ MoveOk(d) /\ GetOk(d)
ReadersOk == \A r \in Readers : AllOk(rd[r])

SameView(r) ==
    /\ rd'[r].op = rd[r].op /\ rd'[r].running = rd[r].running /\ rd'[r].target = rd[r].target
    /\ rd'[r].x = rd[r].x /\ rd'[r].level = rd[r].level /\ rd'[r].from = rd[r].from
    /\ rd'[r].pos = rd[r].pos /\ rd'[r].snap = rd[r].snap

(* MoveOk says that the interval is empty.                                 *)
LEMMA IntervalEmpty ==
    ASSUME key \in Seq(Keys), NEW d, \A n \in 1..Len(key) : n <= d.snap => ~Passed(d, n)
    PROVE  Interval(d) = {}
<1>1. Nodes = 1..Len(key)
  BY DEF Nodes
<1> QED BY <1>1 DEF Interval, Passed

(* GetOk says that the right entry was found.                              *)
LEMMA NewestIsMax ==
    ASSUME key \in Seq(Keys), NEW k, NEW s \in Nat, NEW pos \in Positions, Newest(k, s, pos)
    PROVE  {n \in {pos} \cap Nodes : key[n] = k} =
              (IF Visible(k, s) = {} THEN {} ELSE {Max(Visible(k, s))})
<1>1. Nodes = 1..Len(key) /\ Len(key) \in Nat
  BY DEF Nodes
<1>2. Visible(k, s) = {n \in 1..Len(key) : key[n] = k /\ n <= s}
  BY <1>1 DEF Visible
<1>3. NULL \notin 1..Len(key)
  BY <1>1 DEF NULL
<1>4. CASE pos # NULL /\ key[pos] = k
  <2>1. pos \in 1..Len(key) /\ pos \in Visible(k, s) /\ \A n \in Visible(k, s) : n <= pos
    BY <1>2, <1>4 DEF Newest, Positions
  <2>2. Max(Visible(k, s)) = pos
    <3>1. \A x \in Visible(k, s) : x \in Nat
      BY <1>1, <1>2
    <3>2. \A x \in Visible(k, s) : (\A y \in Visible(k, s) : x >= y) <=> x = pos
      BY <2>1, <3>1
    <3> QED BY <2>1, <3>2 DEF Max
  <2> QED BY <1>1, <1>4, <2>1, <2>2
<1>5. CASE ~(pos # NULL /\ key[pos] = k)
  <2>1. Visible(k, s) = {}
    BY <1>2, <1>5 DEF Newest
  <2>2. \A n \in {pos} \cap Nodes : key[n] # k
    BY <1>1, <1>3, <1>5
  <2> QED BY <2>1, <2>2
<1> QED BY <1>4, <1>5

(* The invariant in terms of what the run checks.                          *)
LEMMA ReadersOkImplies ==
    ASSUME ListTypes, ReaderTypes, ReadersOk
    PROVE  GetIsNewest /\ IteratorSkipsNothing
<1>1. key \in Seq(Keys)
  BY DEF ListTypes
<1>2. ASSUME NEW r \in Readers PROVE rd[r].snap \in Nat /\ rd[r].pos \in Positions
  BY DEF ReaderTypes, ReaderType
<1>3. GetIsNewest
  BY <1>1, <1>2, NewestIsMax DEF GetIsNewest, ReadersOk, AllOk, GetOk
<1>4. IteratorSkipsNothing
  BY <1>1, IntervalEmpty DEF IteratorSkipsNothing, ReadersOk, AllOk, MoveOk
<1> QED BY <1>3, <1>4

(* A reader that does nothing keeps what it found, whatever is inserted.   *)
LEMMA SameViewOk ==
    ASSUME ListTypes, WriterInv, ListInv, ReaderTypes, Grows, ListTypes',
           NEW r \in Readers, SameView(r), AllOk(rd[r])
    PROVE  AllOk(rd[r])'
<1>0. ReaderOk(rd[r]) /\ MoveOk(rd[r]) /\ GetOk(rd[r])
  BY DEF AllOk
<1>1. PICK d : d = rd[r]
  OBVIOUS
<1>2. PICK e : e = rd'[r]
  OBVIOUS
<1>3. d \in ReaderType
  BY <1>1 DEF ReaderTypes
<1>4. /\ e.op = d.op /\ e.running = d.running /\ e.target = d.target /\ e.x = d.x
      /\ e.level = d.level /\ e.from = d.from /\ e.pos = d.pos /\ e.snap = d.snap
  BY <1>1, <1>2 DEF SameView
<1>5. /\ Len(key) \in Nat /\ Len(key') \in Nat /\ Len(key) <= Len(key') /\ published <= Len(key)
      /\ published' >= published /\ d.snap \in Nat /\ d.snap <= Len(key) /\ d.snap <= published'
  <2>1. Len(key) \in Nat /\ Len(key') \in Nat /\ published \in Nat /\ Len(key) <= Len(key')
        /\ published <= published'
    BY DEF ListTypes, Grows
  <2>2. published <= Len(key)
    BY <2>1, DomainFacts DEF ListInv
  <2>3. d.snap \in Nat /\ d.snap <= published
    BY <1>0, <1>1, <1>3 DEF ReaderOk, ReaderType
  <2>4. published' \in Int
    BY DEF ListTypes
  <2> QED BY <2>1, <2>2, <2>3, <2>4
<1>6. \A n \in 1..Len(key) : NodeKey(n)' = NodeKey(n)
  BY DEF Grows, NodeKey
<1>7. \A n \in DOMAIN next, l \in Levels : Linked(n, l) => Linked(n, l)'
  BY DEF Grows
<1>8. 0 \in Levels /\ \A n \in DOMAIN next : n \in 0..Len(key)
  BY DomainFacts, MemTableAssumption DEF Levels
<1>9. d.pos \in Positions /\ d.from \in Positions /\ d.level \in Levels
  BY <1>3 DEF ReaderType
<1>10. \A n \in 1..Len(key), a, b \in Positions : Between(n, a, b)' <=> Between(n, a, b)
  BY <1>6 DEF Between, Positions
<1>11. ReaderOk(rd[r])'
  <2>1. Place(d.pos)' /\ Place(d.from)'
    BY <1>0, <1>1, <1>7, <1>8 DEF ReaderOk, Place, Linked
  <2>2. d.running => Linked(d.x, d.level)' /\ (d.op # "last" => d.x = head_ \/ KeyLess(NodeKey(d.x)', d.target))
    <3>1. d.running => Linked(d.x, d.level) /\ (d.op # "last" => d.x = head_ \/ KeyLess(NodeKey(d.x), d.target))
      BY <1>0, <1>1 DEF ReaderOk
    <3>2. Linked(d.x, d.level) => Linked(d.x, d.level)' /\ (d.x = head_ \/ d.x \in 1..Len(key))
      BY <1>5, <1>7, <1>8, <1>9 DEF Linked, head_
    <3> QED BY <3>1, <3>2, <1>6
  <2>3. d.op = "prev" => d.target = NodeKey(d.from)'
    <3>1. d.op = "prev" => d.target = NodeKey(d.from) /\ d.from # NULL
      BY <1>0, <1>1 DEF ReaderOk
    <3> QED BY <3>1, <1>6, <1>9 DEF Positions
  <2>4. /\ d.running => d.op \in {"get", "seek", "last", "prev"}
        /\ d.op = "get" => d.target[2] = d.snap
        /\ d.op \in {"next", "prev"} => d.from # NULL
    BY <1>0, <1>1 DEF ReaderOk
  <2> QED BY <1>2, <1>4, <1>5, <2>1, <2>2, <2>3, <2>4 DEF ReaderOk
<1>12. MoveOk(rd[r])'
  <2>1. ASSUME ~d.running, NEW n \in 1..Len(key'), n <= d.snap PROVE ~Passed(e, n)'
    <3>1. n \in 1..Len(key)
      BY <1>5, <2>1
    <3>2. ~Passed(d, n)
      BY <1>0, <1>1, <2>1, <3>1 DEF MoveOk
    <3>3. NULL \in Positions
      BY DEF Positions
    <3> QED BY <3>1, <3>2, <3>3, <1>4, <1>6, <1>9, <1>10 DEF Passed
  <2>2. ~d.running => RightWay(rd[r])'
    <3>1. ~d.running =>
            /\ d.op = "next" /\ d.pos # NULL => KeyLess(NodeKey(d.from), NodeKey(d.pos))
            /\ d.op = "prev" /\ d.pos # NULL => KeyLess(NodeKey(d.pos), NodeKey(d.from))
            /\ d.op = "seek" /\ d.pos # NULL => ~KeyLess(NodeKey(d.pos), d.target)
      BY <1>0, <1>1 DEF MoveOk, RightWay
    <3>2. d.op \in {"next", "prev"} => d.from \in 1..Len(key)
      BY <1>0, <1>1, <1>9 DEF ReaderOk, Positions
    <3>3. d.pos # NULL => d.pos \in 1..Len(key)
      BY <1>9 DEF Positions
    <3>4. ~d.running =>
            /\ d.op = "next" /\ d.pos # NULL => KeyLess(NodeKey(d.from)', NodeKey(d.pos)')
            /\ d.op = "prev" /\ d.pos # NULL => KeyLess(NodeKey(d.pos)', NodeKey(d.from)')
            /\ d.op = "seek" /\ d.pos # NULL => ~KeyLess(NodeKey(d.pos)', d.target)
      BY <3>1, <3>2, <3>3, <1>6
    <3> QED BY <3>4, <1>2, <1>4 DEF RightWay
  <2> QED BY <2>1, <2>2, <1>2, <1>4 DEF MoveOk
<1>13. GetOk(rd[r])'
  <2>1. \A k : Newest(k, d.snap, d.pos) => Newest(k, d.snap, d.pos)'
    <3>1. \A n \in 1..Len(key') : n <= d.snap => n \in 1..Len(key)
      BY <1>5
    <3>2. \A n \in 1..Len(key) : key'[n] = key[n]
      BY DEF Grows
    <3>3. d.pos # NULL => key'[d.pos] = key[d.pos]
      BY <3>2, <1>9 DEF Positions
    <3> QED BY <3>1, <3>2, <3>3 DEF Newest
  <2>2. d.op = "get" /\ ~d.running => Newest(d.target[1], d.snap, d.pos)
    BY <1>0, <1>1 DEF GetOk
  <2> QED BY <2>1, <2>2, <1>2, <1>4 DEF GetOk
<1> QED BY <1>11, <1>12, <1>13 DEF AllOk

(* Where a search ends, on level 0: no inserted entry lies between the     *)
(* node it stands on and the next one, for the target it looked for.       *)
LEMMA SearchEnd ==
    ASSUME ListTypes, WriterInv, ListInv, NEW x, Linked(x, 0), NEW n, n = next[x][0],
           NEW m \in 1..Inserted
    PROVE  /\ m \in 1..Len(key) /\ m # head_
           /\ n # NULL => n \in 1..Len(key) /\ Linked(n, 0) /\ Before(x, n)
           /\ x \in 0..Len(key)
           /\ Before(x, m) => n # NULL /\ ~KeyLess(NodeKey(m), NodeKey(n))
           /\ x # m /\ ~Before(x, m) => Before(m, x)
<1>1. 0 \in Levels /\ x \in DOMAIN next /\ x \in 0..Len(key) /\ m \in 1..Len(key) /\ m # head_
      /\ m \in DOMAIN next
  BY DomainFacts, MemTableAssumption DEF Levels, Linked, head_
<1>2. Chained(x, 0) /\ Linked(m, 0)
  BY <1>1 DEF ListInv
<1>3. n # NULL => n \in 1..Len(key) /\ Linked(n, 0) /\ Before(x, n) /\ n # head_
  BY <1>1, <1>2, DomainFacts DEF Chained, Linked, Before, head_
<1>4. x # m /\ ~Before(x, m) => Before(m, x)
  BY <1>1, DomainFacts, BeforeOrder DEF ListTypes
<1> QED BY <1>1, <1>2, <1>3, <1>4 DEF Chained, Before

(* What is left of an entry when a search for a key ends: it is before the *)
(* target and not after the node stood on, or not before the next node.    *)
LEMMA SearchSplit ==
    ASSUME ListTypes, WriterInv, ListInv, NEW x, Linked(x, 0), NEW n, n = next[x][0],
           NEW t \in Nat \X Nat, x = head_ \/ KeyLess(NodeKey(x), t), ~KeyIsAfterNode(t, n),
           NEW m \in 1..Inserted
    PROVE  IF KeyLess(NodeKey(m), t)
           THEN x # head_ /\ ~KeyLess(NodeKey(x), NodeKey(m))
           ELSE n # NULL /\ ~KeyLess(NodeKey(m), NodeKey(n))
<1>1. /\ m \in 1..Len(key) /\ m # head_ /\ x \in 0..Len(key)
      /\ n # NULL => n \in 1..Len(key)
      /\ Before(x, m) => n # NULL /\ ~KeyLess(NodeKey(m), NodeKey(n))
  BY SearchEnd
<1>2. \A j \in 1..Len(key) : NodeKey(j) \in Nat \X Nat
  BY NodeKeyType DEF ListTypes
<1>3. x # head_ => x \in 1..Len(key)
  BY <1>1 DEF head_, ListTypes
<1>4. n # NULL => ~KeyLess(NodeKey(n), t)
  BY DEF KeyIsAfterNode
<1>5. CASE KeyLess(NodeKey(m), t)
  <2>1. ~Before(x, m)
    BY <1>1, <1>2, <1>4, <1>5, KeyLessOrder
  <2> QED BY <2>1, <1>1, <1>5 DEF Before
<1>6. CASE ~KeyLess(NodeKey(m), t)
  <2>1. Before(x, m)
    BY <1>1, <1>2, <1>3, <1>6, KeyLessOrder DEF Before
  <2> QED BY <2>1, <1>1, <1>6
<1> QED BY <1>5, <1>6

(* With the lists unchanged, what holds of a reader's view still holds.    *)
LEMMA ViewKept ==
    ASSUME UNCHANGED list_vars, NEW d, AllOk(d)
    PROVE  AllOk(d)'
BY DEF list_vars, AllOk, ReaderOk, MoveOk, GetOk, Place, Linked, NodeKey, RightWay, Passed, Between,
       Newest

(* SeekToFirst and Next read one pointer of level 0.                       *)
LEMMA MoveStep ==
    ASSUME ListTypes, WriterInv, ListInv, ReaderTypes, NEW r \in Readers, AllOk(rd[r]),
           SeekToFirst(r) \/ NextEntry(r)
    PROVE  \E e \in ReaderType : rd' = [rd EXCEPT ![r] = e] /\ AllOk(e)
<1> DEFINE Moves(x, op) ==
             /\ rd[r].held /\ ~rd[r].running
             /\ rd' = [rd EXCEPT ![r] = [rd[r] EXCEPT !.op = op, !.snap = published,
                                          !.from = rd[r].pos, !.pos = next[x][0]]]
<1>a. SeekToFirst(r) => Moves(head_, "first")
  BY DEF SeekToFirst, Move
<1>b. NextEntry(r) => Moves(rd[r].pos, "next") /\ rd[r].pos # NULL
  BY DEF NextEntry, Move
<1> HIDE DEF Moves
<1>c. PICK x, op : /\ \/ op = "first" /\ x = head_
                      \/ op = "next" /\ x = rd[r].pos /\ x # NULL
                   /\ Moves(x, op)
  BY <1>a, <1>b
<1>0. /\ \/ op = "first" /\ x = head_
         \/ op = "next" /\ x = rd[r].pos /\ x # NULL
      /\ rd[r].held /\ ~rd[r].running
      /\ rd' = [rd EXCEPT ![r] = [rd[r] EXCEPT !.op = op, !.snap = published,
                                          !.from = rd[r].pos, !.pos = next[x][0]]]
  BY <1>c DEF Moves
<1>1. PICK n : n = next[x][0]
  OBVIOUS
<1>2. PICK d : d = rd[r]
  OBVIOUS
<1>3. PICK e : e = [d EXCEPT !.op = op, !.snap = published, !.from = d.pos, !.pos = n]
  OBVIOUS
<1>4. d \in ReaderType /\ ReaderOk(d)
  BY <1>2 DEF ReaderTypes, AllOk
<1>5. Linked(x, 0) /\ x \in 0..Len(key) /\ 0 \in Levels /\ x \in DOMAIN next
  <2>1. Linked(x, 0)
    BY <1>0, <1>2, <1>4, MemTableAssumption DEF ListInv, Levels, ReaderOk, Place
  <2> QED BY <2>1, DomainFacts, MemTableAssumption DEF Linked, Levels
<1>6. Chained(x, 0)
  BY <1>5 DEF ListInv
<1>7. n \in Positions /\ Place(n) /\ (n # NULL => Before(x, n) /\ n # head_)
  BY <1>1, <1>5, <1>6, DomainFacts DEF Positions, Place, Chained, Linked, Before
<1>8. published \in Nat /\ published <= Inserted
  BY DEF ListTypes, ListInv
<1>9. e \in ReaderType
  BY <1>0, <1>3, <1>4, <1>7, <1>8 DEF ReaderType, Ops
<1>10. e.op = op /\ e.snap = published /\ e.from = d.pos /\ e.pos = n /\ ~e.running
  BY <1>0, <1>2, <1>3, <1>4 DEF ReaderType
<1>11. ReaderOk(e)
  BY <1>0, <1>2, <1>4, <1>7, <1>8, <1>10 DEF ReaderOk
<1>12. ASSUME NEW m \in 1..Len(key), m <= published PROVE ~Passed(e, m)
  <2>0. m \in 1..Inserted
    BY <1>8, <1>12, DomainFacts
  <2>1. m # head_ /\ (Before(x, m) => n # NULL /\ ~KeyLess(NodeKey(m), NodeKey(n)))
    BY <2>0, <1>1, <1>5, SearchEnd
  <2>2. CASE op = "first"
    BY <2>1, <2>2, <1>0, <1>10 DEF Passed, Between, Before
  <2>3. CASE op = "next"
    BY <2>1, <2>3, <1>0, <1>2, <1>10 DEF Passed, Between, Before
  <2> QED BY <2>2, <2>3, <1>0
<1>13. RightWay(e)
  <2>1. x # NULL /\ x \in 1..Len(key) => x # head_
    BY DEF head_, ListTypes
  <2>2. op = "next" => x # head_
    BY <2>1, <1>0, <1>2, <1>4 DEF ReaderType, Positions
  <2> QED BY <2>2, <1>0, <1>2, <1>7, <1>10 DEF RightWay, Before
<1>14. MoveOk(e) /\ GetOk(e)
  BY <1>0, <1>10, <1>12, <1>13 DEF MoveOk, GetOk
<1> QED BY <1>0, <1>1, <1>2, <1>3, <1>9, <1>11, <1>14 DEF AllOk

(* A search that starts stands on head_.                                   *)
LEMMA SearchStep ==
    ASSUME ListTypes, WriterInv, ListInv, ReaderTypes, NEW r \in Readers, AllOk(rd[r]),
           NEW op \in {"get", "seek", "last", "prev"}, NEW t \in Nat \X Nat,
           NEW snap \in 0..published, Search(r, op, t, snap),
           op = "get" => t[2] = snap,
           op = "prev" => rd[r].pos # NULL /\ t = NodeKey(rd[r].pos)
    PROVE  \E e \in ReaderType : rd' = [rd EXCEPT ![r] = e] /\ AllOk(e)
<1>1. PICK d : d = rd[r]
  OBVIOUS
<1>2. PICK h \in heights :
          rd' = [rd EXCEPT ![r] = [d EXCEPT !.op = op, !.running = TRUE, !.target = t,
                                     !.x = head_, !.level = h - 1, !.snap = snap, !.from = d.pos]]
  BY <1>1 DEF Search
<1>3. PICK e : e = [d EXCEPT !.op = op, !.running = TRUE, !.target = t, !.x = head_,
                             !.level = h - 1, !.snap = snap, !.from = d.pos]
  OBVIOUS
<1>4. d \in ReaderType /\ ReaderOk(d)
  BY <1>1 DEF ReaderTypes, AllOk
<1>5. h - 1 \in Levels /\ snap \in Nat /\ snap <= published /\ op \in Ops /\ head_ \in Nat
  <2>1. h \in 1..kMaxHeight /\ kMaxHeight \in Nat
    BY MemTableAssumption DEF ListTypes
  <2> QED BY <2>1 DEF Levels, ListTypes, Ops, head_
<1>6. e \in ReaderType
  BY <1>3, <1>4, <1>5 DEF ReaderType
<1>7. /\ e.op = op /\ e.running = TRUE /\ e.target = t /\ e.x = head_ /\ e.level = h - 1
      /\ e.snap = snap /\ e.from = d.pos /\ e.pos = d.pos
  BY <1>3, <1>4 DEF ReaderType
<1>8. ReaderOk(e)
  <2>1. Linked(head_, h - 1)
    BY <1>5 DEF ListInv
  <2> QED BY <2>1, <1>1, <1>4, <1>5, <1>7 DEF ReaderOk
<1> QED BY <1>2, <1>3, <1>6, <1>7, <1>8 DEF AllOk, MoveOk, GetOk

(* One round of a reader's search.                                         *)
LEMMA RoundStep ==
    ASSUME ListTypes, WriterInv, ListInv, ReaderTypes, NEW r \in Readers, AllOk(rd[r]),
           SearchRound(r)
    PROVE  \E e \in ReaderType : rd' = [rd EXCEPT ![r] = e] /\ AllOk(e)
<1>1. PICK d : d = rd[r]
  OBVIOUS
<1>2. PICK n : n = next[d.x][d.level]
  OBVIOUS
<1>3. /\ d.running
      /\ rd' = [rd EXCEPT ![r] =
                  IF Further(r, n) THEN [d EXCEPT !.x = n]
                  ELSE IF d.level > 0 THEN [d EXCEPT !.level = d.level - 1]
                  ELSE [d EXCEPT !.running = FALSE, !.pos = Found(r, n)]]
  BY <1>1, <1>2 DEF SearchRound
<1>4. d \in ReaderType /\ ReaderOk(d)
  BY <1>1 DEF ReaderTypes, AllOk
<1>5. /\ Place(d.pos) /\ Place(d.from) /\ d.snap <= published
      /\ Linked(d.x, d.level) /\ d.op \in {"get", "seek", "last", "prev"}
      /\ d.op # "last" => d.x = head_ \/ KeyLess(NodeKey(d.x), d.target)
      /\ d.op = "get" => d.target[2] = d.snap
      /\ d.op = "prev" => d.from # NULL /\ d.target = NodeKey(d.from)
  BY <1>3, <1>4 DEF ReaderOk
<1>6. d.level \in Levels /\ d.x \in DOMAIN next /\ Chained(d.x, d.level) /\ d.level \in Nat
      /\ 0 \in Levels
  <2>1. d.level \in Levels /\ d.x \in DOMAIN next
    BY <1>4, <1>5 DEF ReaderType, Linked
  <2> QED BY <2>1, <1>5, DomainFacts DEF ListInv
<1>7. CASE Further(r, n)
  <2>1. PICK e : e = [d EXCEPT !.x = n]
    OBVIOUS
  <2>2. n # NULL /\ (d.op # "last" => KeyLess(NodeKey(n), d.target))
    BY <1>1, <1>7 DEF Further, KeyIsAfterNode
  <2>3. Linked(n, d.level) /\ n \in Nat
    BY <2>2, <1>2, <1>6, DomainFacts DEF Chained, Linked
  <2>4. e \in ReaderType
    BY <2>1, <2>3, <1>4 DEF ReaderType
  <2>5. /\ e.op = d.op /\ e.running = d.running /\ e.target = d.target /\ e.x = n
        /\ e.level = d.level /\ e.from = d.from /\ e.pos = d.pos /\ e.snap = d.snap
    BY <2>1, <1>4 DEF ReaderType
  <2>6. ReaderOk(e)
    BY <2>2, <2>3, <2>5, <1>4 DEF ReaderOk
  <2>7. rd' = [rd EXCEPT ![r] = e]
    BY <2>1, <1>3, <1>7
  <2> QED BY <2>4, <2>5, <2>6, <2>7, <1>3 DEF AllOk, MoveOk, GetOk
<1>8. CASE ~Further(r, n) /\ d.level > 0
  <2>1. PICK e : e = [d EXCEPT !.level = d.level - 1]
    OBVIOUS
  <2>2. d.level - 1 \in Levels /\ d.level - 1 \in 0..d.level
    BY <1>6, <1>8, MemTableAssumption DEF Levels
  <2>3. Linked(d.x, d.level - 1)
    BY <2>2, <1>5, <1>6 DEF ListInv
  <2>4. e \in ReaderType
    BY <2>1, <2>2, <1>4 DEF ReaderType
  <2>5. /\ e.op = d.op /\ e.running = d.running /\ e.target = d.target /\ e.x = d.x
        /\ e.level = d.level - 1 /\ e.from = d.from /\ e.pos = d.pos /\ e.snap = d.snap
    BY <2>1, <1>4 DEF ReaderType
  <2>6. ReaderOk(e)
    BY <2>3, <2>5, <1>4 DEF ReaderOk
  <2>7. rd' = [rd EXCEPT ![r] = e]
    BY <2>1, <1>3, <1>8
  <2> QED BY <2>4, <2>5, <2>6, <2>7, <1>3 DEF AllOk, MoveOk, GetOk
<1>9. CASE ~Further(r, n) /\ ~(d.level > 0)
  <2>0. d.level = 0 /\ Linked(d.x, 0) /\ n = next[d.x][0]
    BY <1>2, <1>5, <1>6, <1>9
  <2>1. PICK f : f = Found(r, n)
    OBVIOUS
  <2>2. PICK e : e = [d EXCEPT !.running = FALSE, !.pos = f]
    OBVIOUS
  <2>3. rd' = [rd EXCEPT ![r] = e]
    BY <2>1, <2>2, <1>3, <1>9
  <2>4. d.x \in 0..Len(key) /\ Len(key) \in Nat /\ (n # NULL => n \in 1..Len(key) /\ Linked(n, 0))
    BY <2>0, <1>6, DomainFacts DEF Chained, Linked
  <2>5. f = IF d.op \in {"prev", "last"} THEN (IF d.x = head_ THEN NULL ELSE d.x) ELSE n
    BY <2>1, <1>1 DEF Found
  <2>6. f \in Positions /\ Place(f)
    BY <2>0, <2>4, <2>5 DEF Positions, Place, head_
  <2>7. e \in ReaderType
    BY <2>2, <2>6, <1>4 DEF ReaderType
  <2>8. /\ e.op = d.op /\ e.running = FALSE /\ e.target = d.target /\ e.x = d.x
        /\ e.level = d.level /\ e.from = d.from /\ e.pos = f /\ e.snap = d.snap
    BY <2>2, <1>4 DEF ReaderType
  <2>9. ReaderOk(e)
    BY <2>6, <2>8, <1>4, <1>5 DEF ReaderOk
  <2>10. d.snap \in Nat /\ \A m \in 1..Len(key) : m <= d.snap => m \in 1..Inserted
    <3>1. d.snap \in Nat /\ published \in Nat /\ published <= Inserted
      BY <1>4 DEF ReaderType, ListTypes, ListInv
    <3> QED BY <3>1, <1>5, DomainFacts
  <2>11. d.op # "last" => ~KeyIsAfterNode(d.target, n)
    BY <1>1, <1>9 DEF Further
  <2>12. ASSUME NEW m \in 1..Inserted, d.op # "last"
         PROVE  IF KeyLess(NodeKey(m), d.target)
                THEN d.x # head_ /\ ~KeyLess(NodeKey(d.x), NodeKey(m))
                ELSE n # NULL /\ ~KeyLess(NodeKey(m), NodeKey(n))
    <3>1. d.target \in Nat \X Nat
      BY <1>4 DEF ReaderType
    <3> QED BY <3>1, <2>0, <2>11, <2>12, <1>5, SearchSplit
  <2>13. CASE d.op = "get"
    <3>1. PICK k \in Nat, s \in Nat : d.target = <<k, s>> /\ s = d.snap
      BY <2>13, <1>4, <1>5 DEF ReaderType
    <3>2. f = n
      BY <2>5, <2>13
    <3>3. \A j \in 1..Len(key) : NodeKey(j) = <<key[j], j>> /\ key[j] \in Nat /\ j \in Nat
      BY NodeKeyType, MemTableAssumption DEF ListTypes, NodeKey
    <3>4. n # NULL => ~KeyLess(<<key[n], n>>, <<k, s>>)
      BY <2>11, <2>13, <3>1 DEF KeyIsAfterNode, NodeKey
    <3>5. n # NULL /\ key[n] = k => n <= s
      BY <3>3, <3>4, <2>4 DEF KeyLess
    <3>6. ASSUME NEW m \in 1..Len(key), key[m] = k, m <= s
          PROVE  n # NULL /\ key[n] = k /\ m <= n
      <4>1. ~KeyLess(<<key[m], m>>, <<k, s>>)
        BY <3>3, <3>6 DEF KeyLess
      <4>2. n # NULL /\ ~KeyLess(<<key[m], m>>, <<key[n], n>>)
        BY <4>1, <3>1, <3>6, <2>10, <2>12, <2>13 DEF NodeKey
      <4> QED BY <4>2, <3>3, <3>4, <3>6, <2>4 DEF KeyLess
    <3>7. Newest(k, s, n)
      BY <3>5, <3>6 DEF Newest
    <3>8. GetOk(e) /\ MoveOk(e)
      BY <3>1, <3>2, <3>7, <2>8, <2>13 DEF GetOk, MoveOk, RightWay, Passed
    <3> QED BY <3>8, <2>3, <2>7, <2>9 DEF AllOk
  <2>14. CASE d.op = "seek"
    <3>1. f = n /\ (n # NULL => ~KeyLess(NodeKey(n), d.target))
      BY <2>5, <2>11, <2>14 DEF KeyIsAfterNode
    <3>2. RightWay(e)
      BY <3>1, <2>8, <2>14 DEF RightWay
    <3>3. ASSUME NEW m \in 1..Len(key), m <= d.snap PROVE ~Passed(e, m)
      BY <3>1, <3>3, <2>8, <2>10, <2>12, <2>14 DEF Passed, Between
    <3> QED BY <3>2, <3>3, <2>3, <2>7, <2>8, <2>9, <2>14 DEF AllOk, MoveOk, GetOk
  <2>15. CASE d.op = "prev"
    <3>1. f = (IF d.x = head_ THEN NULL ELSE d.x) /\ d.from # NULL /\ d.target = NodeKey(d.from)
      BY <2>5, <2>15, <1>5
    <3>2. d.x # NULL
      BY <2>4 DEF NULL
    <3>3. RightWay(e)
      BY <3>1, <2>8, <2>15, <1>5 DEF RightWay
    <3>4. ASSUME NEW m \in 1..Len(key), m <= d.snap PROVE ~Passed(e, m)
      BY <3>1, <3>2, <3>4, <2>8, <2>10, <2>12, <2>15 DEF Passed, Between
    <3> QED BY <3>3, <3>4, <2>3, <2>7, <2>8, <2>9, <2>15 DEF AllOk, MoveOk, GetOk
  <2>16. CASE d.op = "last"
    <3>1. f = (IF d.x = head_ THEN NULL ELSE d.x) /\ n = NULL
      BY <2>5, <2>16, <1>1, <1>9 DEF Further
    <3>2. d.x # NULL
      BY <2>4 DEF NULL
    <3>3. RightWay(e)
      BY <2>8, <2>16 DEF RightWay
    <3>4. ASSUME NEW m \in 1..Len(key), m <= d.snap PROVE ~Passed(e, m)
      <4>1. m # head_ /\ ~Before(d.x, m)
        BY <3>1, <3>4, <2>0, <2>10, SearchEnd
      <4> QED BY <4>1, <3>1, <3>2, <2>8, <2>16 DEF Passed, Between, Before
    <3> QED BY <3>3, <3>4, <2>3, <2>7, <2>8, <2>9, <2>16 DEF AllOk, MoveOk, GetOk
  <2> QED BY <2>13, <2>14, <2>15, <2>16, <1>5
<1> QED BY <1>7, <1>8, <1>9

MemInv == ListTypes /\ WriterInv /\ ListInv /\ ReaderTypes /\ ReadersOk

(* A reader that does nothing, or none at all.                             *)
LEMMA IdleOk == ASSUME ListTypes PROVE IdleReader \in ReaderType /\ AllOk(IdleReader)
<1>1. 0 \in Levels /\ published \in Nat
  BY MemTableAssumption DEF Levels, ListTypes
<1>2. IdleReader \in ReaderType
  BY <1>1 DEF IdleReader, ReaderType, Ops, Positions, head_
<1> QED BY <1>1, <1>2 DEF IdleReader, AllOk, ReaderOk, MoveOk, GetOk, Place, RightWay, Passed

(* What a reader's own step comes to.                                      *)
LEMMA ReaderStep ==
    ASSUME ListTypes, WriterInv, ListInv, ReaderTypes, ReadersOk, NEW r \in Readers,
           \/ Unref(r) \/ SearchRound(r)
           \/ \E k \in Keys, s \in 0..published : Get(r, k, s) \/ Seek(r, k, s)
           \/ SeekToFirst(r) \/ SeekToLast(r) \/ NextEntry(r) \/ Prev(r)
    PROVE  \E e \in ReaderType : rd' = [rd EXCEPT ![r] = e] /\ AllOk(e)
<1>0. AllOk(rd[r]) /\ rd[r] \in ReaderType
  BY DEF ReadersOk, ReaderTypes
<1>1. published \in 0..published /\ 0..published \subseteq Nat /\ published \in Nat
  BY DEF ListTypes
<1>2. CASE Unref(r)
  BY <1>2, IdleOk DEF Unref
<1>3. CASE SearchRound(r)
  BY <1>0, <1>3, RoundStep
<1>4. ASSUME NEW k \in Keys, NEW s \in 0..published, Get(r, k, s) \/ Seek(r, k, s)
      PROVE  \E e \in ReaderType : rd' = [rd EXCEPT ![r] = e] /\ AllOk(e)
  <2>1. <<k, s>> \in Nat \X Nat /\ <<k, s>>[2] = s
    BY <1>1, MemTableAssumption
  <2>2. CASE Get(r, k, s)
    <3>1. Search(r, "get", <<k, s>>, s)
      BY <2>2 DEF Get
    <3> QED BY <3>1, <2>1, <1>0, SearchStep
  <2>3. CASE Seek(r, k, s)
    <3>1. Search(r, "seek", <<k, s>>, published)
      BY <2>3 DEF Seek
    <3> QED BY <3>1, <2>1, <1>0, <1>1, SearchStep
  <2> QED BY <1>4, <2>2, <2>3
<1>5. CASE SeekToFirst(r) \/ NextEntry(r)
  BY <1>0, <1>5, MoveStep
<1>6. CASE SeekToLast(r)
  <2>1. Search(r, "last", <<0, 0>>, published) /\ <<0, 0>> \in Nat \X Nat
    BY <1>6 DEF SeekToLast
  <2> QED BY <2>1, <1>0, <1>1, SearchStep
<1>7. CASE Prev(r)
  <2>1. rd[r].pos # NULL /\ Search(r, "prev", NodeKey(rd[r].pos), published)
    BY <1>7 DEF Prev
  <2>2. NodeKey(rd[r].pos) \in Nat \X Nat
    <3>1. rd[r].pos \in 1..Len(key)
      BY <2>1, <1>0 DEF ReaderType, Positions
    <3> QED BY <3>1, NodeKeyType DEF ListTypes
  <2> QED BY <2>1, <2>2, <1>0, <1>1, SearchStep
<1> QED BY <1>2, <1>3, <1>4, <1>5, <1>6, <1>7

(* The invariant holds at first.                                           *)
LEMMA MemStart == ASSUME Init PROVE MemInv
<1>1. ListTypes /\ WriterInv /\ ListInv
  BY ListStart
<1>2. rd = [r \in Readers |-> IdleReader]
  BY DEF Init
<1> QED BY <1>1, <1>2, IdleOk DEF MemInv, ReaderTypes, ReadersOk

(* And it is inductive.                                                    *)
LEMMA MemStep == ASSUME MemInv, [Next]_vars PROVE MemInv'
<1> USE DEF MemInv
<1>1. ListTypes' /\ WriterInv' /\ ListInv' /\ Grows
  BY ListNext
<1>2. ASSUME NEW e \in ReaderType PROVE e \in ReaderType'
  <2>1. \A p \in Positions : p \in Positions'
    BY <1>1 DEF Grows, Positions, ListTypes
  <2> QED BY <2>1 DEF ReaderType
<1>3. ASSUME rd' = rd \/ \E r \in Readers : rd' = [rd EXCEPT ![r].held = TRUE]
      PROVE  ReaderTypes' /\ ReadersOk'
  <2>1. ASSUME NEW r \in Readers PROVE SameView(r) /\ rd'[r] \in ReaderType
    <3>1. rd[r] \in ReaderType
      BY DEF ReaderTypes
    <3>2. rd'[r] = rd[r] \/ rd'[r] = [rd[r] EXCEPT !.held = TRUE]
      BY <1>3 DEF ReaderTypes
    <3> QED BY <3>1, <3>2 DEF SameView, ReaderType
  <2>2. ReaderTypes'
    <3>1. DOMAIN rd' = Readers /\ rd' = [r \in Readers |-> rd'[r]]
      BY <1>3 DEF ReaderTypes
    <3> QED BY <3>1, <2>1, <1>2 DEF ReaderTypes
  <2>3. ASSUME NEW r \in Readers PROVE AllOk(rd[r])'
    BY <2>1, <1>1, SameViewOk DEF ReadersOk
  <2> QED BY <2>2, <2>3 DEF ReadersOk
<1>4. ASSUME NEW r \in Readers, UNCHANGED list_vars,
             \E e \in ReaderType : rd' = [rd EXCEPT ![r] = e] /\ AllOk(e)
      PROVE  ReaderTypes' /\ ReadersOk'
  <2>1. PICK e \in ReaderType : rd' = [rd EXCEPT ![r] = e] /\ AllOk(e)
    BY <1>4
  <2>2. ReaderTypes'
    <3>1. rd' \in [Readers -> ReaderType]
      BY <2>1 DEF ReaderTypes
    <3> QED BY <3>1, <1>2 DEF ReaderTypes
  <2>3. ASSUME NEW q \in Readers PROVE AllOk(rd[q])'
    <3>1. PICK d : d = rd'[q]
      OBVIOUS
    <3>2. AllOk(d)
      BY <2>1, <3>1 DEF ReadersOk, ReaderTypes
    <3>3. AllOk(d)'
      BY <3>2, <1>4, ViewKept
    <3> QED BY <3>1, <3>3
  <2> QED BY <2>2, <2>3 DEF ReadersOk
<1>5. CASE \/ \E k \in Keys : Add(k)
           \/ FindGreaterOrEqual
           \/ \E height \in 1..kMaxHeight : RaiseHeight(height)
           \/ Link \/ Publish \/ Flushed \/ UNCHANGED vars
  <2>1. rd' = rd
    BY <1>5 DEF Add, FindGreaterOrEqual, RaiseHeight, Link, Publish, Flushed, vars
  <2> QED BY <2>1, <1>1, <1>3
<1>6. ASSUME NEW r \in Readers, Ref(r) PROVE MemInv'
  <2>1. rd' = [rd EXCEPT ![r].held = TRUE]
    BY <1>6 DEF Ref
  <2> QED BY <2>1, <1>1, <1>3
<1>7. ASSUME NEW r \in Readers,
             \/ Unref(r) \/ SearchRound(r)
             \/ \E k \in Keys, s \in 0..published : Get(r, k, s) \/ Seek(r, k, s)
             \/ SeekToFirst(r) \/ SeekToLast(r) \/ NextEntry(r) \/ Prev(r)
      PROVE  MemInv'
  <2>1. UNCHANGED list_vars
    BY <1>7 DEF Unref, SearchRound, Get, Seek, SeekToFirst, SeekToLast, NextEntry, Prev, Search, Move
  <2>2. \E e \in ReaderType : rd' = [rd EXCEPT ![r] = e] /\ AllOk(e)
    BY <1>7, ReaderStep
  <2> QED BY <2>1, <2>2, <1>1, <1>4
<1> QED BY <1>5, <1>6, <1>7 DEF Next

(* MemTable::Get finds the newest entry of its key at its snapshot,        *)
(* whatever is inserted while it searches.                                 *)
THEOREM GetIsNewestHolds == Spec => []GetIsNewest
<1>1. Init => MemInv
  BY MemStart
<1>2. MemInv /\ [Next]_vars => MemInv'
  BY MemStep
<1>3. MemInv => GetIsNewest
  BY ReadersOkImplies DEF MemInv
<1> QED BY <1>1, <1>2, <1>3, PTL DEF Spec

(* No move of a SkipList::Iterator passes over an entry that was published *)
(* when it began, and all go the right way.                                *)
THEOREM IteratorSkipsNothingHolds == Spec => []IteratorSkipsNothing
<1>1. Init => MemInv
  BY MemStart
<1>2. MemInv /\ [Next]_vars => MemInv'
  BY MemStep
<1>3. MemInv => IteratorSkipsNothing
  BY ReadersOkImplies DEF MemInv
<1> QED BY <1>1, <1>2, <1>3, PTL DEF Spec

-----------------------------------------------------------------------------
(* References.                                                             *)

(* The references are those of the database and of the readers.            *)
LEMMA RefStart == ASSUME Init PROVE RefInv
<1>1. Holders = {} /\ owned = TRUE /\ refs = 1
  BY DEF Init, Holders, IdleReader
<1> QED BY <1>1, FS_EmptySet DEF RefInv

(* Ref and Unref keep count of the readers, CompactMemTable of its own.    *)
LEMMA RefStep == ASSUME ReaderTypes, RefInv, [Next]_vars PROVE RefInv'
<1>1. IsFiniteSet(Holders) /\ Cardinality(Holders) \in Nat
  BY MemTableAssumption, FS_Subset, FS_CardinalityType DEF Holders
<1>2. ASSUME UNCHANGED <<refs, owned>>, \A r \in Readers : rd'[r].held = rd[r].held PROVE RefInv'
  <2>1. Holders' = Holders
    BY <1>2 DEF Holders
  <2> QED BY <2>1, <1>2 DEF RefInv
<1>3. CASE \/ \E k \in Keys : Add(k)
           \/ FindGreaterOrEqual
           \/ \E height \in 1..kMaxHeight : RaiseHeight(height)
           \/ Link \/ Publish \/ UNCHANGED vars
  BY <1>2, <1>3 DEF Add, FindGreaterOrEqual, RaiseHeight, Link, Publish, vars
<1>4. CASE Flushed
  <2>1. Holders' = Holders /\ owned /\ ~owned' /\ refs' = refs - 1
    BY <1>4 DEF Flushed, Holders
  <2> QED BY <2>1, <1>1 DEF RefInv
<1>5. ASSUME NEW r \in Readers, Ref(r) PROVE RefInv'
  <2>1. Holders' = Holders \cup {r} /\ r \notin Holders
    BY <1>5 DEF Ref, Holders, ReaderTypes, ReaderType
  <2>2. Cardinality(Holders') = Cardinality(Holders) + 1
    BY <1>1, <2>1, FS_AddElement
  <2>3. owned' = owned /\ refs' = refs + 1
    BY <1>5 DEF Ref
  <2> QED BY <2>2, <2>3, <1>1 DEF RefInv
<1>6. ASSUME NEW r \in Readers, Unref(r) PROVE RefInv'
  <2>1. Holders' = Holders \ {r} /\ r \in Holders
    BY <1>6 DEF Unref, Holders, ReaderTypes, ReaderType, IdleReader
  <2>2. Cardinality(Holders') = Cardinality(Holders) - 1
    BY <1>1, <2>1, FS_RemoveElement
  <2>3. owned' = owned /\ refs' = refs - 1
    BY <1>6 DEF Unref
  <2> QED BY <2>2, <2>3, <1>1 DEF RefInv
<1>7. ASSUME NEW r \in Readers, NEW op, NEW t, NEW s, Search(r, op, t, s) PROVE RefInv'
  BY <1>2, <1>7 DEF Search, ReaderTypes, ReaderType
<1>8. ASSUME NEW r \in Readers, NEW op, NEW p, Move(r, op, p) PROVE RefInv'
  BY <1>2, <1>8 DEF Move, ReaderTypes, ReaderType
<1>9. ASSUME NEW r \in Readers, SearchRound(r) PROVE RefInv'
  BY <1>2, <1>9 DEF SearchRound, ReaderTypes, ReaderType
<1> QED BY <1>3, <1>4, <1>5, <1>6, <1>7, <1>8, <1>9
        DEF Next, Get, Seek, SeekToFirst, SeekToLast, NextEntry, Prev

(* No reader follows a pointer that was not stored yet or reads a memtable *)
(* whose last reference is gone.                                           *)
THEOREM ReadersSafeHolds == Spec => []ReadersSafe
<1>1. Init => MemInv /\ RefInv
  BY MemStart, RefStart
<1>2. MemInv /\ RefInv /\ [Next]_vars => (MemInv /\ RefInv)'
  BY MemStep, RefStep DEF MemInv
<1>3. ASSUME MemInv, RefInv PROVE ReadersSafe
  <2>1. ASSUME NEW r \in Readers, rd[r].held PROVE refs > 0
    <3>1. IsFiniteSet(Holders) /\ Cardinality(Holders) \in Nat /\ Holders # {}
      BY <2>1, MemTableAssumption, FS_Subset, FS_CardinalityType DEF Holders
    <3>2. Cardinality(Holders) # 0
      BY <3>1, FS_EmptySet
    <3> QED BY <3>1, <3>2, <1>3 DEF RefInv
  <2>2. ASSUME NEW r \in Readers
        PROVE  /\ rd[r].running => next[rd[r].x][rd[r].level] # Uninit
               /\ rd[r].pos # NULL => next[rd[r].pos][0] # Uninit
    <3>1. PICK d : d = rd[r] /\ ReaderOk(d)
      BY <1>3 DEF MemInv, ReadersOk, AllOk
    <3>2. (d.running => Linked(d.x, d.level)) /\ (d.pos # NULL => Linked(d.pos, 0))
      BY <3>1 DEF ReaderOk, Place
    <3> QED BY <3>1, <3>2 DEF Linked
  <2> QED BY <2>1, <2>2 DEF ReadersSafe
<1> QED BY <1>1, <1>2, <1>3, PTL DEF Spec

-----------------------------------------------------------------------------
(* The arena.                                                              *)

(* A region after all others of its block.                                 *)
LEMMA RegionAdded ==
    ASSUME NEW a, ArenaInv(a), NEW b \in ArenaType, NEW g \in RegionType,
           b.regions = a.regions \cup {g},
           g.start < g.end, g.block \in DOMAIN b.blocks, g.end <= b.blocks[g.block],
           \A i \in DOMAIN a.blocks : i \in DOMAIN b.blocks /\ b.blocks[i] = a.blocks[i],
           b.current = 0 => b.remaining = 0,
           b.current # 0 => /\ b.current \in DOMAIN b.blocks
                            /\ b.ptr + b.remaining = b.blocks[b.current],
           \A h \in a.regions : h.block = g.block => h.end <= g.start,
           \A h \in b.regions : h.block = b.current => h.end <= b.ptr
    PROVE  ArenaInv(b)
<1>1. ASSUME NEW h \in b.regions
      PROVE  h.block \in DOMAIN b.blocks /\ h.end <= b.blocks[h.block] /\ h.start < h.end
  BY DEF ArenaInv
<1>2. ASSUME NEW h \in b.regions, NEW k \in b.regions, h # k, h.block = k.block
      PROVE  h.end <= k.start \/ k.end <= h.start
  BY <1>2 DEF ArenaInv
<1> QED BY <1>1, <1>2 DEF ArenaInv

(* What a region adds to the record of the arena.                          *)
LEMMA RegionIs ==
    ASSUME NEW a \in ArenaType, NEW block, NEW start, NEW bytes
    PROVE  Region(a, block, start, bytes) =
             [blocks |-> a.blocks, current |-> a.current, ptr |-> a.ptr, remaining |-> a.remaining,
              regions |-> a.regions \cup {[block |-> block, start |-> start, end |-> start + bytes]}]
<1>1. PICK gs : gs = a.regions \cup {[block |-> block, start |-> start, end |-> start + bytes]}
  OBVIOUS
<1>2. Region(a, block, start, bytes) = [a EXCEPT !.regions = gs]
  BY <1>1 DEF Region
<1>3. [a EXCEPT !.regions = gs] =
        [blocks |-> a.blocks, current |-> a.current, ptr |-> a.ptr, remaining |-> a.remaining,
         regions |-> gs]
  BY DEF ArenaType
<1> QED BY <1>1, <1>2, <1>3

(* A new block holds no region yet.                                        *)
LEMMA FallbackKeeps ==
    ASSUME NEW a, ArenaInv(a), NEW bytes \in Nat \ {0}
    PROVE  ArenaInv(AllocateFallback(a, bytes))
<1>1. PICK b : b = AllocateFallback(a, bytes)
  OBVIOUS
<1>2. PICK i : i = Len(a.blocks) + 1
  OBVIOUS
<1>3. PICK g : g = [block |-> i, start |-> 0, end |-> bytes]
  OBVIOUS
<1>4. a \in ArenaType /\ a.blocks \in Seq(Nat) /\ i \in Nat /\ i # 0 /\ g \in RegionType
      /\ i \notin DOMAIN a.blocks
  BY <1>2, <1>3 DEF ArenaInv, ArenaType, RegionType
<1>5. \A h \in a.regions : h \in RegionType /\ h.block \in DOMAIN a.blocks
  BY DEF ArenaInv, ArenaType
<1>6. \A n \in Nat : /\ Append(a.blocks, n) \in Seq(Nat) /\ i \in DOMAIN Append(a.blocks, n)
                     /\ Len(Append(a.blocks, n)) = i /\ Append(a.blocks, n)[i] = n
                     /\ \A j \in DOMAIN a.blocks : /\ j \in DOMAIN Append(a.blocks, n)
                                                   /\ Append(a.blocks, n)[j] = a.blocks[j]
  BY <1>2, <1>4
<1>7. g.block = i /\ g.start = 0 /\ g.end = bytes
  BY <1>3
<1>8. CASE bytes > kBlockSize \div 4
  <2>1. b = [blocks |-> Append(a.blocks, bytes), current |-> a.current, ptr |-> a.ptr,
             remaining |-> a.remaining, regions |-> a.regions \cup {g}]
    <3>1. PICK c : c = AllocateNewBlock(a, bytes)
      OBVIOUS
    <3>2. c = [blocks |-> Append(a.blocks, bytes), current |-> a.current, ptr |-> a.ptr,
               remaining |-> a.remaining, regions |-> a.regions]
      BY <3>1, <1>4 DEF AllocateNewBlock, ArenaType
    <3>3. c \in ArenaType
      BY <3>2, <1>4, <1>6 DEF ArenaType
    <3>4. Len(c.blocks) = i
      BY <3>2, <1>6
    <3>5. b = Region(c, i, 0, bytes)
      BY <3>1, <3>4, <1>1, <1>8 DEF AllocateFallback
    <3>6. b = [blocks |-> c.blocks, current |-> c.current, ptr |-> c.ptr,
               remaining |-> c.remaining, regions |-> c.regions \cup {g}]
      <4>1. 0 + bytes = bytes
        OBVIOUS
      <4> QED BY <4>1, <3>3, <3>5, <1>3, RegionIs
    <3> QED BY <3>2, <3>6
  <2>2. /\ b \in ArenaType /\ b.blocks = Append(a.blocks, bytes) /\ b.regions = a.regions \cup {g}
        /\ b.current = a.current /\ b.ptr = a.ptr /\ b.remaining = a.remaining
    BY <2>1, <1>4, <1>6 DEF ArenaType
  <2>3. a.current # i
    BY <1>4 DEF ArenaInv
  <2>4. \A h \in b.regions : h.block = b.current => h.end <= b.ptr
    BY <2>2, <2>3, <1>7 DEF ArenaInv
  <2>5. \A h \in a.regions : h.block # g.block
    BY <1>4, <1>5, <1>7
  <2>6. /\ g.start < g.end /\ g.block \in DOMAIN b.blocks /\ g.end <= b.blocks[g.block]
        /\ \A j \in DOMAIN a.blocks : j \in DOMAIN b.blocks /\ b.blocks[j] = a.blocks[j]
    BY <2>2, <1>6, <1>7
  <2>7. /\ b.current = 0 => b.remaining = 0
        /\ b.current # 0 => b.current \in DOMAIN b.blocks /\ b.ptr + b.remaining = b.blocks[b.current]
    BY <2>2, <2>6 DEF ArenaInv
  <2>8. \A h \in a.regions : h.block = g.block => h.end <= g.start
    BY <2>5, <1>7
  <2>9. ArenaInv(b)
    BY <2>2, <2>4, <2>6, <2>7, <2>8, <1>4, RegionAdded
  <2> QED BY <2>9, <1>1
<1>9. CASE ~(bytes > kBlockSize \div 4)
  <2>0. kBlockSize \in Nat /\ bytes <= kBlockSize /\ kBlockSize - bytes \in Nat
    <3>1. kBlockSize \in Nat
      BY MemTableAssumption
    <3>2. kBlockSize \div 4 \in Nat /\ kBlockSize \div 4 <= kBlockSize
      BY <3>1
    <3> QED BY <3>1, <3>2, <1>9
  <2>1. b = [blocks |-> Append(a.blocks, kBlockSize), current |-> i, ptr |-> bytes,
             remaining |-> kBlockSize - bytes, regions |-> a.regions \cup {g}]
    <3>1. PICK c : c = AllocateNewBlock(a, kBlockSize)
      OBVIOUS
    <3>2. c = [blocks |-> Append(a.blocks, kBlockSize), current |-> a.current, ptr |-> a.ptr,
               remaining |-> a.remaining, regions |-> a.regions]
      BY <3>1, <1>4 DEF AllocateNewBlock, ArenaType
    <3>3. PICK e : e = [c EXCEPT !.current = i, !.ptr = bytes, !.remaining = kBlockSize - bytes]
      OBVIOUS
    <3>4. e = [blocks |-> Append(a.blocks, kBlockSize), current |-> i, ptr |-> bytes,
               remaining |-> kBlockSize - bytes, regions |-> a.regions]
      BY <3>2, <3>3
    <3>5. e \in ArenaType
      BY <3>4, <2>0, <1>4, <1>6 DEF ArenaType
    <3>6. Len(c.blocks) = i
      BY <3>2, <2>0, <1>6
    <3>7. b = Region(e, i, 0, bytes)
      BY <3>1, <3>3, <3>6, <1>1, <1>9 DEF AllocateFallback
    <3>8. b = [blocks |-> e.blocks, current |-> e.current, ptr |-> e.ptr,
               remaining |-> e.remaining, regions |-> e.regions \cup {g}]
      <4>1. 0 + bytes = bytes
        OBVIOUS
      <4> QED BY <4>1, <3>5, <3>7, <1>3, RegionIs
    <3> QED BY <3>4, <3>8
  <2>2. /\ b \in ArenaType /\ b.blocks = Append(a.blocks, kBlockSize)
        /\ b.regions = a.regions \cup {g}
        /\ b.current = i /\ b.ptr = bytes /\ b.remaining = kBlockSize - bytes
    BY <2>0, <2>1, <1>4, <1>6 DEF ArenaType
  <2>5. \A h \in a.regions : h.block # i
    BY <1>4, <1>5
  <2>4. \A h \in b.regions : h.block = b.current => h.end <= b.ptr
    BY <2>2, <2>5, <1>7
  <2>6. /\ g.start < g.end /\ g.block \in DOMAIN b.blocks /\ g.end <= b.blocks[g.block]
        /\ \A j \in DOMAIN a.blocks : j \in DOMAIN b.blocks /\ b.blocks[j] = a.blocks[j]
    BY <2>0, <2>2, <1>6, <1>7
  <2>7. b.current # 0 /\ b.current \in DOMAIN b.blocks /\ b.ptr + b.remaining = b.blocks[b.current]
    BY <2>0, <2>2, <1>4, <1>6
  <2>8. \A h \in a.regions : h.block = g.block => h.end <= g.start
    BY <2>5, <1>7
  <2>9. ArenaInv(b)
    BY <2>2, <2>4, <2>6, <2>7, <2>8, <1>4, RegionAdded
  <2> QED BY <2>9, <1>1
<1> QED BY <1>8, <1>9

(* An allocation from the current block, after a gap that aligns it.       *)
LEMMA CurrentKeeps ==
    ASSUME NEW a, ArenaInv(a), NEW bytes \in Nat \ {0}, NEW slop \in Nat,
           bytes + slop <= a.remaining
    PROVE  ArenaInv(Region([a EXCEPT !.ptr = a.ptr + (bytes + slop),
                                     !.remaining = a.remaining - (bytes + slop)],
                           a.current, a.ptr + slop, bytes))
<1>0. PICK b : b = Region([a EXCEPT !.ptr = a.ptr + (bytes + slop),
                                    !.remaining = a.remaining - (bytes + slop)],
                          a.current, a.ptr + slop, bytes)
  OBVIOUS
<1>1. PICK g : g = [block |-> a.current, start |-> a.ptr + slop, end |-> a.ptr + slop + bytes]
  OBVIOUS
<1>2. a \in ArenaType /\ a.ptr \in Nat /\ a.remaining \in Nat /\ a.current \in Nat
      /\ a.remaining > 0 /\ a.current # 0 /\ a.blocks \in Seq(Nat)
  BY DEF ArenaInv, ArenaType
<1>3. a.current \in DOMAIN a.blocks /\ a.ptr + a.remaining = a.blocks[a.current]
  BY <1>2 DEF ArenaInv
<1>4. g \in RegionType /\ g.block = a.current /\ g.start = a.ptr + slop /\ g.end = a.ptr + slop + bytes
  BY <1>1, <1>2 DEF RegionType
<1>5. b = [blocks |-> a.blocks, current |-> a.current, ptr |-> a.ptr + (bytes + slop),
           remaining |-> a.remaining - (bytes + slop), regions |-> a.regions \cup {g}]
  <2>1. PICK c : c = [a EXCEPT !.ptr = a.ptr + (bytes + slop), !.remaining = a.remaining - (bytes + slop)]
    OBVIOUS
  <2>2. c = [blocks |-> a.blocks, current |-> a.current, ptr |-> a.ptr + (bytes + slop),
             remaining |-> a.remaining - (bytes + slop), regions |-> a.regions]
    BY <2>1, <1>2 DEF ArenaType
  <2>3. c \in ArenaType
    BY <2>2, <1>2 DEF ArenaType
  <2>4. b = [blocks |-> c.blocks, current |-> c.current, ptr |-> c.ptr,
             remaining |-> c.remaining, regions |-> c.regions \cup {g}]
    <3>1. b = Region(c, a.current, a.ptr + slop, bytes)
      BY <2>1, <1>0
    <3> QED BY <3>1, <2>3, <1>1, RegionIs
  <2> QED BY <2>2, <2>4
<1>a. b \in ArenaType
  BY <1>2, <1>4, <1>5 DEF ArenaType
<1>6. /\ b.blocks = a.blocks /\ b.regions = a.regions \cup {g}
      /\ b.current = a.current /\ b.ptr = a.ptr + (bytes + slop)
      /\ b.remaining = a.remaining - (bytes + slop)
  BY <1>5
<1>7. \A h \in a.regions : h \in RegionType /\ (h.block = a.current => h.end <= a.ptr)
  BY DEF ArenaInv, ArenaType
<1>8. \A h \in a.regions : h.block = g.block => h.end <= g.start
  BY <1>2, <1>4, <1>7 DEF RegionType
<1>9. \A h \in b.regions : h.block = b.current => h.end <= b.ptr
  BY <1>2, <1>4, <1>6, <1>7 DEF RegionType
<1>10. g.start < g.end /\ g.block \in DOMAIN b.blocks /\ g.end <= b.blocks[g.block]
  BY <1>2, <1>3, <1>4, <1>6
<1>11. b.ptr + b.remaining = b.blocks[b.current]
  BY <1>2, <1>3, <1>6
<1>12. ArenaInv(b)
  BY <1>a, <1>2, <1>3, <1>4, <1>6, <1>8, <1>9, <1>10, <1>11, RegionAdded
<1> QED BY <1>0, <1>12

(* Arena::Allocate.                                                        *)
LEMMA AllocateKeeps ==
    ASSUME NEW a, ArenaInv(a), NEW bytes \in Nat \ {0}
    PROVE  ArenaInv(Allocate(a, bytes))
<1>1. CASE bytes <= a.remaining
  <2>1. a.ptr \in Nat /\ bytes + 0 = bytes /\ a.ptr + 0 = a.ptr
    BY DEF ArenaInv, ArenaType
  <2>2. Allocate(a, bytes) = Region([a EXCEPT !.ptr = a.ptr + (bytes + 0),
                                              !.remaining = a.remaining - (bytes + 0)],
                                    a.current, a.ptr + 0, bytes)
    BY <1>1, <2>1 DEF Allocate
  <2> QED BY <1>1, <2>1, <2>2, CurrentKeeps
<1>2. CASE ~(bytes <= a.remaining)
  BY <1>2, FallbackKeeps DEF Allocate
<1> QED BY <1>1, <1>2

(* Arena::AllocateAligned counts the slop against the block.               *)
LEMMA AllocateAlignedKeeps ==
    ASSUME NEW a, ArenaInv(a), NEW bytes \in Nat \ {0}
    PROVE  ArenaInv(AllocateAligned(a, bytes))
<1>1. PICK slop : slop = a.ptr % 2
  OBVIOUS
<1>2. slop \in Nat
  BY <1>1 DEF ArenaInv, ArenaType
<1>3. CASE bytes + slop <= a.remaining
  BY <1>1, <1>2, <1>3, CurrentKeeps DEF AllocateAligned
<1>4. CASE ~(bytes + slop <= a.remaining)
  BY <1>1, <1>4, FallbackKeeps DEF AllocateAligned
<1> QED BY <1>3, <1>4

(* The arena gives out no byte twice and none outside its blocks.          *)
THEOREM RegionsDisjointHolds == Spec => []RegionsDisjoint
<1>0. ASSUME NEW h \in 1..kMaxHeight PROVE 2 + 2 * (h - 1) \in Nat \ {0}
  BY MemTableAssumption
<1>1. Init => ArenaInv(arena)
  <2>1. ArenaInv(NewArena)
    BY DEF NewArena, ArenaInv, ArenaType
  <2>2. kMaxHeight \in 1..kMaxHeight
    BY MemTableAssumption
  <2> QED BY <1>0, <2>1, <2>2, AllocateAlignedKeeps DEF Init, NewNode
<1>2. ArenaInv(arena) /\ [Next]_vars => ArenaInv(arena)'
  <2> SUFFICES ASSUME ArenaInv(arena), [Next]_vars PROVE ArenaInv(arena')
    BY DEF ArenaInv
  <2>1. CASE \E k \in Keys : Add(k)
    BY <2>1, AllocateKeeps, MemTableAssumption DEF Add
  <2>2. CASE \E height \in 1..kMaxHeight : RaiseHeight(height)
    BY <2>2, <1>0, AllocateAlignedKeeps DEF RaiseHeight, NewNode
  <2>3. CASE UNCHANGED arena
    BY <2>3
  <2> QED BY <2>1, <2>2, <2>3 DEF Next, vars, list_vars, FindGreaterOrEqual, Link, Publish, Flushed,
              Ref, Unref, SearchRound, Get, Seek, SeekToFirst, SeekToLast, NextEntry, Prev, Search, Move
<1>3. ArenaInv(arena) => RegionsDisjoint
  BY DEF ArenaInv, RegionsDisjoint
<1> QED BY <1>1, <1>2, <1>3, PTL DEF Spec
=============================================================================
