------------------------- MODULE NativeObjectProofs -------------------------
(***************************************************************************)
(* The reference counts of the Java wrappers are exact, for any number of  *)
(* threads, iterators, snapshots, batches and calls: a wrapper's count is  *)
(* the number of those that hold it.  From this follow that no native      *)
(* object is used after it was deleted, that none leaks, and that          *)
(* destroy() is not lost.                                                  *)
(*                                                                         *)
(* The callers' rule that a database is opened once (MaxOpens <= 1) is a   *)
(* hypothesis: a second open() starts with a count of 0.                   *)
(***************************************************************************)
EXTENDS NativeObject, FiniteSetTheorems, TLAPS

Steps == {"no", "native", "destroy", "snapshot", "db", "clear"}
Pcs == {"idle", "ref", "snapref", "read", "native", "destroy"}

(* The types of the variables that the arguments below use.                *)
WrapperTypes ==
    /\ mPtr \in [Objects -> {0, 1}]
    /\ mRefCount \in [Objects -> Nat]
    /\ monitor \in [Objects -> Threads \cup {None}]
    /\ closing \in [Objects -> Steps]
    /\ stack \in [Threads -> Seq(Objects)]
    /\ pc \in [Threads -> Pcs]
    /\ cur \in [Threads -> Calls \cup {NoCall}]
    /\ snapOf \in [Iters -> Snaps \cup {None}]
    /\ home \in [Objects -> {0, 1}]
    /\ used \in [Threads -> SUBSET (Objects \X {0, 1})]
    /\ live \subseteq Objects \X {1}
    /\ made \subseteq Objects
    /\ closed \subseteq made
    /\ opens \in {0, 1}

(* What a thread that is inside a call knows: its wrapper and its argument *)
(* are open, since nobody closes what is in use, and no other thread makes *)
(* the same wrapper.                                                       *)
CallOk(h) ==
    /\ pc[h] \in {"idle", "destroy"} <=> cur[h] = NoCall
    /\ cur[h] # NoCall => /\ cur[h].obj \in made \ closed
                          /\ cur[h].arg # None => cur[h].arg \in made \ closed
                          /\ cur[h].obj = Db => opens = 1
                          /\ cur[h].new \notin made
    /\ pc[h] \in {"ref", "snapref"} => cur[h].op = "make"
    /\ pc[h] = "snapref" => cur[h].arg # None
    /\ \A k \in Threads : k # h /\ cur[k].new # None => cur[k].new # cur[h].new

(* What a thread in native code works on.                                  *)
Working(c) ==
    {<<c.obj, 1>>} \cup (IF c.obj \in Iters THEN {<<Db, 1>>} ELSE {})
    \cup (IF c.arg # None THEN {<<c.arg, 1>>} ELSE {})

CallInv ==
    \A h \in Threads : CallOk(h) /\ (pc[h] = "native" => used[h] = Working(cur[h]))

(* A wrapper that is not made, or before open(), has nothing.              *)
UnmadeInv ==
    /\ Db \in made
    /\ \A o \in Objects \ made : mRefCount[o] = 0 /\ closing[o] = "no" /\ mPtr[o] = 0
    /\ \A i \in Iters : (i \notin made => snapOf[i] = None)
                     /\ (snapOf[i] # None => snapOf[i] \in made)
    /\ opens = 0 => mPtr[Db] = 0 /\ Db \notin closed /\ closing[Db] = "no"
                    /\ made \cap (Iters \cup Snaps) = {}

(* A wrapper in closeNativeObject() is in some thread's stack, its monitor *)
(* is held, its count is 0 and its pointer is still set; it is at a step   *)
(* of its own class.                                                       *)
ClosingInv ==
    \A o \in Objects :
      /\ monitor[o] = None <=> closing[o] = "no"
      /\ closing[o] # "no" =>
           /\ mRefCount[o] = 0 /\ mPtr[o] = 1
           /\ \E h \in Threads : \E j \in 1..Len(stack[h]) : stack[h][j] = o
      /\ closing[o] = "destroy" => o = Db
      /\ closing[o] = "snapshot" => o \in Iters /\ snapOf[o] # None
      /\ closing[o] = "db" => o \in Iters \cup Snaps

(* A pointer is set while there are references, and the native object      *)
(* exists until closeNativeObject() deletes it.                            *)
LiveInv ==
    /\ \A o \in made : mRefCount[o] > 0 /\ (o = Db => opens = 1) => mPtr[o] = 1
    /\ \A o \in made : mPtr[o] = 1 /\ closing[o] = "no" => mRefCount[o] > 0
    /\ \A o \in Objects :
         <<o, 1>> \in live <=> mPtr[o] = 1 /\ (mRefCount[o] > 0 \/ closing[o] = "native")
    /\ \A i \in Iters \cap made : home[i] = 1

(* The iterators and snapshots that hold a reference to the database, and  *)
(* the iterators that hold one to a snapshot: open ones, ones that close   *)
(* and have not come to the release, and ones that are being made.         *)
HoldsDb(o) ==
    \/ mRefCount[o] > 0
    \/ closing[o] \in {"native", "snapshot", "db"}
    \/ \E h \in Threads : cur[h].new = o /\ pc[h] \in {"snapref", "read", "native"}
HoldsSnapshot(i, s) ==
    \/ snapOf[i] = s /\ (mRefCount[i] > 0 \/ closing[i] \in {"native", "snapshot"})
    \/ \E h \in Threads : cur[h].new = i /\ cur[h].arg = s /\ pc[h] \in {"read", "native"}

(* Who holds a reference to x; the wrapper itself does until it is closed. *)
Holders(x) ==
    {o \in {x} \cup Iters \cup Snaps :
       \/ o = x /\ x \in made \ closed
       \/ x = Db /\ o \in Iters \cup Snaps /\ HoldsDb(o)
       \/ x \in Snaps /\ o \in Iters /\ HoldsSnapshot(o, x)}

CountInv == \A x \in Objects : mRefCount[x] = Cardinality(Holders(x))

(* destroy() is done, or will be: by the last close(), which has not come  *)
(* to the flag, or by the thread that set it.                              *)
DestroyInv ==
    mDestroyOnClose =>
      \/ gone \/ <<Db, 1>> \in live \/ closing[Db] = "destroy"
      \/ \E h \in Threads : pc[h] = "destroy"

RefsInv ==
    /\ WrapperTypes /\ CallInv /\ UnmadeInv /\ ClosingInv /\ LiveInv /\ CountInv
    /\ misused = {}

-----------------------------------------------------------------------------
(* The wrappers are of four disjoint classes, and none of them is None.    *)
LEMMA ObjectFacts ==
    /\ Db \in Objects /\ Iters \subseteq Objects /\ Snaps \subseteq Objects
    /\ Batches \subseteq Objects /\ None \notin Objects
    /\ \A o \in Objects : o = Db \/ o \in Iters \/ o \in Snaps \/ o \in Batches
    /\ Db \notin Iters /\ Db \notin Snaps /\ Db \notin Batches
    /\ \A o \in Iters : o \notin Snaps /\ o \notin Batches
    /\ \A o \in Snaps : o \notin Batches
BY WrappersAssumption DEF Objects

(* What Calls says of a call, field by field.                              *)
LEMMA CallFacts ==
    ASSUME NEW c \in Calls
    PROVE  /\ c # NoCall
           /\ c = [op |-> c.op, obj |-> c.obj, arg |-> c.arg, new |-> c.new]
           /\ c.op \in {"call", "make"}
           /\ c.obj \in Objects /\ c.obj \notin Snaps
           /\ c.arg # None => c.arg \in Snaps \cup Batches /\ c.obj = Db
           /\ c.new # None => c.new \in Iters \cup Snaps
           /\ c.op = "make" <=> c.new # None
           /\ c.op = "make" => c.obj = Db /\ (c.arg # None => c.arg \in Snaps /\ c.new \in Iters)
<1>1. CASE c \in BatchCalls
  BY <1>1, ObjectFacts DEF BatchCalls, NoCall
<1>2. CASE c \in [op : {"call"}, obj : {Db}, arg : Snaps \cup Batches \cup {None}, new : {None}]
  BY <1>2, ObjectFacts DEF NoCall
<1>3. CASE c \in [op : {"call"}, obj : Iters, arg : {None}, new : {None}]
  BY <1>3, ObjectFacts DEF NoCall
<1>4. CASE c \in [op : {"make"}, obj : {Db}, arg : Snaps \cup {None}, new : Iters]
  BY <1>4, ObjectFacts DEF NoCall
<1>5. CASE c \in [op : {"make"}, obj : {Db}, arg : {None}, new : Snaps]
  BY <1>5, ObjectFacts DEF NoCall
<1>6. QED BY <1>1, <1>2, <1>3, <1>4, <1>5 DEF Calls

(* NoCall names no wrapper.                                                *)
LEMMA NoCallFacts ==
    /\ NoCall.obj = None /\ NoCall.arg = None /\ NoCall.new = None /\ NoCall.op = None
    /\ NoCall \notin Calls
BY CallFacts DEF NoCall

(* A wrapper has finitely many holders.                                    *)
LEMMA HoldersFinite == \A x : IsFiniteSet(Holders(x))
<1> TAKE x
<1>1. IsFiniteSet(Iters) /\ IsFiniteSet(Snaps) BY WrappersAssumption
<1>2. IsFiniteSet(Iters \cup Snaps) BY <1>1, FS_Union
<1>3. IsFiniteSet({x} \cup (Iters \cup Snaps)) BY <1>2, FS_Singleton, FS_Union
<1>4. Holders(x) \subseteq {x} \cup (Iters \cup Snaps) BY DEF Holders
<1>5. QED BY <1>3, <1>4, FS_Subset

(* A wrapper that somebody holds has a positive count, and the other way.  *)
LEMMA CountPositive ==
    ASSUME CountInv, NEW x \in Objects
    PROVE  /\ mRefCount[x] \in Nat
           /\ mRefCount[x] > 0 <=> Holders(x) # {}
<1>1. mRefCount[x] = Cardinality(Holders(x)) BY DEF CountInv
<1>2. IsFiniteSet(Holders(x)) BY HoldersFinite
<1>3. Cardinality(Holders(x)) \in Nat BY <1>2, FS_CardinalityType
<1>4. Cardinality(Holders(x)) = 0 <=> Holders(x) = {} BY <1>2, FS_EmptySet
<1>5. QED BY <1>1, <1>3, <1>4

(* The counts stay exact when nobody takes or releases a reference, when   *)
(* one wrapper gets a new holder, and when one loses one.                  *)
LEMMA CountSame ==
    ASSUME CountInv, mRefCount' = mRefCount,
           \A y \in Objects : Holders(y)' = Holders(y)
    PROVE  CountInv'
BY DEF CountInv

LEMMA CountAdds ==
    ASSUME CountInv, mRefCount \in [Objects -> Nat], NEW x \in Objects, NEW a,
           a \notin Holders(x),
           mRefCount' = [mRefCount EXCEPT ![x] = mRefCount[x] + 1],
           Holders(x)' = Holders(x) \cup {a},
           \A y \in Objects : y # x => Holders(y)' = Holders(y)
    PROVE  CountInv'
<1>1. IsFiniteSet(Holders(x)) BY HoldersFinite
<1>2. Cardinality(Holders(x) \cup {a}) = Cardinality(Holders(x)) + 1 BY <1>1, FS_AddElement
<1>3. mRefCount'[x] = Cardinality(Holders(x)') BY <1>2 DEF CountInv
<1>4. \A y \in Objects : y # x => mRefCount'[y] = Cardinality(Holders(y)') BY DEF CountInv
<1>5. QED BY <1>3, <1>4 DEF CountInv

LEMMA CountDrops ==
    ASSUME CountInv, mRefCount \in [Objects -> Nat], NEW x \in Objects, NEW a,
           a \in Holders(x),
           mRefCount' = [mRefCount EXCEPT ![x] = mRefCount[x] - 1],
           Holders(x)' = Holders(x) \ {a},
           \A y \in Objects : y # x => Holders(y)' = Holders(y)
    PROVE  CountInv'
<1>1. IsFiniteSet(Holders(x)) BY HoldersFinite
<1>2. Cardinality(Holders(x) \ {a}) = Cardinality(Holders(x)) - 1 BY <1>1, FS_RemoveElement
<1>3. mRefCount'[x] = Cardinality(Holders(x)') BY <1>2 DEF CountInv
<1>4. \A y \in Objects : y # x => mRefCount'[y] = Cardinality(Holders(y)') BY DEF CountInv
<1>5. QED BY <1>3, <1>4 DEF CountInv

-----------------------------------------------------------------------------
(* What follows from the counts.  An open wrapper has a count, a pointer   *)
(* and a native object.                                                    *)
LEMMA OpenFacts ==
    ASSUME RefsInv, NEW o \in made \ closed
    PROVE  /\ mRefCount[o] \in Nat /\ mRefCount[o] > 0 /\ closing[o] = "no" /\ monitor[o] = None
           /\ (o = Db => opens = 1) => mPtr[o] = 1 /\ <<o, 1>> \in live
<1>1. o \in Objects BY DEF RefsInv, WrapperTypes
<1>2. o \in Holders(o) BY DEF Holders
<1>3. mRefCount[o] \in Nat /\ mRefCount[o] > 0 BY <1>1, <1>2, CountPositive DEF RefsInv
<1>4. closing[o] = "no" /\ monitor[o] = None BY <1>1, <1>3 DEF RefsInv, ClosingInv
<1>5. QED BY <1>1, <1>3, <1>4 DEF RefsInv, LiveInv

(* The database of an iterator or a snapshot that holds it is open.        *)
LEMMA DbIsHeld ==
    ASSUME RefsInv, NEW o \in Iters \cup Snaps, HoldsDb(o)
    PROVE  /\ opens = 1 /\ mRefCount[Db] \in Nat /\ mRefCount[Db] > 0
           /\ closing[Db] = "no" /\ mPtr[Db] = 1 /\ <<Db, 1>> \in live
<1>1. Db \in Objects /\ Db \in made BY ObjectFacts DEF RefsInv, UnmadeInv
<1>2. o \in Holders(Db) BY DEF Holders
<1>3. mRefCount[Db] \in Nat /\ mRefCount[Db] > 0 BY <1>1, <1>2, CountPositive DEF RefsInv
<1>4. closing[Db] = "no" BY <1>1, <1>3 DEF RefsInv, ClosingInv
<1>5. opens = 1
  <2>1. CASE o \in made
    BY <2>1 DEF RefsInv, UnmadeInv, WrapperTypes
  <2>2. CASE o \notin made
    <3>1. o \in Objects \ made BY <2>2, ObjectFacts
    <3>2. mRefCount[o] = 0 /\ closing[o] = "no" BY <3>1 DEF RefsInv, UnmadeInv
    <3>3. PICK h \in Threads : cur[h].new = o /\ pc[h] \in {"snapref", "read", "native"}
      BY <3>2 DEF HoldsDb
    <3>4. cur[h] # NoCall BY <3>3, NoCallFacts, ObjectFacts
    <3>5. cur[h] \in Calls BY <3>4 DEF RefsInv, WrapperTypes
    <3>6. cur[h].obj = Db BY <3>5, <3>3, CallFacts, ObjectFacts
    <3>7. QED BY <3>4, <3>6 DEF RefsInv, CallInv, CallOk
  <2>3. QED BY <2>1, <2>2
<1>6. QED BY <1>1, <1>3, <1>4, <1>5 DEF RefsInv, LiveInv

(* The snapshot of an iterator that holds it has a count.                  *)
LEMMA SnapshotIsHeld ==
    ASSUME RefsInv, NEW i \in Iters, NEW s \in Snaps, HoldsSnapshot(i, s)
    PROVE  mRefCount[s] \in Nat /\ mRefCount[s] > 0 /\ closing[s] = "no"
<1>1. s \in Objects BY ObjectFacts
<1>2. i \in Holders(s) BY DEF Holders
<1>3. mRefCount[s] \in Nat /\ mRefCount[s] > 0 BY <1>1, <1>2, CountPositive DEF RefsInv
<1>4. QED BY <1>1, <1>3 DEF RefsInv, ClosingInv

(* A thread inside a call: its wrapper, its argument and the database have *)
(* native objects.                                                         *)
LEMMA InCall ==
    ASSUME RefsInv, NEW h \in Threads, cur[h] # NoCall
    PROVE  /\ cur[h] \in Calls
           /\ mPtr[cur[h].obj] = 1 /\ <<cur[h].obj, 1>> \in live
           /\ cur[h].arg # None => mPtr[cur[h].arg] = 1 /\ <<cur[h].arg, 1>> \in live
           /\ cur[h].obj \in Iters => home[cur[h].obj] = 1 /\ <<Db, 1>> \in live
<1>1. cur[h] \in Calls BY DEF RefsInv, WrapperTypes
<1>2. cur[h].obj \in made \ closed /\ (cur[h].arg # None => cur[h].arg \in made \ closed)
      /\ (cur[h].obj = Db => opens = 1)
  BY DEF RefsInv, CallInv, CallOk
<1>3. mPtr[cur[h].obj] = 1 /\ <<cur[h].obj, 1>> \in live /\ mRefCount[cur[h].obj] > 0
  BY <1>2, OpenFacts
<1>4. cur[h].arg # None => mPtr[cur[h].arg] = 1 /\ <<cur[h].arg, 1>> \in live
  <2>1. SUFFICES ASSUME cur[h].arg # None
                 PROVE  mPtr[cur[h].arg] = 1 /\ <<cur[h].arg, 1>> \in live
    OBVIOUS
  <2>2. cur[h].arg \in made \ closed BY <2>1, <1>2
  <2>3. cur[h].arg # Db BY <2>1, <1>1, CallFacts, ObjectFacts
  <2>4. QED BY <2>2, <2>3, OpenFacts
<1>5. cur[h].obj \in Iters => home[cur[h].obj] = 1 /\ <<Db, 1>> \in live
  <2>1. SUFFICES ASSUME cur[h].obj \in Iters PROVE home[cur[h].obj] = 1 /\ <<Db, 1>> \in live
    OBVIOUS
  <2>2. HoldsDb(cur[h].obj) BY <1>3 DEF HoldsDb
  <2>3. <<Db, 1>> \in live BY <2>1, <2>2, DbIsHeld
  <2>4. QED BY <1>2, <2>1, <2>3 DEF RefsInv, LiveInv
<1>6. QED BY <1>1, <1>3, <1>4, <1>5

(* The holders of every wrapper stay the same when these relations do.     *)
LEMMA HoldersSame ==
    ASSUME made' \ closed' = made \ closed,
           \A o \in Iters \cup Snaps : HoldsDb(o)' <=> HoldsDb(o),
           \A i \in Iters, s \in Snaps : HoldsSnapshot(i, s)' <=> HoldsSnapshot(i, s)
    PROVE  \A y \in Objects : Holders(y)' = Holders(y)
BY DEF Holders
-----------------------------------------------------------------------------
(* The first state.                                                        *)
LEMMA RefsInit == Init => RefsInv /\ DestroyInv
<1> SUFFICES ASSUME Init PROVE RefsInv /\ DestroyInv OBVIOUS
<1> USE DEF Init
<1>1. WrapperTypes
  BY ObjectFacts DEF WrapperTypes, Steps, Pcs
<1>2. CallInv
  BY NoCallFacts DEF CallInv, CallOk
<1>3. UnmadeInv
  BY ObjectFacts DEF UnmadeInv
<1>4. ClosingInv
  BY ObjectFacts DEF ClosingInv
<1>5. LiveInv
  BY ObjectFacts DEF LiveInv
<1>6. CountInv
  <2>1. Holders(Db) = {Db}
    BY ObjectFacts, NoCallFacts DEF Holders, HoldsDb
  <2>2. \A x \in Objects : x # Db => Holders(x) = {}
    BY ObjectFacts, NoCallFacts DEF Holders, HoldsSnapshot
  <2>3. Cardinality(Holders(Db)) = 1 BY <2>1, FS_Singleton
  <2>4. \A x \in Objects : x # Db => Cardinality(Holders(x)) = 0 BY <2>2, FS_EmptySet
  <2>5. QED BY <2>3, <2>4 DEF CountInv
<1>7. DestroyInv BY DEF DestroyInv
<1>8. QED BY <1>1, <1>2, <1>3, <1>4, <1>5, <1>6, <1>7 DEF RefsInv

-----------------------------------------------------------------------------
(* One lemma per action, in the order of the module.                       *)
LEMMA OpenRefs ==
    ASSUME RefsInv, MaxOpens <= 1, NEW h \in Threads, Open(h)
    PROVE  RefsInv'
<1> USE DEF Open
<1>1. opens = 0 /\ opens' = 1 BY WrappersAssumption DEF RefsInv, WrapperTypes
<1>2. Db \in made \ closed /\ closed' = closed /\ made' = made /\ closing[Db] = "no"
  BY <1>1 DEF RefsInv, UnmadeInv
<1>3. mRefCount[Db] > 0 BY <1>2, OpenFacts
<1>4. mPtr' = [mPtr EXCEPT ![Db] = 1] /\ live' = live \cup {<<Db, 1>>} BY <1>1
<1>5. WrapperTypes' BY <1>1, <1>2, <1>4, ObjectFacts DEF RefsInv, WrapperTypes
<1>6. CallInv' BY <1>1, <1>2 DEF RefsInv, CallInv, CallOk
<1>7. UnmadeInv' BY <1>1, <1>2, <1>4 DEF RefsInv, UnmadeInv, WrapperTypes
<1>8. ClosingInv' BY <1>2, <1>4 DEF RefsInv, ClosingInv, WrapperTypes
<1>9. LiveInv' BY <1>1, <1>2, <1>3, <1>4, ObjectFacts DEF RefsInv, LiveInv, WrapperTypes
<1>10. CountInv'
  <2>1. \A y \in Objects : Holders(y)' = Holders(y)
    BY <1>2 DEF Holders, HoldsDb, HoldsSnapshot
  <2>2. QED BY <2>1, CountSame DEF RefsInv
<1>11. QED BY <1>5, <1>6, <1>7, <1>8, <1>9, <1>10 DEF RefsInv

LEMMA NewBatchRefs ==
    ASSUME RefsInv, NEW h \in Threads, NEW b \in Batches, NewBatch(h, b)
    PROVE  RefsInv'
<1> USE DEF NewBatch
<1>1. b \in Objects /\ b # Db /\ b \notin Iters \cup Snaps BY ObjectFacts
<1>2. mRefCount[b] = 0 /\ closing[b] = "no" /\ mPtr[b] = 0 /\ b \notin closed
  BY <1>1 DEF RefsInv, UnmadeInv, WrapperTypes
<1>3. \A k \in Threads : cur[k].new # b
  <2> TAKE k \in Threads
  <2>1. cur[k] \in Calls \cup {NoCall} BY DEF RefsInv, WrapperTypes
  <2>2. cur[k] \in Calls => cur[k].new = None \/ cur[k].new \in Iters \cup Snaps BY CallFacts
  <2>3. QED BY <1>1, <2>1, <2>2, NoCallFacts, ObjectFacts
<1>4. WrapperTypes' BY <1>1 DEF RefsInv, WrapperTypes
<1>5. CallInv' BY <1>3 DEF RefsInv, CallInv, CallOk
<1>6. UnmadeInv' BY <1>1, ObjectFacts DEF RefsInv, UnmadeInv, WrapperTypes
<1>7. ClosingInv' BY <1>1, <1>2 DEF RefsInv, ClosingInv, WrapperTypes
<1>8. LiveInv'
  <2>1. \A o \in Objects : o # b => /\ mRefCount'[o] = mRefCount[o] /\ mPtr'[o] = mPtr[o]
                                    /\ <<o, 1>> \in live' <=> <<o, 1>> \in live
    BY DEF RefsInv, WrapperTypes
  <2>2. mRefCount'[b] = 1 /\ mPtr'[b] = 1 /\ <<b, 1>> \in live' BY <1>1 DEF RefsInv, WrapperTypes
  <2>3. QED BY <1>1, <2>1, <2>2 DEF RefsInv, LiveInv, WrapperTypes
<1>9. CountInv'
  <2>1. \A o \in Iters \cup Snaps : HoldsDb(o)' <=> HoldsDb(o)
    BY <1>1, ObjectFacts DEF RefsInv, WrapperTypes, HoldsDb
  <2>2. \A i \in Iters, s \in Snaps : HoldsSnapshot(i, s)' <=> HoldsSnapshot(i, s)
    BY <1>1, ObjectFacts DEF RefsInv, WrapperTypes, HoldsSnapshot
  <2>3. Holders(b) = {} BY <1>1, ObjectFacts DEF Holders
  <2>4. Holders(b)' = Holders(b) \cup {b} BY <1>1, <1>2, <2>3, ObjectFacts DEF Holders
  <2>5. \A y \in Objects : y # b => Holders(y)' = Holders(y) BY <2>1, <2>2 DEF Holders
  <2>6. mRefCount' = [mRefCount EXCEPT ![b] = mRefCount[b] + 1] BY <1>2
  <2>7. QED BY <1>1, <2>3, <2>4, <2>5, <2>6, CountAdds DEF RefsInv, WrapperTypes
<1>10. QED BY <1>4, <1>5, <1>6, <1>7, <1>8, <1>9 DEF RefsInv

LEMMA AssertOpenRefs ==
    ASSUME RefsInv, NEW h \in Threads, NEW c \in Calls, AssertOpen(h, c)
    PROVE  RefsInv'
<1> USE DEF AssertOpen, Goto, Idle
<1> DEFINE p == IF c.op = "make" THEN "ref" ELSE "read"
<1>1. /\ pc[h] = "idle" /\ cur[h] = NoCall /\ c # NoCall
      /\ pc' = [pc EXCEPT ![h] = p] /\ cur' = [cur EXCEPT ![h] = c]
  BY CallFacts DEF RefsInv, CallInv, CallOk
<1>2. c.obj \in made \ closed /\ (c.arg # None => c.arg \in made \ closed) /\ c.new \notin made
  BY CallFacts, ObjectFacts DEF RefsInv, WrapperTypes
<1>3. c.obj = Db => opens = 1 BY DEF RefsInv, UnmadeInv, WrapperTypes
<1>4. WrapperTypes' BY <1>1 DEF RefsInv, WrapperTypes, Pcs
<1>5. CallInv'
  <2> SUFFICES ASSUME NEW k \in Threads
               PROVE  CallOk(k)' /\ (pc'[k] = "native" => used'[k] = Working(cur'[k]))
    BY DEF CallInv
  <2>1. CASE k = h
    <3>1. pc'[k] = p /\ cur'[k] = c BY <1>1, <2>1 DEF RefsInv, WrapperTypes
    <3>2. \A j \in Threads : j # k /\ cur'[j].new # None => cur'[j].new # c.new
      BY <1>1, <2>1 DEF RefsInv, WrapperTypes
    <3>3. QED BY <1>1, <1>2, <1>3, <3>1, <3>2 DEF CallOk
  <2>2. CASE k # h
    <3>1. pc'[k] = pc[k] /\ cur'[k] = cur[k] BY <1>1, <2>2 DEF RefsInv, WrapperTypes
    <3>2. \A j \in Threads : j # k /\ cur'[j].new # None => cur'[j].new # cur[k].new
      BY <1>1, <2>2 DEF RefsInv, WrapperTypes, CallInv, CallOk
    <3>3. QED BY <3>1, <3>2 DEF RefsInv, CallInv, CallOk
  <2>3. QED BY <2>1, <2>2
<1>6. UnmadeInv' BY DEF RefsInv, UnmadeInv
<1>7. ClosingInv' BY DEF RefsInv, ClosingInv
<1>8. LiveInv' BY DEF RefsInv, LiveInv
<1>9. CountInv'
  <2>1. \A k \in Threads : k # h => cur'[k] = cur[k] /\ pc'[k] = pc[k]
    BY <1>1 DEF RefsInv, WrapperTypes
  <2>2. cur'[h] = c /\ pc'[h] = p BY <1>1 DEF RefsInv, WrapperTypes
  <2>3. c.new = None \/ p = "ref" BY CallFacts
  <2>4. \A o \in Iters \cup Snaps : HoldsDb(o)' <=> HoldsDb(o)
    BY <1>1, <2>1, <2>2, <2>3, ObjectFacts DEF HoldsDb
  <2>5. \A i \in Iters, s \in Snaps : HoldsSnapshot(i, s)' <=> HoldsSnapshot(i, s)
    BY <1>1, <2>1, <2>2, <2>3, ObjectFacts DEF HoldsSnapshot
  <2>6. QED BY <2>4, <2>5, HoldersSame, CountSame DEF RefsInv
<1>10. QED BY <1>4, <1>5, <1>6, <1>7, <1>8, <1>9 DEF RefsInv

(* A thread that goes on within its call leaves CallOk to the others.      *)
LEMMA CallGoesOn ==
    ASSUME RefsInv, NEW h \in Threads, NEW p, cur' = cur, made' = made, closed' = closed,
           opens' = opens, pc' = [pc EXCEPT ![h] = p], cur[h] # NoCall,
           p \in {"snapref", "read", "native"}, p = "snapref" => cur[h].arg # None /\ pc[h] = "ref"
    PROVE  \A k \in Threads : CallOk(k)'
<1> SUFFICES ASSUME NEW k \in Threads PROVE CallOk(k)' OBVIOUS
<1>1. CallOk(k) BY DEF RefsInv, CallInv
<1>2. CASE k = h
  <2>1. pc'[k] = p BY <1>2 DEF RefsInv, WrapperTypes
  <2>2. QED BY <1>1, <1>2, <2>1 DEF CallOk
<1>3. CASE k # h
  <2>1. pc'[k] = pc[k] BY <1>3 DEF RefsInv, WrapperTypes
  <2>2. QED BY <1>1, <1>3, <2>1 DEF CallOk
<1>4. QED BY <1>2, <1>3

LEMMA RefRefs ==
    ASSUME RefsInv, NEW h \in Threads, Ref(h)
    PROVE  RefsInv'
<1> USE DEF Ref, Goto
<1> DEFINE p == IF cur[h].arg # None THEN "snapref" ELSE "read"
           n == cur[h].new
<1>1. pc[h] = "ref" /\ pc' = [pc EXCEPT ![h] = p] /\ cur' = cur BY DEF Ref
<1>2. cur[h] # NoCall /\ cur[h] \in Calls /\ cur[h].op = "make"
  <2>1. cur[h] \in Calls \cup {NoCall} /\ CallOk(h) BY DEF RefsInv, CallInv, WrapperTypes
  <2>2. QED BY <1>1, <2>1 DEF CallOk
<1>3. n \in Iters \cup Snaps /\ n \in Objects \ made /\ cur[h].obj = Db
      /\ (cur[h].arg # None => n \in Iters)
  BY <1>2, CallFacts, ObjectFacts DEF RefsInv, CallInv, CallOk
<1>4. Db \in Objects /\ Db \in made \ closed BY <1>2, <1>3, ObjectFacts DEF RefsInv, CallInv, CallOk
<1>5. mRefCount[Db] > 0 /\ mRefCount[Db] \in Nat /\ closing[Db] = "no" BY <1>4, OpenFacts
<1>6. mRefCount[n] = 0 /\ closing[n] = "no" BY <1>3 DEF RefsInv, UnmadeInv
<1>7. \A k \in Threads : k # h => cur[k].new # n
  BY <1>3, ObjectFacts DEF RefsInv, CallInv, CallOk
<1>8. mRefCount' = [mRefCount EXCEPT ![Db] = mRefCount[Db] + 1] BY DEF Ref
<1>9. mRefCount'[Db] > 0 /\ \A o \in Objects : o # Db => mRefCount'[o] = mRefCount[o]
  BY <1>4, <1>5, <1>8 DEF RefsInv, WrapperTypes
<1>10. WrapperTypes'
  <2>1. mRefCount \in [Objects -> Nat] BY DEF RefsInv, WrapperTypes
  <2>2. mRefCount[Db] + 1 \in Nat BY <1>5
  <2>3. mRefCount' \in [Objects -> Nat] BY <1>8, <2>1, <2>2
  <2>4. pc' \in [Threads -> Pcs] BY <1>1 DEF RefsInv, WrapperTypes, Pcs
  <2>5. QED BY <2>3, <2>4 DEF RefsInv, WrapperTypes
<1>11. CallInv'
  <2>1. \A k \in Threads : CallOk(k)' BY <1>1, <1>2, CallGoesOn
  <2>2. \A k \in Threads : pc'[k] = "native" => pc[k] = "native" BY <1>1 DEF RefsInv, WrapperTypes
  <2>3. QED BY <2>1, <2>2 DEF RefsInv, CallInv
<1>12. UnmadeInv' BY <1>4, <1>9 DEF RefsInv, UnmadeInv
<1>13. ClosingInv' BY <1>5, <1>9 DEF RefsInv, ClosingInv
<1>14. LiveInv' BY <1>4, <1>5, <1>9 DEF RefsInv, LiveInv, WrapperTypes
<1>15. CountInv'
  <2>1. pc'[h] = p /\ \A k \in Threads : k # h => pc'[k] = pc[k]
    BY <1>1 DEF RefsInv, WrapperTypes
  <2>2. HoldsDb(n)' BY <1>1, <2>1 DEF HoldsDb
  <2>3. ~HoldsDb(n) BY <1>1, <1>6, <1>7 DEF HoldsDb
  <2>4. \A o \in Iters \cup Snaps : o # n => (HoldsDb(o)' <=> HoldsDb(o))
    BY <1>1, <2>1, <1>9, ObjectFacts DEF HoldsDb
  <2>5. \A i \in Iters, s \in Snaps : HoldsSnapshot(i, s)' <=> HoldsSnapshot(i, s)
    <3> TAKE i \in Iters, s \in Snaps
    <3>1. mRefCount'[i] = mRefCount[i] /\ s # None BY <1>9, ObjectFacts
    <3>2. cur[h].arg = s => p = "snapref" BY <3>1
    <3>3. QED BY <1>1, <2>1, <3>1, <3>2 DEF HoldsSnapshot
  <2>6. Holders(Db)' = Holders(Db) \cup {n}
    BY <1>3, <2>2, <2>4, ObjectFacts DEF Holders
  <2>7. n \notin Holders(Db) BY <1>3, <2>3, ObjectFacts DEF Holders
  <2>8. \A y \in Objects : y # Db => Holders(y)' = Holders(y) BY <2>5 DEF Holders
  <2>9. QED BY <1>4, <1>8, <2>6, <2>7, <2>8, CountAdds DEF RefsInv, WrapperTypes
<1>16. QED BY <1>10, <1>11, <1>12, <1>13, <1>14, <1>15 DEF RefsInv

LEMMA SnapshotRefRefs ==
    ASSUME RefsInv, NEW h \in Threads, SnapshotRef(h)
    PROVE  RefsInv'
<1> USE DEF SnapshotRef, Goto
<1> DEFINE s == cur[h].arg
           n == cur[h].new
<1>1. pc[h] = "snapref" /\ pc' = [pc EXCEPT ![h] = "read"] /\ cur' = cur BY DEF SnapshotRef
<1>2. cur[h] # NoCall /\ cur[h] \in Calls /\ cur[h].op = "make" /\ s # None
  BY <1>1, NoCallFacts DEF RefsInv, CallInv, CallOk, WrapperTypes
<1>3. n \in Iters /\ n \in Objects \ made /\ s \in Snaps /\ s \in Objects
  BY <1>2, CallFacts, ObjectFacts DEF RefsInv, CallInv, CallOk
<1>4. s \in made \ closed BY <1>2 DEF RefsInv, CallInv, CallOk
<1>5. mRefCount[s] > 0 /\ mRefCount[s] \in Nat /\ closing[s] = "no" BY <1>4, OpenFacts
<1>6. mRefCount[n] = 0 /\ closing[n] = "no" BY <1>3 DEF RefsInv, UnmadeInv
<1>7. \A k \in Threads : k # h => cur[k].new # n
  BY <1>3, ObjectFacts DEF RefsInv, CallInv, CallOk
<1>8. mRefCount' = [mRefCount EXCEPT ![s] = mRefCount[s] + 1] BY DEF SnapshotRef
<1>9. mRefCount'[s] > 0 /\ \A o \in Objects : o # s => mRefCount'[o] = mRefCount[o]
  BY <1>3, <1>5, <1>8 DEF RefsInv, WrapperTypes
<1>10. WrapperTypes'
  <2>1. mRefCount \in [Objects -> Nat] BY DEF RefsInv, WrapperTypes
  <2>2. mRefCount[s] + 1 \in Nat BY <1>5
  <2>3. mRefCount' \in [Objects -> Nat] BY <1>8, <2>1, <2>2
  <2>4. pc' \in [Threads -> Pcs] BY <1>1 DEF RefsInv, WrapperTypes, Pcs
  <2>5. QED BY <2>3, <2>4 DEF RefsInv, WrapperTypes
<1>11. CallInv'
  <2>1. \A k \in Threads : CallOk(k)' BY <1>1, <1>2, CallGoesOn
  <2>2. \A k \in Threads : pc'[k] = "native" => pc[k] = "native" BY <1>1 DEF RefsInv, WrapperTypes
  <2>3. QED BY <2>1, <2>2 DEF RefsInv, CallInv
<1>12. UnmadeInv' BY <1>4, <1>9 DEF RefsInv, UnmadeInv
<1>13. ClosingInv' BY <1>5, <1>9 DEF RefsInv, ClosingInv
<1>14. LiveInv' BY <1>4, <1>5, <1>9 DEF RefsInv, LiveInv, WrapperTypes
<1>15. CountInv'
  <2>1. pc'[h] = "read" /\ \A k \in Threads : k # h => pc'[k] = pc[k]
    BY <1>1 DEF RefsInv, WrapperTypes
  <2>2. \A o \in Iters \cup Snaps : HoldsDb(o)' <=> HoldsDb(o)
    BY <1>1, <1>5, <2>1, <1>9, ObjectFacts DEF HoldsDb
  <2>3. HoldsSnapshot(n, s)' BY <1>1, <2>1 DEF HoldsSnapshot
  <2>4. ~HoldsSnapshot(n, s) BY <1>1, <1>6, <1>7 DEF HoldsSnapshot
  <2>5. \A i \in Iters, t \in Snaps : i # n \/ t # s => (HoldsSnapshot(i, t)' <=> HoldsSnapshot(i, t))
    <3> TAKE i \in Iters, t \in Snaps
    <3>1. mRefCount'[i] = mRefCount[i] BY <1>3, <1>9, ObjectFacts
    <3>2. QED BY <1>1, <2>1, <3>1 DEF HoldsSnapshot
  <2>6. Holders(s)' = Holders(s) \cup {n}
    BY <1>3, <2>3, <2>5, ObjectFacts DEF Holders
  <2>7. n \notin Holders(s) BY <1>3, <2>4, ObjectFacts DEF Holders
  <2>8. \A y \in Objects : y # s => Holders(y)' = Holders(y) BY <2>2, <2>5 DEF Holders
  <2>9. QED BY <1>3, <1>8, <2>6, <2>7, <2>8, CountAdds DEF RefsInv, WrapperTypes
<1>16. QED BY <1>10, <1>11, <1>12, <1>13, <1>14, <1>15 DEF RefsInv

LEMMA EnterNativeRefs ==
    ASSUME RefsInv, NEW h \in Threads, EnterNative(h)
    PROVE  RefsInv'
<1> USE DEF EnterNative, Goto
<1>1. pc[h] = "read" /\ pc' = [pc EXCEPT ![h] = "native"] /\ cur' = cur BY DEF EnterNative
<1>2. cur[h] # NoCall BY <1>1 DEF RefsInv, CallInv, CallOk
<1>3. cur[h] \in Calls /\ mPtr[cur[h].obj] = 1
      /\ (cur[h].arg # None => mPtr[cur[h].arg] = 1)
      /\ (cur[h].obj \in Iters => home[cur[h].obj] = 1)
  BY <1>2, InCall
<1>4. used' = [used EXCEPT ![h] = Working(cur[h])] BY <1>3 DEF Working, Natives
<1>5. Working(cur[h]) \subseteq Objects \X {0, 1}
  BY <1>3, CallFacts, ObjectFacts DEF Working
<1>6. WrapperTypes'
  <2>1. used' \in [Threads -> SUBSET (Objects \X {0, 1})]
    BY <1>4, <1>5 DEF RefsInv, WrapperTypes
  <2>2. pc' \in [Threads -> Pcs] BY <1>1 DEF RefsInv, WrapperTypes, Pcs
  <2>3. QED BY <2>1, <2>2 DEF RefsInv, WrapperTypes
<1>7. CallInv'
  <2>1. \A k \in Threads : CallOk(k)' BY <1>1, <1>2, CallGoesOn
  <2>2. \A k \in Threads : pc'[k] = "native" => used'[k] = Working(cur'[k])
    BY <1>1, <1>4 DEF RefsInv, WrapperTypes, CallInv
  <2>3. QED BY <2>1, <2>2 DEF CallInv, Working
<1>8. UnmadeInv' /\ ClosingInv' /\ LiveInv' BY DEF RefsInv, UnmadeInv, ClosingInv, LiveInv
<1>9. CountInv'
  <2>1. pc'[h] = "native" /\ \A k \in Threads : k # h => pc'[k] = pc[k]
    BY <1>1 DEF RefsInv, WrapperTypes
  <2>2. \A o \in Iters \cup Snaps : HoldsDb(o)' <=> HoldsDb(o) BY <1>1, <2>1 DEF HoldsDb
  <2>3. \A i \in Iters, s \in Snaps : HoldsSnapshot(i, s)' <=> HoldsSnapshot(i, s)
    BY <1>1, <2>1 DEF HoldsSnapshot
  <2>4. QED BY <2>2, <2>3, HoldersSame, CountSame DEF RefsInv
<1>10. QED BY <1>6, <1>7, <1>8, <1>9 DEF RefsInv

(* The caller's two rules, and the native objects of its wrappers: what a  *)
(* native method works on exists.                                          *)
LEMMA UsedIsLive ==
    ASSUME RefsInv, NEW h \in Threads, pc[h] = "native"
    PROVE  cur[h] # NoCall /\ used[h] = Working(cur[h]) /\ used[h] \subseteq live
<1>1. cur[h] # NoCall /\ used[h] = Working(cur[h]) BY DEF RefsInv, CallInv, CallOk
<1>2. QED BY <1>1, InCall DEF Working

(* A thread that has returned leaves CallOk to the others.                 *)
LEMMA CallReturns ==
    ASSUME RefsInv, NEW h \in Threads, cur' = [cur EXCEPT ![h] = NoCall], closed' = closed,
           opens' = opens, pc' = [pc EXCEPT ![h] = "idle"], used' = [used EXCEPT ![h] = {}],
           cur[h] # NoCall,
           made' = made \/ (cur[h].new # None /\ made' = made \cup {cur[h].new})
    PROVE  CallInv'
<1> SUFFICES ASSUME NEW k \in Threads
             PROVE  CallOk(k)' /\ (pc'[k] = "native" => used'[k] = Working(cur'[k]))
  BY DEF CallInv
<1>1. cur'[h] = NoCall /\ pc'[h] = "idle" BY DEF RefsInv, WrapperTypes
<1>2. CASE k = h
  BY <1>1, <1>2, NoCallFacts DEF CallOk
<1>3. CASE k # h
  <2>1. pc'[k] = pc[k] /\ cur'[k] = cur[k] /\ used'[k] = used[k]
    BY <1>3 DEF RefsInv, WrapperTypes
  <2>2. CallOk(k) /\ CallOk(h) /\ (pc[k] = "native" => used[k] = Working(cur[k]))
    BY DEF RefsInv, CallInv
  <2>3. \A j \in Threads : j # k /\ cur'[j].new # None => cur'[j].new # cur[k].new
    BY <1>1, <1>3, <2>2, NoCallFacts DEF RefsInv, WrapperTypes, CallOk
  <2>4. cur[k] # NoCall => cur[k].new \notin made'
    BY <1>3, <2>2 DEF CallOk
  <2>5. QED BY <2>1, <2>2, <2>3, <2>4 DEF CallOk
<1>4. QED BY <1>2, <1>3

LEMMA LeaveNativeRefs ==
    ASSUME RefsInv, NEW h \in Threads, LeaveNative(h)
    PROVE  RefsInv'
<1> DEFINE c == cur[h]
<1> PICK n : n = cur[h].new OBVIOUS
<1>0. /\ pc[h] = "native" /\ UNCHANGED <<monitor, closed, stack, closing, opens>>
  BY DEF LeaveNative
<1>1. /\ pc[h] = "native" /\ pc' = [pc EXCEPT ![h] = "idle"]
      /\ cur' = [cur EXCEPT ![h] = NoCall] /\ used' = [used EXCEPT ![h] = {}]
      /\ misused' = misused \cup (used[h] \ live)
  BY DEF LeaveNative, Goto
<1>2. c # NoCall /\ used[h] = Working(c) /\ used[h] \subseteq live BY <1>1, UsedIsLive
<1>3. c \in Calls BY <1>2 DEF RefsInv, WrapperTypes
<1>4. misused' = {} BY <1>1, <1>2 DEF RefsInv
<1>5. /\ pc' \in [Threads -> Pcs] /\ cur' \in [Threads -> Calls \cup {NoCall}]
      /\ used' \in [Threads -> SUBSET (Objects \X {0, 1})]
  BY <1>1 DEF RefsInv, WrapperTypes, Pcs
<1>6. /\ cur'[h].new = None /\ pc'[h] = "idle"
      /\ \A k \in Threads : k # h => cur'[k] = cur[k] /\ pc'[k] = pc[k]
  BY <1>1, NoCallFacts DEF RefsInv, WrapperTypes
<1>7. CASE c.op = "call"
  <2>1. UNCHANGED <<made, live, mPtr, mRefCount, home, snapOf>> BY <1>7 DEF LeaveNative
  <2>2. n = None BY <1>3, <1>7, CallFacts
  <2>3. WrapperTypes' BY <1>0, <1>5, <2>1 DEF RefsInv, WrapperTypes
  <2>4. CallInv' BY <1>0, <1>1, <1>2, <2>1, CallReturns
  <2>5. UnmadeInv' /\ ClosingInv' /\ LiveInv'
    BY <1>0, <2>1 DEF RefsInv, UnmadeInv, ClosingInv, LiveInv
  <2>6. \A o \in Iters \cup Snaps : HoldsDb(o)' <=> HoldsDb(o)
    <3> TAKE o \in Iters \cup Snaps
    <3>1. o # None BY ObjectFacts
    <3>2. QED BY <1>0, <1>6, <2>1, <2>2, <3>1 DEF HoldsDb
  <2>7. \A i \in Iters, s \in Snaps : HoldsSnapshot(i, s)' <=> HoldsSnapshot(i, s)
    <3> TAKE i \in Iters, s \in Snaps
    <3>1. i # None BY ObjectFacts
    <3>2. QED BY <1>0, <1>6, <2>1, <2>2, <3>1 DEF HoldsSnapshot
  <2>8. CountInv' BY <1>0, <2>1, <2>6, <2>7, HoldersSame, CountSame DEF RefsInv
  <2>9. QED BY <1>4, <2>3, <2>4, <2>5, <2>8 DEF RefsInv
<1>8. CASE c.op = "make"
  <2>1. /\ made' = made \cup {n} /\ live' = live \cup {<<n, 1>>}
        /\ mPtr' = [mPtr EXCEPT ![n] = 1] /\ mRefCount' = [mRefCount EXCEPT ![n] = 1]
        /\ home' = [home EXCEPT ![n] = CHOOSE g \in 0..opens : <<Db, g>> \in used[h]]
        /\ snapOf' = IF n \in Iters THEN [snapOf EXCEPT ![n] = c.arg] ELSE snapOf
    BY <1>8 DEF LeaveNative
  <2>2. /\ n \in Iters \cup Snaps /\ n \in Objects /\ c.obj = Db /\ n # None /\ n # Db
        /\ c.arg # None => c.arg \in Snaps /\ n \in Iters
    BY <1>3, <1>8, CallFacts, ObjectFacts
  <2>3. n \notin made /\ opens = 1 /\ (c.arg # None => c.arg \in made)
    BY <1>2, <2>2 DEF RefsInv, CallInv, CallOk
  <2>4. mRefCount[n] = 0 /\ closing[n] = "no" /\ mPtr[n] = 0 /\ n \notin closed
    BY <2>2, <2>3 DEF RefsInv, UnmadeInv, WrapperTypes
  <2>5. home' = [home EXCEPT ![n] = 1]
    <3>1. \A g \in 0..opens : <<Db, g>> \in used[h] <=> g = 1
      BY <1>2, <2>2, <2>3, ObjectFacts DEF Working
    <3>2. 1 \in 0..opens BY <2>3
    <3>3. (CHOOSE g \in 0..opens : <<Db, g>> \in used[h]) = 1 BY <3>1, <3>2
    <3>4. QED BY <2>1, <3>3
  <2>6. /\ mRefCount'[n] = 1 /\ mPtr'[n] = 1 /\ home'[n] = 1 /\ <<n, 1>> \in live'
        /\ \A o \in Objects : o # n =>
             /\ mRefCount'[o] = mRefCount[o] /\ mPtr'[o] = mPtr[o] /\ home'[o] = home[o]
             /\ <<o, 1>> \in live' <=> <<o, 1>> \in live
    BY <2>1, <2>2, <2>5 DEF RefsInv, WrapperTypes
  <2>7. /\ n \in Iters => snapOf'[n] = c.arg
        /\ \A i \in Iters : i # n => snapOf'[i] = snapOf[i]
        /\ snapOf' \in [Iters -> Snaps \cup {None}]
    BY <2>1, <2>2 DEF RefsInv, WrapperTypes
  <2>8. WrapperTypes'
    <3>1. mRefCount' \in [Objects -> Nat] /\ mPtr' \in [Objects -> {0, 1}]
          /\ home' \in [Objects -> {0, 1}]
      BY <2>1, <2>5 DEF RefsInv, WrapperTypes
    <3>2. live' \subseteq Objects \X {1} /\ made' \subseteq Objects /\ closed' \subseteq made'
      BY <1>0, <2>1, <2>2 DEF RefsInv, WrapperTypes
    <3>3. QED BY <1>0, <1>5, <2>7, <3>1, <3>2 DEF RefsInv, WrapperTypes
  <2>9. CallInv' BY <1>0, <1>1, <1>2, <2>1, <2>2, CallReturns
  <2>10. UnmadeInv'
    BY <1>0, <2>1, <2>2, <2>3, <2>6, <2>7, ObjectFacts DEF RefsInv, UnmadeInv
  <2>11. ClosingInv'
    <3> SUFFICES ASSUME NEW o \in Objects
                 PROVE  /\ monitor'[o] = None <=> closing'[o] = "no"
                        /\ closing'[o] # "no" =>
                             /\ mRefCount'[o] = 0 /\ mPtr'[o] = 1
                             /\ \E k \in Threads : \E j \in 1..Len(stack'[k]) : stack'[k][j] = o
                        /\ closing'[o] = "destroy" => o = Db
                        /\ closing'[o] = "snapshot" => o \in Iters /\ snapOf'[o] # None
                        /\ closing'[o] = "db" => o \in Iters \cup Snaps
      BY DEF ClosingInv
    <3>1. CASE o = n
      BY <1>0, <2>4, <3>1 DEF RefsInv, ClosingInv
    <3>2. CASE o # n
      <4>1. mRefCount'[o] = mRefCount[o] /\ mPtr'[o] = mPtr[o] BY <2>6, <3>2
      <4>2. o \in Iters => snapOf'[o] = snapOf[o] BY <2>7, <3>2
      <4>3. QED BY <1>0, <4>1, <4>2 DEF RefsInv, ClosingInv
    <3>3. QED BY <3>1, <3>2
  <2>12. LiveInv'
    <3>1. closing' = closing /\ opens' = opens /\ made' = made \cup {n} /\ made \subseteq Objects
      BY <1>0, <2>1 DEF RefsInv, WrapperTypes
    <3>2. LiveInv BY DEF RefsInv
    <3>3. \A o \in made' : mRefCount'[o] > 0 /\ (o = Db => opens' = 1) => mPtr'[o] = 1
      BY <2>6, <3>1, <3>2 DEF LiveInv
    <3>4. \A o \in made' : mPtr'[o] = 1 /\ closing'[o] = "no" => mRefCount'[o] > 0
      <4> TAKE o \in made'
      <4>1. CASE o = n BY <2>6, <4>1
      <4>2. CASE o # n
        <5>1. o \in made /\ o \in Objects BY <3>1, <4>2
        <5>2. mRefCount'[o] = mRefCount[o] /\ mPtr'[o] = mPtr[o] BY <2>6, <4>2, <5>1
        <5>3. QED BY <3>1, <3>2, <5>1, <5>2 DEF LiveInv
      <4>3. QED BY <4>1, <4>2
    <3>5. \A o \in Objects :
            <<o, 1>> \in live' <=> mPtr'[o] = 1 /\ (mRefCount'[o] > 0 \/ closing'[o] = "native")
      <4> TAKE o \in Objects
      <4>1. CASE o = n BY <2>6, <4>1
      <4>2. CASE o # n
        <5>1. mRefCount'[o] = mRefCount[o] /\ mPtr'[o] = mPtr[o] BY <2>6, <4>2
        <5>2. <<o, 1>> \in live' <=> <<o, 1>> \in live BY <2>6, <4>2
        <5>3. QED BY <3>1, <3>2, <5>1, <5>2 DEF LiveInv
      <4>3. QED BY <4>1, <4>2
    <3>6. \A i \in Iters \cap made' : home'[i] = 1
      BY <2>6, <3>1, <3>2, ObjectFacts DEF LiveInv
    <3>7. QED BY <3>3, <3>4, <3>5, <3>6 DEF LiveInv
  <2>13. CountInv'
    <3>1. \A k \in Threads : k # h => cur[k].new # n
      BY <2>2 DEF RefsInv, CallInv, CallOk
    <3>2. \A o \in Iters \cup Snaps : HoldsDb(o)' <=> HoldsDb(o)
      <4> TAKE o \in Iters \cup Snaps
      <4>1. CASE o = n
        BY <1>0, <2>6, <4>1 DEF HoldsDb
      <4>2. CASE o # n
        BY <1>0, <1>6, <2>6, <4>2, ObjectFacts DEF HoldsDb
      <4>3. QED BY <4>1, <4>2
    <3>3. \A i \in Iters, s \in Snaps : HoldsSnapshot(i, s)' <=> HoldsSnapshot(i, s)
      <4> TAKE i \in Iters, s \in Snaps
      <4>1. CASE i = n
        <5>1. HoldsSnapshot(i, s) <=> c.arg = s BY <1>0, <2>4, <3>1, <4>1 DEF HoldsSnapshot
        <5>2. HoldsSnapshot(i, s)' <=> c.arg = s
          BY <1>0, <1>6, <2>6, <2>7, <3>1, <4>1, ObjectFacts DEF HoldsSnapshot
        <5>3. QED BY <5>1, <5>2
      <4>2. CASE i # n
        BY <1>0, <1>6, <2>6, <2>7, <4>2, ObjectFacts DEF HoldsSnapshot
      <4>3. QED BY <4>1, <4>2
    <3>4. Holders(n) = {}
      <4>1. mRefCount[n] \in Nat /\ (mRefCount[n] > 0 <=> Holders(n) # {})
        BY <2>2, CountPositive DEF RefsInv
      <4>2. QED BY <4>1, <2>4
    <3>5. made' \ closed' = (made \ closed) \cup {n} BY <1>0, <2>1, <2>4
    <3>6. Holders(n)' = Holders(n) \cup {n} BY <2>2, <3>3, <3>4, <3>5 DEF Holders
    <3>7. \A y \in Objects : y # n => Holders(y)' = Holders(y)
      BY <3>2, <3>3, <3>5 DEF Holders
    <3>8. mRefCount' = [mRefCount EXCEPT ![n] = mRefCount[n] + 1] BY <2>1, <2>4
    <3>9. QED BY <2>2, <3>4, <3>6, <3>7, <3>8, CountAdds DEF RefsInv, WrapperTypes
  <2>14. QED BY <1>4, <2>8, <2>9, <2>10, <2>11, <2>12, <2>13 DEF RefsInv
<1>9. QED BY <1>3, <1>7, <1>8, CallFacts

-----------------------------------------------------------------------------
(* unref() of a wrapper that has references.  The callers' next steps are  *)
(* of their classes, and no caller is at the deletion or done.             *)
CallersOk(callers) ==
    /\ callers \in [Objects -> Steps]
    /\ \A x \in Objects :
         /\ callers[x] = "no" <=> closing[x] = "no"
         /\ callers[x] = "native" <=> closing[x] = "native"
         /\ callers[x] = "destroy" => closing[x] = "destroy"
         /\ callers[x] = "snapshot" => closing[x] = "snapshot"
         /\ callers[x] = "db" => x \in Iters \cup Snaps

(* It takes one reference; with the last one the wrapper is being closed.  *)
LEMMA UnrefSteps ==
    ASSUME RefsInv, NEW h \in Threads, NEW o \in Objects, NEW callers, CallersOk(callers),
           mRefCount[o] > 0, Unref(h, o, callers)
    PROVE  /\ closing[o] = "no" /\ mRefCount[o] \in Nat
           /\ mRefCount' = [mRefCount EXCEPT ![o] = mRefCount[o] - 1]
           /\ mRefCount'[o] = mRefCount[o] - 1
           /\ \A x \in Objects : x # o => mRefCount'[x] = mRefCount[x]
           /\ mRefCount' \in [Objects -> Nat]
           /\ mRefCount[o] = 1 => /\ monitor' = [monitor EXCEPT ![o] = h]
                                  /\ closing' = [callers EXCEPT ![o] = "native"]
                                  /\ stack' = [stack EXCEPT ![h] = <<o>> \o stack[h]]
           /\ mRefCount[o] # 1 => closing' = callers /\ monitor' = monitor /\ stack' = stack
<1>1. mRefCount \in [Objects -> Nat] /\ closing[o] = "no"
  BY DEF RefsInv, WrapperTypes, ClosingInv
<1>2. mRefCount[o] \in Nat /\ mRefCount[o] # 0 BY <1>1
<1>3. mRefCount' = [mRefCount EXCEPT ![o] = mRefCount[o] - 1] BY <1>2 DEF Unref
<1>4. mRefCount[o] - 1 \in Nat BY <1>2
<1>5. mRefCount' \in [Objects -> Nat] /\ mRefCount'[o] = mRefCount[o] - 1
      /\ \A x \in Objects : x # o => mRefCount'[x] = mRefCount[x]
  BY <1>1, <1>3, <1>4
<1>6. mRefCount[o] = 1 => /\ monitor' = [monitor EXCEPT ![o] = h]
                          /\ closing' = [callers EXCEPT ![o] = "native"]
                          /\ stack' = [stack EXCEPT ![h] = <<o>> \o stack[h]]
  BY <1>2 DEF Unref
<1>7. mRefCount[o] # 1 => closing' = callers /\ monitor' = monitor /\ stack' = stack
  BY <1>2 DEF Unref
<1>8. QED BY <1>1, <1>2, <1>3, <1>5, <1>6, <1>7

(* What it keeps of the invariant, and who holds what afterwards.          *)
LEMMA UnrefKeeps ==
    ASSUME RefsInv, NEW h \in Threads, NEW o \in made, NEW callers, CallersOk(callers),
           mRefCount[o] > 0, mPtr[o] = 1, Unref(h, o, callers),
           UNCHANGED <<mPtr, live, home, snapOf, made, opens>>
    PROVE  /\ mRefCount' \in [Objects -> Nat] /\ monitor' \in [Objects -> Threads \cup {None}]
           /\ closing' \in [Objects -> Steps] /\ stack' \in [Threads -> Seq(Objects)]
           /\ \A x \in Objects \ made : mRefCount'[x] = 0 /\ closing'[x] = "no"
           /\ ClosingInv' /\ LiveInv'
           /\ \A x \in Objects :
                /\ (mRefCount'[x] > 0 \/ closing'[x] \in {"native", "snapshot", "db"})
                   <=> (mRefCount[x] > 0 \/ callers[x] \in {"native", "snapshot", "db"})
                /\ (mRefCount'[x] > 0 \/ closing'[x] \in {"native", "snapshot"})
                   <=> (mRefCount[x] > 0 \/ callers[x] \in {"native", "snapshot"})
<1>0. o \in Objects BY DEF RefsInv, WrapperTypes
<1>1. /\ closing[o] = "no" /\ mRefCount[o] \in Nat
      /\ mRefCount'[o] = mRefCount[o] - 1
      /\ \A x \in Objects : x # o => mRefCount'[x] = mRefCount[x]
      /\ mRefCount' \in [Objects -> Nat]
  BY <1>0, UnrefSteps
<1>2. /\ callers \in [Objects -> Steps] /\ callers[o] = "no"
      /\ \A x \in Objects \ made : callers[x] = "no"
  BY <1>0, <1>1 DEF CallersOk, RefsInv, UnmadeInv
<1>3. CASE mRefCount[o] = 1
  <2>1. /\ monitor' = [monitor EXCEPT ![o] = h]
        /\ closing' = [callers EXCEPT ![o] = "native"]
        /\ stack' = [stack EXCEPT ![h] = <<o>> \o stack[h]]
    BY <1>0, <1>3, UnrefSteps
  <2>2. /\ monitor'[o] = h /\ closing'[o] = "native" /\ mRefCount'[o] = 0
        /\ \A x \in Objects : x # o => monitor'[x] = monitor[x] /\ closing'[x] = callers[x]
    BY <1>0, <1>1, <1>2, <1>3, <2>1 DEF RefsInv, WrapperTypes
  <2>3. stack[h] \in Seq(Objects) /\ <<o>> \in Seq(Objects) BY <1>0 DEF RefsInv, WrapperTypes
  <2>4. <<o>> \o stack[h] \in Seq(Objects) BY <2>3
  <2>5. /\ monitor' \in [Objects -> Threads \cup {None}] /\ closing' \in [Objects -> Steps]
        /\ stack' \in [Threads -> Seq(Objects)]
    BY <1>2, <2>1, <2>4 DEF RefsInv, WrapperTypes, Steps
  <2>6. \A x \in Objects : (\E k \in Threads : \E j \in 1..Len(stack[k]) : stack[k][j] = x)
                        => (\E k \in Threads : \E j \in 1..Len(stack'[k]) : stack'[k][j] = x)
    <3> SUFFICES ASSUME NEW x \in Objects, NEW k \in Threads, NEW j \in 1..Len(stack[k]),
                        stack[k][j] = x
                 PROVE  \E i \in 1..Len(stack'[k]) : stack'[k][i] = x
      OBVIOUS
    <3>1. CASE k # h
      <4>1. stack'[k] = stack[k] BY <2>1, <3>1 DEF RefsInv, WrapperTypes
      <4>2. QED BY <4>1
    <3>2. CASE k = h
      <4>1. stack'[k] = <<o>> \o stack[h] BY <2>1, <3>2 DEF RefsInv, WrapperTypes
      <4>2. Len(stack'[k]) = Len(stack[h]) + 1 BY <2>3, <4>1
      <4>3. j + 1 \in 1..Len(stack'[k]) BY <2>3, <3>2, <4>2
      <4>4. stack'[k][j + 1] = x BY <2>3, <3>2, <4>1
      <4>5. QED BY <4>3, <4>4
    <3>3. QED BY <3>1, <3>2
  <2>7. \E k \in Threads : \E j \in 1..Len(stack'[k]) : stack'[k][j] = o
    <3>1. stack'[h] = <<o>> \o stack[h] BY <2>1 DEF RefsInv, WrapperTypes
    <3>2. 1 \in 1..Len(stack'[h]) /\ stack'[h][1] = o BY <2>3, <3>1
    <3>3. QED BY <3>2
  <2>8. ClosingInv'
    <3> SUFFICES ASSUME NEW x \in Objects
                 PROVE  /\ monitor'[x] = None <=> closing'[x] = "no"
                        /\ closing'[x] # "no" =>
                             /\ mRefCount'[x] = 0 /\ mPtr'[x] = 1
                             /\ \E k \in Threads : \E j \in 1..Len(stack'[k]) : stack'[k][j] = x
                        /\ closing'[x] = "destroy" => x = Db
                        /\ closing'[x] = "snapshot" => x \in Iters /\ snapOf'[x] # None
                        /\ closing'[x] = "db" => x \in Iters \cup Snaps
      BY DEF ClosingInv
    <3>1. CASE x = o
      BY <2>2, <2>7, <3>1, WrappersAssumption
    <3>2. CASE x # o
      <4>1. monitor'[x] = monitor[x] /\ closing'[x] = callers[x] /\ mRefCount'[x] = mRefCount[x]
        BY <1>1, <2>2, <3>2
      <4>2. QED BY <2>6, <4>1 DEF RefsInv, ClosingInv, CallersOk
    <3>3. QED BY <3>1, <3>2
  <2>9. LiveInv'
    <3>1. LiveInv /\ made \subseteq Objects BY DEF RefsInv, WrapperTypes
    <3>2. \A x \in made : mRefCount'[x] > 0 /\ (x = Db => opens = 1) => mPtr[x] = 1
      BY <1>1, <2>2, <3>1 DEF LiveInv
    <3>3. \A x \in made : mPtr[x] = 1 /\ closing'[x] = "no" => mRefCount'[x] > 0
      BY <1>1, <2>2, <3>1 DEF LiveInv, CallersOk
    <3>4. \A x \in Objects :
            <<x, 1>> \in live <=> mPtr[x] = 1 /\ (mRefCount'[x] > 0 \/ closing'[x] = "native")
      <4> TAKE x \in Objects
      <4>1. CASE x = o BY <1>0, <2>2, <3>1, <4>1 DEF LiveInv
      <4>2. CASE x # o
        <5>1. mRefCount'[x] = mRefCount[x] /\ closing'[x] = callers[x] BY <1>1, <2>2, <4>2
        <5>2. QED BY <3>1, <5>1 DEF LiveInv, CallersOk
      <4>3. QED BY <4>1, <4>2
    <3>5. QED BY <3>1, <3>2, <3>3, <3>4 DEF LiveInv
  <2>10. \A x \in Objects \ made : mRefCount'[x] = 0 /\ closing'[x] = "no"
    BY <1>1, <1>2, <2>2 DEF RefsInv, UnmadeInv
  <2>11. \A x \in Objects :
           /\ (mRefCount'[x] > 0 \/ closing'[x] \in {"native", "snapshot", "db"})
              <=> (mRefCount[x] > 0 \/ callers[x] \in {"native", "snapshot", "db"})
           /\ (mRefCount'[x] > 0 \/ closing'[x] \in {"native", "snapshot"})
              <=> (mRefCount[x] > 0 \/ callers[x] \in {"native", "snapshot"})
    <3> TAKE x \in Objects
    <3>1. CASE x = o BY <2>2, <3>1
    <3>2. CASE x # o
      <4>1. mRefCount'[x] = mRefCount[x] /\ closing'[x] = callers[x] BY <1>1, <2>2, <3>2
      <4>2. QED BY <4>1
    <3>3. QED BY <3>1, <3>2
  <2>12. QED BY <1>1, <2>5, <2>8, <2>9, <2>10, <2>11
<1>4. CASE mRefCount[o] # 1
  <2>1. closing' = callers /\ monitor' = monitor /\ stack' = stack
    BY <1>0, <1>4, UnrefSteps
  <2>2. mRefCount'[o] > 0 BY <1>1, <1>4
  <2>3. ClosingInv'
    <3> SUFFICES ASSUME NEW x \in Objects
                 PROVE  /\ monitor'[x] = None <=> closing'[x] = "no"
                        /\ closing'[x] # "no" =>
                             /\ mRefCount'[x] = 0 /\ mPtr'[x] = 1
                             /\ \E k \in Threads : \E j \in 1..Len(stack'[k]) : stack'[k][j] = x
                        /\ closing'[x] = "destroy" => x = Db
                        /\ closing'[x] = "snapshot" => x \in Iters /\ snapOf'[x] # None
                        /\ closing'[x] = "db" => x \in Iters \cup Snaps
      BY DEF ClosingInv
    <3>1. CASE x = o
      BY <1>1, <1>2, <2>1, <3>1 DEF RefsInv, ClosingInv
    <3>2. CASE x # o
      <4>1. closing'[x] = callers[x] /\ mRefCount'[x] = mRefCount[x] BY <1>1, <2>1, <3>2
      <4>2. QED BY <2>1, <4>1 DEF RefsInv, ClosingInv, CallersOk
    <3>3. QED BY <3>1, <3>2
  <2>4. LiveInv'
    <3>1. LiveInv /\ made \subseteq Objects BY DEF RefsInv, WrapperTypes
    <3>2. \A x \in made : mRefCount'[x] > 0 /\ (x = Db => opens = 1) => mPtr[x] = 1
      BY <1>1, <3>1 DEF LiveInv
    <3>3. \A x \in made : mPtr[x] = 1 /\ closing'[x] = "no" => mRefCount'[x] > 0
      BY <1>1, <2>1, <2>2, <3>1 DEF LiveInv, CallersOk
    <3>4. \A x \in Objects :
            <<x, 1>> \in live <=> mPtr[x] = 1 /\ (mRefCount'[x] > 0 \/ closing'[x] = "native")
      <4> TAKE x \in Objects
      <4>1. CASE x = o BY <1>0, <2>2, <3>1, <4>1 DEF LiveInv
      <4>2. CASE x # o
        <5>1. mRefCount'[x] = mRefCount[x] /\ closing'[x] = callers[x] BY <1>1, <2>1, <4>2
        <5>2. QED BY <3>1, <5>1 DEF LiveInv, CallersOk
      <4>3. QED BY <4>1, <4>2
    <3>5. QED BY <3>1, <3>2, <3>3, <3>4 DEF LiveInv
  <2>5. \A x \in Objects \ made : mRefCount'[x] = 0 /\ closing'[x] = "no"
    BY <1>1, <1>2, <2>1 DEF RefsInv, UnmadeInv
  <2>6. \A x \in Objects :
           /\ (mRefCount'[x] > 0 \/ closing'[x] \in {"native", "snapshot", "db"})
              <=> (mRefCount[x] > 0 \/ callers[x] \in {"native", "snapshot", "db"})
           /\ (mRefCount'[x] > 0 \/ closing'[x] \in {"native", "snapshot"})
              <=> (mRefCount[x] > 0 \/ callers[x] \in {"native", "snapshot"})
    <3> TAKE x \in Objects
    <3>1. CASE x = o BY <2>2, <3>1
    <3>2. CASE x # o
      <4>1. mRefCount'[x] = mRefCount[x] BY <1>1, <3>2
      <4>2. QED BY <2>1, <4>1
    <3>3. QED BY <3>1, <3>2
  <2>7. QED BY <1>1, <1>2, <2>1, <2>3, <2>4, <2>5, <2>6 DEF RefsInv, WrapperTypes
<1>5. QED BY <1>3, <1>4

LEMMA CloseRefs ==
    ASSUME RefsInv, NEW h \in Threads, NEW o \in Objects, Close(h, o)
    PROVE  RefsInv'
<1>1. /\ o \in made \ closed /\ closed' = closed \cup {o} /\ Unref(h, o, closing)
      /\ \A k \in Threads : cur[k].obj # o /\ cur[k].arg # o
      /\ UNCHANGED <<mPtr, live, home, snapOf, made, pc, cur, used, misused, opens>>
  BY DEF Close
<1>2. mPtr[o] = 1 BY DEF Close, RefsInv, WrapperTypes
<1>3. mRefCount[o] > 0 BY <1>1, OpenFacts
<1>4. CallersOk(closing) BY DEF CallersOk, RefsInv, WrapperTypes, ClosingInv
<1>5. /\ mRefCount' \in [Objects -> Nat] /\ monitor' \in [Objects -> Threads \cup {None}]
      /\ closing' \in [Objects -> Steps] /\ stack' \in [Threads -> Seq(Objects)]
      /\ \A x \in Objects \ made : mRefCount'[x] = 0 /\ closing'[x] = "no"
      /\ ClosingInv' /\ LiveInv'
  BY <1>1, <1>2, <1>3, <1>4, UnrefKeeps
<1>6. \A x \in Objects :
        /\ (mRefCount'[x] > 0 \/ closing'[x] \in {"native", "snapshot", "db"})
           <=> (mRefCount[x] > 0 \/ closing[x] \in {"native", "snapshot", "db"})
        /\ (mRefCount'[x] > 0 \/ closing'[x] \in {"native", "snapshot"})
           <=> (mRefCount[x] > 0 \/ closing[x] \in {"native", "snapshot"})
  BY <1>1, <1>2, <1>3, <1>4, UnrefKeeps
<1>7. WrapperTypes' BY <1>1, <1>5 DEF RefsInv, WrapperTypes
<1>8. CallInv' BY <1>1 DEF RefsInv, CallInv, CallOk
<1>9. UnmadeInv'
  <2>1. closing'[Db] # "no" => mPtr[Db] = 1 BY <1>1, <1>5, ObjectFacts DEF ClosingInv
  <2>2. opens = 0 => mPtr[Db] = 0 /\ Db # o BY <1>2 DEF RefsInv, UnmadeInv
  <2>3. QED BY <1>1, <1>5, <2>1, <2>2 DEF RefsInv, UnmadeInv
<1>10. CountInv'
  <2>1. \A x \in Iters \cup Snaps : HoldsDb(x)' <=> HoldsDb(x)
    <3> TAKE x \in Iters \cup Snaps
    <3>1. x \in Objects BY ObjectFacts
    <3>2. QED BY <1>1, <1>6, <3>1 DEF HoldsDb
  <2>2. \A i \in Iters, s \in Snaps : HoldsSnapshot(i, s)' <=> HoldsSnapshot(i, s)
    <3> TAKE i \in Iters, s \in Snaps
    <3>1. i \in Objects BY ObjectFacts
    <3>2. QED BY <1>1, <1>6, <3>1 DEF HoldsSnapshot
  <2>3. o \in Holders(o) BY <1>1 DEF Holders
  <2>4. made' \ closed' = (made \ closed) \ {o} BY <1>1
  <2>5. Holders(o)' = Holders(o) \ {o}
    BY <2>1, <2>2, <2>4, ObjectFacts DEF Holders
  <2>6. \A y \in Objects : y # o => Holders(y)' = Holders(y)
    BY <2>1, <2>2, <2>4 DEF Holders
  <2>7. mRefCount' = [mRefCount EXCEPT ![o] = mRefCount[o] - 1]
    BY <1>1, <1>3, <1>4, UnrefSteps
  <2>8. QED BY <2>3, <2>5, <2>6, <2>7, CountDrops DEF RefsInv, WrapperTypes
<1>11. misused' = {} BY <1>1 DEF RefsInv
<1>12. QED BY <1>5, <1>7, <1>8, <1>9, <1>10, <1>11 DEF RefsInv

(* A wrapper that is being closed was made, so that nobody is making it.   *)
LEMMA ClosingIsMade ==
    ASSUME RefsInv, NEW c \in Objects, closing[c] # "no"
    PROVE  /\ c \in made /\ mRefCount[c] = 0 /\ mPtr[c] = 1
           /\ c \in Iters \cup Snaps => \A k \in Threads : cur[k].new # c
<1>1. c \in made /\ mRefCount[c] = 0 /\ mPtr[c] = 1 BY DEF RefsInv, UnmadeInv, ClosingInv
<1>2. ASSUME c \in Iters \cup Snaps, NEW k \in Threads PROVE cur[k].new # c
  <2>1. CASE cur[k] = NoCall BY <1>2, <2>1, NoCallFacts, ObjectFacts
  <2>2. CASE cur[k] # NoCall BY <1>1, <2>2 DEF RefsInv, CallInv, CallOk
  <2>3. QED BY <2>1, <2>2
<1>3. QED BY <1>1, <1>2

LEMMA ReleaseSnapshotRefs ==
    ASSUME RefsInv, NEW h \in Threads, NEW c \in Objects, At(h, "snapshot", c), Release(h, c)
    PROVE  RefsInv'
<1>1. /\ closing[c] = "snapshot" /\ Unref(h, snapOf[c], Advance(c))
      /\ UNCHANGED <<mPtr, live, home, snapOf, made, closed, pc, cur, used, misused, opens>>
  BY DEF Release, At
<1> PICK o : o = snapOf[c] OBVIOUS
<1>2. c \in Iters /\ o # None BY <1>1 DEF RefsInv, ClosingInv
<1>3. o \in Snaps /\ o \in Objects /\ o \in made
  BY <1>2, ObjectFacts DEF RefsInv, WrapperTypes, UnmadeInv
<1>4. c \in made /\ mRefCount[c] = 0 /\ \A k \in Threads : cur[k].new # c
  BY <1>1, <1>2, ClosingIsMade
<1>5. HoldsSnapshot(c, o) BY <1>1 DEF HoldsSnapshot
<1>6. mRefCount[o] > 0 BY <1>2, <1>3, <1>5, SnapshotIsHeld
<1>7. mPtr[o] = 1 BY <1>3, <1>6, ObjectFacts DEF RefsInv, LiveInv
<1> PICK callers : callers = Advance(c) OBVIOUS
<1>8. /\ callers \in [Objects -> Steps] /\ callers[c] = "db"
      /\ \A x \in Objects : x # c => callers[x] = closing[x]
  BY <1>1, <1>2, ObjectFacts DEF RefsInv, WrapperTypes, Advance, NextStep, Steps
<1>9. CallersOk(callers)
  BY <1>1, <1>2, <1>8 DEF CallersOk, RefsInv, ClosingInv
<1>10. Unref(h, o, callers) BY <1>1
<1>11. /\ mRefCount' \in [Objects -> Nat] /\ monitor' \in [Objects -> Threads \cup {None}]
       /\ closing' \in [Objects -> Steps] /\ stack' \in [Threads -> Seq(Objects)]
       /\ \A x \in Objects \ made : mRefCount'[x] = 0 /\ closing'[x] = "no"
       /\ ClosingInv' /\ LiveInv'
  BY <1>1, <1>3, <1>6, <1>7, <1>9, <1>10, UnrefKeeps
<1>12. \A x \in Objects :
        /\ (mRefCount'[x] > 0 \/ closing'[x] \in {"native", "snapshot", "db"})
           <=> (mRefCount[x] > 0 \/ callers[x] \in {"native", "snapshot", "db"})
        /\ (mRefCount'[x] > 0 \/ closing'[x] \in {"native", "snapshot"})
           <=> (mRefCount[x] > 0 \/ callers[x] \in {"native", "snapshot"})
  BY <1>1, <1>3, <1>6, <1>7, <1>9, <1>10, UnrefKeeps
<1>13. WrapperTypes' BY <1>1, <1>11 DEF RefsInv, WrapperTypes
<1>14. CallInv' BY <1>1 DEF RefsInv, CallInv, CallOk
<1>15. UnmadeInv'
  <2>1. closing'[Db] # "no" => mPtr[Db] = 1 BY <1>1, <1>11, ObjectFacts DEF ClosingInv
  <2>2. QED BY <1>1, <1>11, <2>1 DEF RefsInv, UnmadeInv
<1>16. CountInv'
  <2>1. \A x \in Iters \cup Snaps : HoldsDb(x)' <=> HoldsDb(x)
    <3> TAKE x \in Iters \cup Snaps
    <3>1. x \in Objects BY ObjectFacts
    <3>2. callers[x] \in {"native", "snapshot", "db"} <=> closing[x] \in {"native", "snapshot", "db"}
      BY <1>1, <1>8, <3>1
    <3>3. QED BY <1>1, <1>12, <3>1, <3>2 DEF HoldsDb
  <2>2. \A i \in Iters, s \in Snaps : i # c => (HoldsSnapshot(i, s)' <=> HoldsSnapshot(i, s))
    <3> TAKE i \in Iters, s \in Snaps
    <3>1. i \in Objects BY ObjectFacts
    <3>2. QED BY <1>1, <1>8, <1>12, <3>1 DEF HoldsSnapshot
  <2>3. \A s \in Snaps : ~HoldsSnapshot(c, s)'
    BY <1>1, <1>4, <1>8, <1>12 DEF HoldsSnapshot
  <2>4. \A s \in Snaps : HoldsSnapshot(c, s) <=> s = o
    BY <1>1, <1>4, <1>5 DEF HoldsSnapshot
  <2>5. c \in Holders(o) BY <1>2, <1>3, <1>5 DEF Holders
  <2>6. Holders(o)' = Holders(o) \ {c}
    BY <1>1, <1>2, <1>3, <2>2, <2>3, ObjectFacts DEF Holders
  <2>7. \A y \in Objects : y # o => Holders(y)' = Holders(y)
    BY <1>1, <2>1, <2>2, <2>3, <2>4 DEF Holders
  <2>8. mRefCount' = [mRefCount EXCEPT ![o] = mRefCount[o] - 1]
    BY <1>3, <1>6, <1>9, <1>10, UnrefSteps
  <2>9. QED BY <1>3, <2>5, <2>6, <2>7, <2>8, CountDrops DEF RefsInv, WrapperTypes
<1>17. misused' = {} BY <1>1 DEF RefsInv
<1>18. QED BY <1>11, <1>13, <1>14, <1>15, <1>16, <1>17 DEF RefsInv

LEMMA ReleaseDbRefs ==
    ASSUME RefsInv, NEW h \in Threads, NEW c \in Objects, At(h, "db", c), Release(h, c)
    PROVE  RefsInv'
<1>1. /\ closing[c] = "db" /\ Unref(h, Db, Advance(c))
      /\ UNCHANGED <<mPtr, live, home, snapOf, made, closed, pc, cur, used, misused, opens>>
  BY DEF Release, At
<1>2. c \in Iters \cup Snaps /\ c # Db BY <1>1, ObjectFacts DEF RefsInv, ClosingInv
<1>3. Db \in Objects /\ Db \in made BY ObjectFacts DEF RefsInv, UnmadeInv
<1>4. c \in made /\ mRefCount[c] = 0 /\ \A k \in Threads : cur[k].new # c
  BY <1>1, <1>2, ClosingIsMade
<1>5. HoldsDb(c) BY <1>1 DEF HoldsDb
<1>6. mRefCount[Db] > 0 /\ mPtr[Db] = 1 BY <1>2, <1>5, DbIsHeld
<1> PICK callers : callers = Advance(c) OBVIOUS
<1>7. /\ callers \in [Objects -> Steps] /\ callers[c] = "clear"
      /\ \A x \in Objects : x # c => callers[x] = closing[x]
  BY <1>1, <1>2 DEF RefsInv, WrapperTypes, Advance, NextStep, Steps
<1>8. CallersOk(callers)
  BY <1>1, <1>2, <1>7 DEF CallersOk, RefsInv, ClosingInv
<1>9. Unref(h, Db, callers) BY <1>1
<1>10. /\ mRefCount' \in [Objects -> Nat] /\ monitor' \in [Objects -> Threads \cup {None}]
       /\ closing' \in [Objects -> Steps] /\ stack' \in [Threads -> Seq(Objects)]
       /\ \A x \in Objects \ made : mRefCount'[x] = 0 /\ closing'[x] = "no"
       /\ ClosingInv' /\ LiveInv'
  BY <1>1, <1>3, <1>6, <1>8, <1>9, UnrefKeeps
<1>11. \A x \in Objects :
        /\ (mRefCount'[x] > 0 \/ closing'[x] \in {"native", "snapshot", "db"})
           <=> (mRefCount[x] > 0 \/ callers[x] \in {"native", "snapshot", "db"})
        /\ (mRefCount'[x] > 0 \/ closing'[x] \in {"native", "snapshot"})
           <=> (mRefCount[x] > 0 \/ callers[x] \in {"native", "snapshot"})
  BY <1>1, <1>3, <1>6, <1>8, <1>9, UnrefKeeps
<1>12. WrapperTypes' BY <1>1, <1>10 DEF RefsInv, WrapperTypes
<1>13. CallInv' BY <1>1 DEF RefsInv, CallInv, CallOk
<1>14. UnmadeInv'
  <2>1. closing'[Db] # "no" => mPtr[Db] = 1 BY <1>1, <1>10, ObjectFacts DEF ClosingInv
  <2>2. QED BY <1>1, <1>10, <2>1 DEF RefsInv, UnmadeInv
<1>15. CountInv'
  <2>1. \A x \in Iters \cup Snaps : x # c => (HoldsDb(x)' <=> HoldsDb(x))
    <3> TAKE x \in Iters \cup Snaps
    <3>1. x \in Objects BY ObjectFacts
    <3>2. QED BY <1>1, <1>7, <1>11, <3>1 DEF HoldsDb
  <2>2. ~HoldsDb(c)' BY <1>1, <1>4, <1>7, <1>11 DEF HoldsDb
  <2>3. \A i \in Iters, s \in Snaps : HoldsSnapshot(i, s)' <=> HoldsSnapshot(i, s)
    <3> TAKE i \in Iters, s \in Snaps
    <3>1. i \in Objects BY ObjectFacts
    <3>2. callers[i] \in {"native", "snapshot"} <=> closing[i] \in {"native", "snapshot"}
      BY <1>1, <1>7, <3>1
    <3>3. QED BY <1>1, <1>11, <3>1, <3>2 DEF HoldsSnapshot
  <2>4. c \in Holders(Db) BY <1>2, <1>5 DEF Holders
  <2>5. Holders(Db)' = Holders(Db) \ {c}
    BY <1>1, <1>2, <2>1, <2>2, ObjectFacts DEF Holders
  <2>6. \A y \in Objects : y # Db => Holders(y)' = Holders(y)
    BY <1>1, <2>3 DEF Holders
  <2>7. mRefCount' = [mRefCount EXCEPT ![Db] = mRefCount[Db] - 1]
    BY <1>3, <1>6, <1>8, <1>9, UnrefSteps
  <2>8. QED BY <1>3, <2>4, <2>5, <2>6, <2>7, CountDrops DEF RefsInv, WrapperTypes
<1>16. misused' = {} BY <1>1 DEF RefsInv
<1>17. QED BY <1>10, <1>12, <1>13, <1>14, <1>15, <1>16 DEF RefsInv

LEMMA DeleteNativeRefs ==
    ASSUME RefsInv, NEW h \in Threads, NEW o \in Objects, DeleteNative(h, o)
    PROVE  RefsInv'
<1>1. /\ closing[o] = "native" /\ closing' = Advance(o)
      /\ UNCHANGED <<mPtr, mRefCount, monitor, home, snapOf, made, closed, pc, cur, used, stack,
                     opens>>
  BY DEF DeleteNative, At
<1>2. /\ o \in made /\ mRefCount[o] = 0 /\ mPtr[o] = 1
      /\ o \in Iters \cup Snaps => \A k \in Threads : cur[k].new # o
  BY <1>1, ClosingIsMade
<1>3. live' = live \ {<<o, 1>>} BY <1>2 DEF DeleteNative
<1>4. misused' = {}
  <2>1. <<o, 1>> \in live BY <1>1, <1>2 DEF RefsInv, LiveInv
  <2>2. o \in Iters \cup Snaps => <<Db, 1>> \in live /\ mPtr[Db] = 1
    <3>1. HoldsDb(o) BY <1>1 DEF HoldsDb
    <3>2. QED BY <3>1, DbIsHeld
  <2>3. o \in Iters => home[o] = 1 BY <1>2 DEF RefsInv, LiveInv
  <2>4. Natives(o, mPtr[o]) \cup (IF o \in Snaps THEN {<<Db, mPtr[Db]>>} ELSE {}) \subseteq live
    BY <1>2, <2>1, <2>2, <2>3 DEF Natives
  <2>5. QED BY <2>4 DEF DeleteNative, RefsInv
<1>5. /\ closing' \in [Objects -> Steps]
      /\ \A x \in Objects : x # o => closing'[x] = closing[x]
      /\ closing'[o] \in {"destroy", "snapshot", "db", "clear"}
      /\ o = Db <=> closing'[o] = "destroy"
      /\ closing'[o] = "snapshot" <=> o \in Iters /\ snapOf[o] # None
      /\ o \in Iters \cup Snaps <=> closing'[o] \in {"snapshot", "db"}
  <2>1. NextStep(o) \in Steps /\ closing \in [Objects -> Steps]
    BY DEF NextStep, Steps, RefsInv, WrapperTypes
  <2>2. /\ closing' \in [Objects -> Steps] /\ closing'[o] = NextStep(o)
        /\ \A x \in Objects : x # o => closing'[x] = closing[x]
    BY <1>1, <2>1 DEF Advance
  <2>3. /\ NextStep(o) \in {"destroy", "snapshot", "db", "clear"}
        /\ o = Db <=> NextStep(o) = "destroy"
        /\ NextStep(o) = "snapshot" <=> o \in Iters /\ snapOf[o] # None
        /\ o \in Iters \cup Snaps <=> NextStep(o) \in {"snapshot", "db"}
    BY <1>1, ObjectFacts DEF NextStep
  <2>4. QED BY <2>2, <2>3
<1>6. WrapperTypes' BY <1>1, <1>3, <1>5 DEF RefsInv, WrapperTypes
<1>7. CallInv' BY <1>1 DEF RefsInv, CallInv, CallOk
<1>8. UnmadeInv'
  <2>1. UnmadeInv /\ Db \in Objects BY ObjectFacts DEF RefsInv
  <2>2. opens = 0 => o # Db BY <1>1, <2>1 DEF UnmadeInv
  <2>3. opens = 0 => closing'[Db] = "no" BY <1>5, <2>1, <2>2 DEF UnmadeInv
  <2>4. \A x \in Objects \ made : closing'[x] = "no" BY <1>2, <1>5, <2>1 DEF UnmadeInv
  <2>5. QED BY <1>1, <2>1, <2>3, <2>4 DEF UnmadeInv
<1>9. ClosingInv' BY <1>1, <1>5 DEF RefsInv, ClosingInv
<1>10. LiveInv'
  <2>1. \A x \in Objects : <<x, 1>> \in live' <=> <<x, 1>> \in live /\ x # o BY <1>3
  <2>2. LiveInv /\ made \subseteq Objects BY DEF RefsInv, WrapperTypes
  <2>3. \A x \in made : mPtr[x] = 1 /\ closing'[x] = "no" => mRefCount[x] > 0
    BY <1>5, <2>2 DEF LiveInv
  <2>4. \A x \in Objects :
          <<x, 1>> \in live' <=> mPtr[x] = 1 /\ (mRefCount[x] > 0 \/ closing'[x] = "native")
    <3> TAKE x \in Objects
    <3>1. <<x, 1>> \in live <=> mPtr[x] = 1 /\ (mRefCount[x] > 0 \/ closing[x] = "native")
      BY <2>2 DEF LiveInv
    <3>2. CASE x = o BY <1>2, <1>5, <2>1, <3>2
    <3>3. CASE x # o BY <1>5, <2>1, <3>1, <3>3
    <3>4. QED BY <3>2, <3>3
  <2>5. QED BY <1>1, <2>2, <2>3, <2>4 DEF LiveInv
<1>11. CountInv'
  <2>1. \A x \in Iters \cup Snaps : HoldsDb(x)' <=> HoldsDb(x)
    <3> TAKE x \in Iters \cup Snaps
    <3>1. x \in Objects BY ObjectFacts
    <3>2. closing'[x] \in {"native", "snapshot", "db"} <=> closing[x] \in {"native", "snapshot", "db"}
      BY <1>1, <1>5, <3>1
    <3>3. QED BY <1>1, <3>2 DEF HoldsDb
  <2>2. \A i \in Iters, s \in Snaps : HoldsSnapshot(i, s)' <=> HoldsSnapshot(i, s)
    <3> TAKE i \in Iters, s \in Snaps
    <3>1. i \in Objects /\ s # None BY ObjectFacts
    <3>2. snapOf[i] = s =>
            (closing'[i] \in {"native", "snapshot"} <=> closing[i] \in {"native", "snapshot"})
      BY <1>1, <1>5, <3>1
    <3>3. QED BY <1>1, <3>2 DEF HoldsSnapshot
  <2>3. QED BY <1>1, <2>1, <2>2, HoldersSame, CountSame DEF RefsInv
<1>12. QED BY <1>4, <1>6, <1>7, <1>8, <1>9, <1>10, <1>11 DEF RefsInv

LEMMA DestroyOnCloseRefs ==
    ASSUME RefsInv, NEW h \in Threads, DestroyOnClose(h)
    PROVE  RefsInv'
<1>1. /\ closing[Db] = "destroy" /\ closing' = Advance(Db)
      /\ UNCHANGED <<mPtr, mRefCount, monitor, live, home, snapOf, made, closed, pc, cur, used,
                     stack, misused, opens>>
  BY DEF DestroyOnClose, At
<1>2. /\ closing' \in [Objects -> Steps] /\ closing'[Db] = "clear"
      /\ \A x \in Objects : x # Db => closing'[x] = closing[x]
  BY <1>1, ObjectFacts DEF RefsInv, WrapperTypes, Advance, NextStep, Steps
<1>3. WrapperTypes' BY <1>1, <1>2 DEF RefsInv, WrapperTypes
<1>4. CallInv' BY <1>1 DEF RefsInv, CallInv, CallOk
<1>5. UnmadeInv' BY <1>1, <1>2 DEF RefsInv, UnmadeInv
<1>6. ClosingInv' BY <1>1, <1>2 DEF RefsInv, ClosingInv
<1>7. LiveInv' BY <1>1, <1>2 DEF RefsInv, LiveInv, WrapperTypes
<1>8. CountInv'
  <2>1. \A x \in Iters \cup Snaps : closing'[x] = closing[x] BY <1>2, ObjectFacts
  <2>2. \A x \in Iters \cup Snaps : HoldsDb(x)' <=> HoldsDb(x) BY <1>1, <2>1 DEF HoldsDb
  <2>3. \A i \in Iters, s \in Snaps : HoldsSnapshot(i, s)' <=> HoldsSnapshot(i, s)
    BY <1>1, <2>1 DEF HoldsSnapshot
  <2>4. QED BY <1>1, <2>2, <2>3, HoldersSame, CountSame DEF RefsInv
<1>9. QED BY <1>1, <1>3, <1>4, <1>5, <1>6, <1>7, <1>8 DEF RefsInv

LEMMA ClearPtrRefs ==
    ASSUME RefsInv, NEW h \in Threads, NEW o \in Objects, ClearPtr(h, o)
    PROVE  RefsInv'
<1>1. /\ closing[o] = "clear" /\ stack[h] # <<>> /\ Head(stack[h]) = o
      /\ UNCHANGED <<mRefCount, live, home, snapOf, made, closed, pc, cur, used, misused, opens>>
  BY DEF ClearPtr, At
<1>2. /\ o \in made /\ mRefCount[o] = 0 /\ mPtr[o] = 1
  BY <1>1, ClosingIsMade
<1>3. /\ mPtr' \in [Objects -> {0, 1}] /\ monitor' \in [Objects -> Threads \cup {None}]
      /\ closing' \in [Objects -> Steps]
      /\ mPtr'[o] = 0 /\ monitor'[o] = None /\ closing'[o] = "no"
      /\ \A x \in Objects : x # o => /\ mPtr'[x] = mPtr[x] /\ monitor'[x] = monitor[x]
                                     /\ closing'[x] = closing[x]
  BY DEF ClearPtr, RefsInv, WrapperTypes, Steps
<1>4. stack[h] \in Seq(Objects) BY DEF RefsInv, WrapperTypes
<1>5. Tail(stack[h]) \in Seq(Objects) /\ Len(Tail(stack[h])) = Len(stack[h]) - 1
      /\ stack[h][1] = o
  BY <1>1, <1>4
<1>6. stack'[h] = Tail(stack[h]) /\ \A k \in Threads : k # h => stack'[k] = stack[k]
  BY DEF ClearPtr, RefsInv, WrapperTypes
<1>7. stack' \in [Threads -> Seq(Objects)] BY <1>5 DEF ClearPtr, RefsInv, WrapperTypes
<1>8. WrapperTypes' BY <1>1, <1>3, <1>7 DEF RefsInv, WrapperTypes
<1>9. CallInv' BY <1>1 DEF RefsInv, CallInv, CallOk
<1>10. UnmadeInv' BY <1>1, <1>2, <1>3 DEF RefsInv, UnmadeInv, WrapperTypes
<1>11. ClosingInv'
  <2> SUFFICES ASSUME NEW x \in Objects
               PROVE  /\ monitor'[x] = None <=> closing'[x] = "no"
                      /\ closing'[x] # "no" =>
                           /\ mRefCount'[x] = 0 /\ mPtr'[x] = 1
                           /\ \E k \in Threads : \E j \in 1..Len(stack'[k]) : stack'[k][j] = x
                      /\ closing'[x] = "destroy" => x = Db
                      /\ closing'[x] = "snapshot" => x \in Iters /\ snapOf'[x] # None
                      /\ closing'[x] = "db" => x \in Iters \cup Snaps
    BY DEF ClosingInv
  <2>1. CASE x = o
    BY <1>3, <2>1
  <2>2. CASE x # o
    <3>1. mPtr'[x] = mPtr[x] /\ monitor'[x] = monitor[x] /\ closing'[x] = closing[x]
      BY <1>3, <2>2
    <3>2. ASSUME closing[x] # "no"
          PROVE  \E k \in Threads : \E j \in 1..Len(stack'[k]) : stack'[k][j] = x
      <4>1. PICK k \in Threads : \E i \in 1..Len(stack[k]) : stack[k][i] = x
        BY <3>2 DEF RefsInv, ClosingInv
      <4>2. PICK j \in 1..Len(stack[k]) : stack[k][j] = x BY <4>1
      <4>3. CASE k # h BY <1>6, <4>2, <4>3
      <4>4. CASE k = h
        <5>1. j # 1 /\ j \in 1..Len(stack[h]) BY <1>5, <2>2, <4>2, <4>4
        <5>2. j - 1 \in 1..Len(Tail(stack[h])) BY <1>4, <1>5, <5>1
        <5>3. Tail(stack[h])[j - 1] = x BY <1>1, <1>4, <4>2, <4>4, <5>1, <5>2
        <5>4. QED BY <1>6, <5>2, <5>3
      <4>5. QED BY <4>3, <4>4
    <3>3. QED BY <1>1, <3>1, <3>2 DEF RefsInv, ClosingInv
  <2>3. QED BY <2>1, <2>2
<1>12. LiveInv'
  <2>1. LiveInv /\ made \subseteq Objects BY DEF RefsInv, WrapperTypes
  <2>2. \A x \in made : mRefCount[x] > 0 /\ (x = Db => opens = 1) => mPtr'[x] = 1
    BY <1>2, <1>3, <2>1 DEF LiveInv
  <2>3. \A x \in made : mPtr'[x] = 1 /\ closing'[x] = "no" => mRefCount[x] > 0
    BY <1>3, <2>1 DEF LiveInv
  <2>4. \A x \in Objects :
          <<x, 1>> \in live <=> mPtr'[x] = 1 /\ (mRefCount[x] > 0 \/ closing'[x] = "native")
    <3> TAKE x \in Objects
    <3>1. <<x, 1>> \in live <=> mPtr[x] = 1 /\ (mRefCount[x] > 0 \/ closing[x] = "native")
      BY <2>1 DEF LiveInv
    <3>2. CASE x = o BY <1>1, <1>2, <1>3, <3>1, <3>2
    <3>3. CASE x # o BY <1>3, <3>1, <3>3
    <3>4. QED BY <3>2, <3>3
  <2>5. QED BY <1>1, <2>1, <2>2, <2>3, <2>4 DEF LiveInv
<1>13. CountInv'
  <2>3. \A x \in Iters \cup Snaps : HoldsDb(x)' <=> HoldsDb(x)
    BY <1>1, <1>3, ObjectFacts DEF HoldsDb
  <2>4. \A i \in Iters, s \in Snaps : HoldsSnapshot(i, s)' <=> HoldsSnapshot(i, s)
    BY <1>1, <1>3, ObjectFacts DEF HoldsSnapshot
  <2>5. QED BY <1>1, <2>3, <2>4, HoldersSame, CountSame DEF RefsInv
<1>14. QED BY <1>1, <1>8, <1>9, <1>10, <1>11, <1>12, <1>13 DEF RefsInv

(* destroy() only touches a thread that is in no call.                     *)
LEMMA DestroyRefs ==
    ASSUME RefsInv, NEW h \in Threads, SetDestroy(h) \/ DestroyNow(h)
    PROVE  RefsInv'
<1>1. /\ pc[h] \in {"idle", "destroy"}
      /\ pc' = [pc EXCEPT ![h] = "idle"] \/ pc' = [pc EXCEPT ![h] = "destroy"]
      /\ UNCHANGED <<mPtr, mRefCount, monitor, live, home, snapOf, made, closed, cur, used, stack,
                     closing, misused, opens>>
  BY DEF SetDestroy, DestroyNow, Goto, Idle
<1>2. /\ pc' \in [Threads -> Pcs] /\ pc'[h] \in {"idle", "destroy"}
      /\ \A k \in Threads : k # h => pc'[k] = pc[k]
  BY <1>1 DEF RefsInv, WrapperTypes, Pcs
<1>3. \A k \in Threads :
        (pc'[k] \in {"idle", "destroy"} /\ pc[k] \in {"idle", "destroy"}) \/ pc'[k] = pc[k]
  BY <1>1, <1>2
<1>4. UNCHANGED <<mPtr, mRefCount, monitor, live, home, snapOf, made, closed, cur, used, stack,
                  closing, misused, opens>>
  BY <1>1
<1>5. WrapperTypes' BY <1>2, <1>4 DEF RefsInv, WrapperTypes
<1>6. CallInv'
  <2> SUFFICES ASSUME NEW k \in Threads
               PROVE  CallOk(k)' /\ (pc'[k] = "native" => used'[k] = Working(cur'[k]))
    BY DEF CallInv
  <2>1. CallOk(k) /\ (pc[k] = "native" => used[k] = Working(cur[k])) BY DEF RefsInv, CallInv
  <2>2. QED BY <1>3, <1>4, <2>1 DEF CallOk
<1>7. UnmadeInv' /\ ClosingInv' /\ LiveInv' BY <1>4 DEF RefsInv, UnmadeInv, ClosingInv, LiveInv
<1>8. CountInv'
  <2>1. \A x \in Iters \cup Snaps : HoldsDb(x)' <=> HoldsDb(x) BY <1>3, <1>4 DEF HoldsDb
  <2>2. \A i \in Iters, s \in Snaps : HoldsSnapshot(i, s)' <=> HoldsSnapshot(i, s)
    BY <1>3, <1>4 DEF HoldsSnapshot
  <2>3. QED BY <1>4, <2>1, <2>2, HoldersSame, CountSame DEF RefsInv
<1>9. QED BY <1>4, <1>5, <1>6, <1>7, <1>8 DEF RefsInv
-----------------------------------------------------------------------------
(* Every step keeps the invariant.                                         *)
LEMMA RefsStep == MaxOpens <= 1 /\ RefsInv /\ [Next]_vars => RefsInv'
<1> SUFFICES ASSUME MaxOpens <= 1, RefsInv, [Next]_vars PROVE RefsInv' OBVIOUS
<1>1. CASE UNCHANGED vars
  BY <1>1 DEF vars, RefsInv, WrapperTypes, CallInv, CallOk, UnmadeInv, ClosingInv, LiveInv,
              CountInv, Holders, HoldsDb, HoldsSnapshot
<1>2. CASE Next
  <2>1. PICK h \in Threads :
          \/ Open(h) \/ SetDestroy(h)
          \/ \E b \in Batches : NewBatch(h, b)
          \/ \E c \in Calls : AssertOpen(h, c)
          \/ \E o \in Objects : Close(h, o)
          \/ Inside(h)
    BY <1>2 DEF Next
  <2>2. CASE Open(h) BY <2>2, OpenRefs
  <2>3. CASE SetDestroy(h) BY <2>3, DestroyRefs
  <2>4. CASE \E b \in Batches : NewBatch(h, b) BY <2>4, NewBatchRefs
  <2>5. CASE \E c \in Calls : AssertOpen(h, c) BY <2>5, AssertOpenRefs
  <2>6. CASE \E o \in Objects : Close(h, o) BY <2>6, CloseRefs
  <2>7. CASE Inside(h)
    <3>1. CASE Ref(h) BY <3>1, RefRefs
    <3>2. CASE SnapshotRef(h) BY <3>2, SnapshotRefRefs
    <3>3. CASE EnterNative(h) BY <3>3, EnterNativeRefs
    <3>4. CASE LeaveNative(h) BY <3>4, LeaveNativeRefs
    <3>5. ASSUME NEW o \in Objects, Release(h, o) PROVE RefsInv'
      <4>1. At(h, "snapshot", o) \/ At(h, "db", o) BY <3>5 DEF Release
      <4>2. QED BY <3>5, <4>1, ReleaseSnapshotRefs, ReleaseDbRefs
    <3>6. ASSUME NEW o \in Objects, DeleteNative(h, o) PROVE RefsInv'
      BY <3>6, DeleteNativeRefs
    <3>7. ASSUME NEW o \in Objects, ClearPtr(h, o) PROVE RefsInv'
      BY <3>7, ClearPtrRefs
    <3>8. CASE DestroyOnClose(h) BY <3>8, DestroyOnCloseRefs
    <3>9. CASE DestroyNow(h) BY <3>9, DestroyRefs
    <3>10. QED
      BY <2>7, <3>1, <3>2, <3>3, <3>4, <3>5, <3>6, <3>7, <3>8, <3>9 DEF Inside
  <2>8. QED BY <2>1, <2>2, <2>3, <2>4, <2>5, <2>6, <2>7
<1>3. QED BY <1>1, <1>2

(* The invariant holds in every behaviour.                                 *)
LEMMA RefsHold == ASSUME MaxOpens <= 1 PROVE Spec => []RefsInv
<1>1. Init => RefsInv BY RefsInit
<1>2. RefsInv /\ [Next]_vars => RefsInv' BY RefsStep
<1>3. QED BY <1>1, <1>2, PTL DEF Spec

(* No native method works on a deleted object and none is deleted twice:   *)
(* for any number of threads, iterators, snapshots, batches and calls, in  *)
(* whichever order the wrappers are closed, when a database is opened once *)
(* and no wrapper is used after its close() (NativeObject.unref).          *)
THEOREM NoDeadUseHolds == ASSUME MaxOpens <= 1 PROVE Spec => []NoDeadUse
<1>1. RefsInv => NoDeadUse BY DEF RefsInv, NoDeadUse
<1>2. QED BY <1>1, RefsHold, PTL

(* Nothing leaks: when every wrapper was closed and no thread is inside a  *)
(* method, every native object has been deleted.  With nobody to hold a    *)
(* wrapper its count is 0, and closeNativeObject() has run.                *)
THEOREM NothingLeaksHolds == ASSUME MaxOpens <= 1 PROVE Spec => []NothingLeaks
<1>1. RefsInv => NothingLeaks
  <2>1. SUFFICES ASSUME RefsInv, made \subseteq closed, \A h \in Threads : Idle(h),
                        NEW n \in live
                 PROVE  FALSE
    BY DEF NothingLeaks
  <2>2. PICK o \in Objects : n = <<o, 1>> BY <2>1 DEF RefsInv, WrapperTypes
  <2>3. mRefCount[o] > 0 \/ closing[o] = "native" BY <2>1, <2>2 DEF RefsInv, LiveInv
  <2>4. \A x \in Objects : closing[x] = "no"
    <3>1. SUFFICES ASSUME NEW x \in Objects, closing[x] # "no" PROVE FALSE OBVIOUS
    <3>2. PICK h \in Threads : \E j \in 1..Len(stack[h]) : stack[h][j] = x
      BY <2>1, <3>1 DEF RefsInv, ClosingInv
    <3>3. stack[h] = <<>> BY <2>1 DEF Idle
    <3>4. QED BY <3>2, <3>3
  <2>5. \A h \in Threads : cur[h].new = None
    <3>1. \A h \in Threads : cur[h] = NoCall BY <2>1 DEF Idle, RefsInv, CallInv, CallOk
    <3>2. QED BY <3>1, NoCallFacts
  <2>6. \A x \in Objects : mRefCount[x] \in Nat /\ (mRefCount[x] > 0 <=> Holders(x) # {})
    BY <2>1, CountPositive DEF RefsInv
  <2>7. \A x \in Iters : mRefCount[x] = 0
    <3> TAKE x \in Iters
    <3>1. Holders(x) = {} BY <2>1, ObjectFacts DEF Holders
    <3>2. QED BY <2>6, <3>1, ObjectFacts
  <2>8. \A x \in Snaps : mRefCount[x] = 0
    <3> TAKE x \in Snaps
    <3>1. \A i \in Iters : ~HoldsSnapshot(i, x)
      BY <2>4, <2>5, <2>7, ObjectFacts DEF HoldsSnapshot
    <3>2. Holders(x) = {} BY <2>1, <3>1, ObjectFacts DEF Holders
    <3>3. QED BY <2>6, <3>2, ObjectFacts
  <2>9. mRefCount[Db] = 0
    <3>1. \A x \in Iters \cup Snaps : ~HoldsDb(x)
      BY <2>4, <2>5, <2>7, <2>8, ObjectFacts DEF HoldsDb
    <3>2. Holders(Db) = {} BY <2>1, <3>1, ObjectFacts DEF Holders
    <3>3. QED BY <2>6, <3>2, ObjectFacts
  <2>10. \A x \in Batches : mRefCount[x] = 0
    <3> TAKE x \in Batches
    <3>1. Holders(x) = {} BY <2>1, ObjectFacts DEF Holders
    <3>2. QED BY <2>6, <3>1, ObjectFacts
  <2>11. QED BY <2>3, <2>4, <2>7, <2>8, <2>9, <2>10, ObjectFacts
<1>2. QED BY <1>1, RefsHold, PTL

(* No step loses a destroy().  The thread that set the flag looks at the   *)
(* pointer only when no close() is between the flag and the pointer.       *)
LEMMA DestroyStep == RefsInv /\ RefsInv' /\ DestroyInv /\ [Next]_vars => DestroyInv'
<1> SUFFICES ASSUME RefsInv, RefsInv', DestroyInv, [Next]_vars, mDestroyOnClose'
             PROVE  \/ gone' \/ <<Db, 1>> \in live' \/ closing'[Db] = "destroy"
                    \/ \E h \in Threads : pc'[h] = "destroy"
  BY DEF DestroyInv
<1> DEFINE Kept == /\ mDestroyOnClose' => mDestroyOnClose
                   /\ gone => gone'
                   /\ <<Db, 1>> \in live => <<Db, 1>> \in live'
                   /\ closing[Db] = "destroy" => closing'[Db] = "destroy"
                   /\ \A h \in Threads : pc[h] = "destroy" => pc'[h] = "destroy"
<1>1. ASSUME Kept
      PROVE  \/ gone' \/ <<Db, 1>> \in live' \/ closing'[Db] = "destroy"
             \/ \E h \in Threads : pc'[h] = "destroy"
  BY <1>1 DEF DestroyInv
<1> HIDE DEF Kept
<1>2. Db \in Objects BY ObjectFacts
<1>3. CASE UNCHANGED vars
  <2>1. Kept BY <1>3 DEF Kept, vars
  <2>2. QED BY <1>1, <2>1
<1>4. CASE Next
  <2>1. PICK h \in Threads :
          \/ Open(h) \/ SetDestroy(h)
          \/ \E b \in Batches : NewBatch(h, b)
          \/ \E c \in Calls : AssertOpen(h, c)
          \/ \E o \in Objects : Close(h, o)
          \/ Inside(h)
    BY <1>4 DEF Next
  <2>2. pc[h] # "destroy" =>
          \A p : pc' = [pc EXCEPT ![h] = p] => \A k \in Threads : pc[k] = "destroy" => pc'[k] = "destroy"
    BY DEF RefsInv, WrapperTypes
  <2>3. CASE Open(h)
    <3>1. <<Db, opens'>> \in live' BY <2>3 DEF Open
    <3>2. opens' # 0 BY <2>3 DEF Open, RefsInv, WrapperTypes
    <3>3. opens' \in {0, 1} BY DEF RefsInv, WrapperTypes
    <3>4. QED BY <3>1, <3>2, <3>3
  <2>4. CASE SetDestroy(h)
    <3>1. pc'[h] = "destroy" BY <2>4 DEF SetDestroy, Goto, RefsInv, WrapperTypes
    <3>2. QED BY <3>1
  <2>5. CASE \E b \in Batches : NewBatch(h, b)
    <3>1. Kept BY <2>5 DEF NewBatch, Kept
    <3>2. QED BY <1>1, <3>1
  <2>6. CASE \E c \in Calls : AssertOpen(h, c)
    <3>1. PICK c \in Calls : AssertOpen(h, c) BY <2>6
    <3>2. Kept BY <2>2, <3>1 DEF AssertOpen, Idle, Goto, Kept
    <3>3. QED BY <1>1, <3>2
  <2>7. CASE \E o \in Objects : Close(h, o)
    <3>1. PICK o \in Objects : Close(h, o) BY <2>7
    <3>2. UNCHANGED <<live, gone, pc, mDestroyOnClose>> /\ Unref(h, o, closing)
      BY <3>1 DEF Close
    <3>3. o \in made \ closed BY <3>1 DEF Close
    <3>4. mRefCount[o] > 0 BY <3>3, OpenFacts
    <3>5. closing[o] = "no" BY <3>3, OpenFacts
    <3>6. closing[Db] = "destroy" => closing'[Db] = "destroy"
      <4>1. SUFFICES ASSUME closing[Db] = "destroy" PROVE closing'[Db] = "destroy" OBVIOUS
      <4>2. o # Db BY <3>5, <4>1
      <4>3. closing \in [Objects -> Steps] BY DEF RefsInv, WrapperTypes
      <4>4. CASE mRefCount[o] = 1
        <5>1. closing' = [closing EXCEPT ![o] = "native"] BY <3>2, <4>4 DEF Unref
        <5>2. QED BY <1>2, <4>1, <4>2, <4>3, <5>1
      <4>5. CASE mRefCount[o] # 1
        <5>1. closing' = closing BY <3>2, <3>4, <4>5 DEF Unref
        <5>2. QED BY <4>1, <5>1
      <4>6. QED BY <4>4, <4>5
    <3>7. Kept BY <3>2, <3>6 DEF Kept
    <3>8. QED BY <1>1, <3>7
  <2>8. CASE Inside(h)
    <3>1. CASE Ref(h) \/ SnapshotRef(h) \/ EnterNative(h)
      <4>1. pc[h] # "destroy" /\ (\E p : pc' = [pc EXCEPT ![h] = p])
            /\ UNCHANGED <<closing, live, gone, mDestroyOnClose>>
        BY <3>1 DEF Ref, SnapshotRef, EnterNative, Goto
      <4>2. \A k \in Threads : pc[k] = "destroy" => pc'[k] = "destroy" BY <2>2, <4>1
      <4>3. Kept BY <4>1, <4>2 DEF Kept
      <4>4. QED BY <1>1, <4>3
    <3>2. CASE LeaveNative(h)
      <4>1. pc[h] # "destroy" /\ pc' = [pc EXCEPT ![h] = "idle"]
            /\ UNCHANGED <<closing, gone, mDestroyOnClose>> /\ live \subseteq live'
        BY <3>2 DEF LeaveNative, Goto
      <4>2. Kept BY <2>2, <4>1 DEF Kept
      <4>3. QED BY <1>1, <4>2
    <3>3. ASSUME NEW o \in Objects, Release(h, o) PROVE Kept
      <4>1. UNCHANGED <<live, gone, pc, mDestroyOnClose>> BY <3>3 DEF Release
      <4>2. closing[Db] # "destroy"
        <5>1. closing[o] \in {"snapshot", "db"} BY <3>3 DEF Release, At
        <5>2. o \in Iters \cup Snaps BY <5>1 DEF RefsInv, ClosingInv
        <5>3. HoldsDb(o) BY <5>1 DEF HoldsDb
        <5>4. QED BY <5>2, <5>3, DbIsHeld
      <4>3. QED BY <4>1, <4>2 DEF Kept
    <3>4. ASSUME NEW o \in Objects, DeleteNative(h, o)
          PROVE  Kept \/ closing'[Db] = "destroy"
      <4>1. CASE o = Db
        BY <1>2, <3>4, <4>1 DEF DeleteNative, At, Advance, NextStep, RefsInv, WrapperTypes
      <4>2. CASE o # Db
        <5>1. closing'[Db] = closing[Db]
          BY <1>2, <3>4, <4>2 DEF DeleteNative, Advance, RefsInv, WrapperTypes
        <5>2. UNCHANGED <<gone, pc, mDestroyOnClose>>
              /\ (<<Db, 1>> \in live => <<Db, 1>> \in live')
          BY <3>4, <4>2 DEF DeleteNative
        <5>3. Kept BY <5>1, <5>2 DEF Kept
        <5>4. QED BY <5>3
      <4>3. QED BY <4>1, <4>2
    <3>5. ASSUME NEW o \in Objects, ClearPtr(h, o) PROVE Kept
      <4>1. closing[o] = "clear" /\ closing' = [closing EXCEPT ![o] = "no"]
            /\ UNCHANGED <<live, gone, pc, mDestroyOnClose>>
        BY <3>5 DEF ClearPtr, At
      <4>2. closing[Db] = "destroy" => closing'[Db] = "destroy"
        BY <1>2, <4>1 DEF RefsInv, WrapperTypes
      <4>3. QED BY <4>1, <4>2 DEF Kept
    <3>6. CASE DestroyOnClose(h)
      BY <3>6 DEF DestroyOnClose
    <3>7. CASE DestroyNow(h)
      <4>1. CASE mPtr[Db] = 0 BY <3>7, <4>1 DEF DestroyNow
      <4>2. CASE mPtr[Db] # 0
        <5>1. mPtr[Db] = 1 /\ closing[Db] = "no" /\ Db \in made
          BY <1>2, <3>7, <4>2 DEF DestroyNow, Free, RefsInv, WrapperTypes, ClosingInv, UnmadeInv
        <5>2. mRefCount[Db] > 0 BY <5>1 DEF RefsInv, LiveInv
        <5>3. <<Db, 1>> \in live BY <1>2, <5>1, <5>2 DEF RefsInv, LiveInv
        <5>4. live' = live BY <3>7 DEF DestroyNow
        <5>5. QED BY <5>3, <5>4
      <4>3. QED BY <4>1, <4>2
    <3>8. QED BY <1>1, <2>8, <3>1, <3>2, <3>3, <3>4, <3>5, <3>6, <3>7 DEF Inside
  <2>9. QED BY <2>1, <2>3, <2>4, <2>5, <2>6, <2>7, <2>8
<1>5. QED BY <1>3, <1>4

(* destroy() is not lost in a race with the last close(): when no thread   *)
(* is inside a method and the native database is gone, so are its files    *)
(* (DB.destroy, DB.closeNativeObject).                                     *)
THEOREM DestroyKeptHolds == ASSUME MaxOpens <= 1 PROVE Spec => []DestroyKept
<1>1. Init => DestroyInv BY RefsInit
<1>2. RefsInv /\ DestroyInv => DestroyKept
  <2>1. SUFFICES ASSUME RefsInv, DestroyInv, mDestroyOnClose, \A h \in Threads : Idle(h),
                        \A n \in live : n[1] # Db
                 PROVE  gone
    BY DEF DestroyKept
  <2>2. <<Db, 1>> \notin live BY <2>1
  <2>3. \A h \in Threads : pc[h] = "idle" /\ stack[h] = <<>> BY <2>1 DEF Idle
  <2>4. closing[Db] = "no"
    <3>1. SUFFICES ASSUME closing[Db] # "no" PROVE FALSE OBVIOUS
    <3>2. PICK h \in Threads : \E j \in 1..Len(stack[h]) : stack[h][j] = Db
      BY <2>1, <3>1, ObjectFacts DEF RefsInv, ClosingInv
    <3>3. QED BY <2>3, <3>2
  <2>5. QED BY <2>1, <2>2, <2>3, <2>4 DEF DestroyInv
<1>3. QED BY <1>1, <1>2, DestroyStep, RefsHold, PTL DEF Spec
=============================================================================
