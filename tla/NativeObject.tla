---------------------------- MODULE NativeObject ----------------------------
(***************************************************************************)
(* The Java wrappers: NativeObject's reference count and monitor, and what *)
(* DB, DB.Snapshot, Iterator and WriteBatch do with them.  Threads call    *)
(* methods and close(); a call first asserts that its wrapper is open and  *)
(* then passes mPtr, read without the monitor, to native code.             *)
(*                                                                         *)
(* Callers keep two rules that no code enforces: they close a wrapper once *)
(* and neither use nor reopen it during or after its close().              *)
(*                                                                         *)
(* A native object is <<wrapper, number>>; the number tells the databases  *)
(* of successive open() calls apart, and 0 is NULL.                        *)
(***************************************************************************)
EXTENDS Naturals, Sequences, FiniteSets

CONSTANTS
    Threads,
    Db,            \* the DB wrapper
    Iters, Snaps, Batches,   \* the wrappers that may be made
    None,
    MaxOpens,      \* bound: open() calls
    MaxUses        \* bound: plain calls per thread

Objects == {Db} \cup Iters \cup Snaps \cup Batches

ASSUME WrappersAssumption ==
    /\ None \notin Objects \cup Threads
    /\ Db \notin Iters \cup Snaps \cup Batches
    /\ Iters \cap (Snaps \cup Batches) = {} /\ Snaps \cap Batches = {}
    /\ IsFiniteSet(Iters) /\ IsFiniteSet(Snaps)
    /\ MaxOpens \in Nat /\ MaxUses \in Nat

VARIABLES
    mPtr, mRefCount,  \* fields of the wrappers
    monitor,       \* the thread that holds the wrapper's monitor across steps
    mDestroyOnClose,
    live,          \* native objects that exist
    home,          \* the number of the database a native object belongs to
    snapOf,        \* the snapshot an iterator holds a reference to
    made,          \* wrappers constructed
    closed,        \* wrappers close() was called on (since open())
    gone,          \* the database's files were destroyed
    pc, cur,       \* each thread's call: [op, obj, arg, new]
    used,          \* the native objects its native code works on
    stack,         \* the wrappers whose closeNativeObject() it is in, innermost first
    closing,       \* each wrapper's next step of that method, or "no"
    misused,       \* native objects used while they did not exist
    opens, uses

vars == <<mPtr, mRefCount, monitor, mDestroyOnClose, live, home, snapOf, made, closed, gone,
          pc, cur, used, stack, closing, misused, opens, uses>>

NoCall == [op |-> None, obj |-> None, arg |-> None, new |-> None]

(* A DB wrapper is made with one reference and no native database; the     *)
(* other wrappers are not there yet.                                       *)
Init ==
    /\ mPtr = [o \in Objects |-> 0]
    /\ mRefCount = [o \in Objects |-> IF o = Db THEN 1 ELSE 0]
    /\ monitor = [o \in Objects |-> None]
    /\ mDestroyOnClose = FALSE
    /\ live = {} /\ made = {Db} /\ closed = {} /\ gone = FALSE /\ misused = {}
    /\ home = [o \in Objects |-> 0]
    /\ snapOf = [o \in Iters |-> None]
    /\ pc = [h \in Threads |-> "idle"]
    /\ cur = [h \in Threads |-> NoCall]
    /\ used = [h \in Threads |-> {}]
    /\ stack = [h \in Threads |-> <<>>]
    /\ closing = [o \in Objects |-> "no"]
    /\ opens = 0
    /\ uses = [h \in Threads |-> 0]
-----------------------------------------------------------------------------
Idle(h) == pc[h] = "idle" /\ stack[h] = <<>>
Free(o) == monitor[o] = None
Goto(h, p) == pc' = [pc EXCEPT ![h] = p]

(* The natives a native call works on: an iterator reads its database.     *)
Natives(o, ptr) == {<<o, ptr>>} \cup (IF o \in Iters THEN {<<Db, home[o]>>} ELSE {})

(* DB.open(): mPtr = nativeOpen(); the LOCK file keeps a second one out.   *)
Open(h) ==
    /\ Idle(h) /\ opens < MaxOpens
    /\ Free(Db)
    /\ \A n \in live : n[1] # Db
    /\ opens' = opens + 1
    /\ mPtr' = [mPtr EXCEPT ![Db] = opens + 1]
    /\ live' = live \cup {<<Db, opens + 1>>}
    /\ gone' = FALSE
    /\ closed' = closed \ {Db}
    /\ UNCHANGED <<mRefCount, monitor, mDestroyOnClose, home, snapOf, made, pc, cur, used, stack,
                   closing, misused, uses>>

(* new WriteBatch() *)
NewBatch(h, b) ==
    /\ Idle(h) /\ b \notin made
    /\ made' = made \cup {b}
    /\ mPtr' = [mPtr EXCEPT ![b] = 1]
    /\ mRefCount' = [mRefCount EXCEPT ![b] = 1]
    /\ live' = live \cup {<<b, 1>>}
    /\ UNCHANGED <<monitor, mDestroyOnClose, home, snapOf, closed, gone, pc, cur, used, stack,
                   closing, misused, opens, uses>>
-----------------------------------------------------------------------------
(* Calls on an open wrapper.  A call with a wrapper as its argument is     *)
(* get(snapshot), iterator(snapshot) or write(batch); the argument is not  *)
(* asserted to be open.                                                    *)

BatchCalls == [op : {"call"}, obj : Batches, arg : {None}, new : {None}]
Calls ==
    BatchCalls
    \cup [op : {"call"}, obj : {Db}, arg : Snaps \cup Batches \cup {None}, new : {None}]
    \cup [op : {"call"}, obj : Iters, arg : {None}, new : {None}]
    \cup [op : {"make"}, obj : {Db}, arg : Snaps \cup {None}, new : Iters]
    \cup [op : {"make"}, obj : {Db}, arg : {None}, new : Snaps]

(* assertOpen(): a call on a closed wrapper throws and changes nothing. *)
AssertOpen(h, c) ==
    /\ Idle(h) /\ c.obj \in made /\ Free(c.obj)
    /\ mPtr[c.obj] # 0
    /\ c.arg # None => c.arg \in made
    /\ {c.obj, c.arg} \cap closed = {}
    /\ IF c.op = "make" THEN c.new \notin made /\ UNCHANGED uses
                        ELSE uses[h] < MaxUses /\ uses' = [uses EXCEPT ![h] = @ + 1]
    /\ \A k \in Threads : cur[k].new = None \/ cur[k].new # c.new
    /\ cur' = [cur EXCEPT ![h] = c]
    /\ Goto(h, IF c.op = "make" THEN "ref" ELSE "read")
    /\ UNCHANGED <<mPtr, mRefCount, monitor, mDestroyOnClose, live, home, snapOf, made, closed,
                   gone, used, stack, closing, misused, opens>>

(* iterator() and getSnapshot(): DB.this.ref() *)
RefSkipped(h) ==
    /\ pc[h] = "ref" /\ Free(Db)
    /\ Goto(h, IF cur[h].arg # None THEN "snapref" ELSE "read")
    /\ UNCHANGED <<mPtr, mRefCount, monitor, mDestroyOnClose, live, home, snapOf, made, closed,
                   gone, cur, used, stack, closing, misused, opens, uses>>
Ref(h) ==
    /\ pc[h] = "ref" /\ Free(Db)
    /\ mRefCount' = [mRefCount EXCEPT ![Db] = @ + 1]
    /\ Goto(h, IF cur[h].arg # None THEN "snapref" ELSE "read")
    /\ UNCHANGED <<mPtr, monitor, mDestroyOnClose, live, home, snapOf, made, closed, gone, cur,
                   used, stack, closing, misused, opens, uses>>

(* iterator(snapshot): snapshot.ref() *)
SnapshotRef(h) ==
    /\ pc[h] = "snapref" /\ Free(cur[h].arg)
    /\ mRefCount' = [mRefCount EXCEPT ![cur[h].arg] = @ + 1]
    /\ Goto(h, "read")
    /\ UNCHANGED <<mPtr, monitor, mDestroyOnClose, live, home, snapOf, made, closed, gone, cur,
                   used, stack, closing, misused, opens, uses>>

(* mPtr, and getPtr() of the argument, are passed to the native method. *)
EnterNative(h) ==
    LET c == cur[h] IN
    /\ pc[h] = "read"
    /\ c.arg # None => Free(c.arg)
    /\ used' = [used EXCEPT ![h] = Natives(c.obj, mPtr[c.obj])
                    \cup (IF c.arg # None THEN {<<c.arg, mPtr[c.arg]>>} ELSE {})]
    /\ Goto(h, "native")
    /\ UNCHANGED <<mPtr, mRefCount, monitor, mDestroyOnClose, live, home, snapOf, made, closed,
                   gone, cur, stack, closing, misused, opens, uses>>

(* The native method returns; iterator() and getSnapshot() make a wrapper. *)
LeaveNative(h) ==
    LET c == cur[h]
        n == c.new
    IN
    /\ pc[h] = "native"
    /\ misused' = misused \cup (used[h] \ live)
    /\ IF c.op = "make"
       THEN /\ made' = made \cup {n}
            /\ live' = live \cup {<<n, 1>>}
            /\ mPtr' = [mPtr EXCEPT ![n] = 1]
            /\ mRefCount' = [mRefCount EXCEPT ![n] = 1]
            /\ home' = [home EXCEPT ![n] = CHOOSE g \in 0..opens : <<Db, g>> \in used[h]]
            /\ snapOf' = IF n \in Iters THEN [snapOf EXCEPT ![n] = c.arg] ELSE snapOf
       ELSE UNCHANGED <<made, live, mPtr, mRefCount, home, snapOf>>
    /\ used' = [used EXCEPT ![h] = {}]
    /\ cur' = [cur EXCEPT ![h] = NoCall]
    /\ Goto(h, "idle")
    /\ UNCHANGED <<monitor, mDestroyOnClose, closed, gone, stack, closing, opens, uses>>
-----------------------------------------------------------------------------
(* close() and unref() *)

NextStepNoDbUnref(o) ==
    IF closing[o] = "native" /\ o = Db THEN "destroy"
    ELSE IF closing[o] = "native" /\ o \in Iters /\ snapOf[o] # None THEN "snapshot"
    ELSE IF closing[o] \in {"native", "snapshot"} /\ o \in Iters THEN "db"
    ELSE "clear"
(* closeNativeObject() of each class, and what unref() does after it:      *)
(* delete the native object, destroy the files, release the snapshot,      *)
(* release the database, clear mPtr.                                       *)
NextStep(o) ==
    IF closing[o] = "native" /\ o = Db THEN "destroy"
    ELSE IF closing[o] = "native" /\ o \in Iters /\ snapOf[o] # None THEN "snapshot"
    ELSE IF closing[o] \in {"native", "snapshot"} /\ o \in Iters \cup Snaps THEN "db"
    ELSE "clear"

\* Open iterators linked to each other: to unlink one, close() takes the
\* monitors of the others.
AtUnlinking(h, what, o) ==
    /\ stack[h] # <<>> /\ Head(stack[h]) = o /\ closing[o] = what
    /\ (what = "native" /\ o \in Iters) => \A i \in Iters \ {o} : monitor[i] \in {None, h}
At(h, what, o) == stack[h] # <<>> /\ Head(stack[h]) = o /\ closing[o] = what
Advance(o) == [closing EXCEPT ![o] = NextStep(o)]

(* unref() of o, with the steps that follow in its callers.  A count that  *)
(* is already 0 throws, and the exception leaves every monitor.            *)
Unref(h, o, callers) ==
    /\ Free(o)
    /\ IF mRefCount[o] = 0
       THEN /\ monitor' = [x \in Objects |-> IF monitor[x] = h THEN None ELSE monitor[x]]
            /\ closing' = [x \in Objects |-> IF monitor[x] = h THEN "no" ELSE closing[x]]
            /\ stack' = [stack EXCEPT ![h] = <<>>]
            /\ UNCHANGED mRefCount
       ELSE /\ mRefCount' = [mRefCount EXCEPT ![o] = @ - 1]
            /\ IF mRefCount[o] = 1
               THEN /\ monitor' = [monitor EXCEPT ![o] = h]
                    /\ closing' = [callers EXCEPT ![o] = "native"]
                    /\ stack' = [stack EXCEPT ![h] = <<o>> \o @]
               ELSE /\ closing' = callers
                    /\ UNCHANGED <<monitor, stack>>

(* close(), on a wrapper that is open. *)
Close(h, o) ==
    /\ Idle(h) /\ o \in made /\ mPtr[o] # 0
    /\ o \notin closed
    /\ \A k \in Threads : cur[k].obj # o /\ cur[k].arg # o
    /\ closed' = closed \cup {o}
    /\ Unref(h, o, closing)
    /\ UNCHANGED <<mPtr, mDestroyOnClose, live, home, snapOf, made, gone, pc, cur, used, misused,
                   opens, uses>>

(* An iterator or a snapshot o that is being closed releases its           *)
(* references, first an iterator's to its snapshot.                        *)
Release(h, o) ==
    /\ \/ At(h, "snapshot", o) /\ Unref(h, snapOf[o], Advance(o))
       \/ At(h, "db", o) /\ Unref(h, Db, Advance(o))
    /\ UNCHANGED <<mPtr, mDestroyOnClose, live, home, snapOf, made, closed, gone, pc, cur, used,
                   misused, opens, uses>>

(* nativeDestroy, nativeReleaseSnapshot (with the DB's pointer of now) or  *)
(* nativeClose.                                                            *)
DeleteNative(h, o) ==
    /\ At(h, "native", o)
    /\ o \in Snaps => Free(Db)
    /\ LET touched == Natives(o, mPtr[o]) \cup (IF o \in Snaps THEN {<<Db, mPtr[Db]>>} ELSE {})
       IN  /\ misused' = misused \cup (touched \ live)
           /\ live' = live \ {<<o, mPtr[o]>>}
    /\ closing' = Advance(o)
    /\ UNCHANGED <<mPtr, mRefCount, monitor, mDestroyOnClose, home, snapOf, made, closed, gone, pc,
                   cur, used, stack, opens, uses>>

DestroyOnClose(h) ==
    /\ At(h, "destroy", Db)
    /\ gone' = (gone \/ mDestroyOnClose)
    /\ closing' = Advance(Db)
    /\ UNCHANGED <<mPtr, mRefCount, monitor, mDestroyOnClose, live, home, snapOf, made, closed, pc,
                   cur, used, stack, misused, opens, uses>>

(* mPtr = 0, and the monitor is left. *)
ClearPtr(h, o) ==
    /\ At(h, "clear", o)
    /\ mPtr' = [mPtr EXCEPT ![o] = 0]
    /\ monitor' = [monitor EXCEPT ![o] = None]
    /\ closing' = [closing EXCEPT ![o] = "no"]
    /\ stack' = [stack EXCEPT ![h] = Tail(@)]
    /\ UNCHANGED <<mRefCount, mDestroyOnClose, live, home, snapOf, made, closed, gone, pc, cur,
                   used, misused, opens, uses>>
-----------------------------------------------------------------------------
(* destroy(): first the flag, then, under the monitor, the pointer. *)

SetDestroy(h) ==
    /\ Idle(h) /\ ~mDestroyOnClose
    /\ mDestroyOnClose' = TRUE
    /\ Goto(h, "destroy")
    /\ UNCHANGED <<mPtr, mRefCount, monitor, live, home, snapOf, made, closed, gone, cur, used,
                   stack, closing, misused, opens, uses>>

DestroyNowUnlocked(h) ==
    /\ pc[h] = "destroy"
    /\ gone' = (gone \/ mPtr[Db] = 0)
    /\ Goto(h, "idle")
    /\ UNCHANGED <<mPtr, mRefCount, monitor, mDestroyOnClose, live, home, snapOf, made, closed, cur,
                   used, stack, closing, misused, opens, uses>>
DestroyNow(h) ==
    /\ pc[h] = "destroy" /\ Free(Db)
    /\ gone' = (gone \/ mPtr[Db] = 0)
    /\ Goto(h, "idle")
    /\ UNCHANGED <<mPtr, mRefCount, monitor, mDestroyOnClose, live, home, snapOf, made, closed, cur,
                   used, stack, closing, misused, opens, uses>>
-----------------------------------------------------------------------------
(* What a thread does once it is inside a method. *)
Inside(h) ==
    \/ Ref(h) \/ SnapshotRef(h) \/ EnterNative(h) \/ LeaveNative(h)
    \/ \E o \in Objects : Release(h, o) \/ DeleteNative(h, o) \/ ClearPtr(h, o)
    \/ DestroyOnClose(h) \/ DestroyNow(h)

Next ==
    \E h \in Threads :
      \/ Open(h) \/ SetDestroy(h)
      \/ \E b \in Batches : NewBatch(h, b)
      \/ \E c \in Calls : AssertOpen(h, c)
      \/ \E o \in Objects : Close(h, o)
      \/ Inside(h)

Spec == Init /\ [][Next]_vars

(* The virtual machine schedules every thread that is inside a method.     *)
FairSpec == Spec /\ \A h \in Threads : WF_vars(Inside(h))
-----------------------------------------------------------------------------
(* Properties *)

(* No native method works on an object that has been deleted, and none is  *)
(* deleted twice, whoever closes the database, its iterators and its       *)
(* snapshots first.                                                        *)
NoDeadUse == misused = {}

(* Nothing leaks: once every wrapper was closed and the threads are done,  *)
(* no native object is left.                                               *)
NothingLeaks == (made \subseteq closed /\ \A h \in Threads : Idle(h)) => live = {}

(* destroy() is not lost in a race with the last close(): when both are    *)
(* over the files are gone.                                                *)
DestroyKept ==
    (/\ mDestroyOnClose /\ \A h \in Threads : Idle(h)
     /\ \A n \in live : n[1] # Db) => gone

(* Every call returns: no two threads wait for each other's monitor.       *)
CallsReturn == \A h \in Threads : ~Idle(h) ~> Idle(h)
=============================================================================
