---------------------------- MODULE DBImplProofs ----------------------------
(***************************************************************************)
(* Theorems about DBImpl, for every set of threads and requests and every  *)
(* value of the limits.                                                    *)
(***************************************************************************)
EXTENDS DBImpl, TLAPS

(* What the leader argument needs to know of the types.                    *)
QueueTypes == pc \in [Writers -> WriterPcs] /\ writers \in Seq(Writers) /\ groupLen \in Nat

(* The inductive invariant of the leader argument. *)
LeaderInv == QueueTypes /\ OneLeader

USE DEF LeaderPcs, WriterPcs

(* A queue keeps its front when a writer joins it. *)
LEMMA HeadOfAppend ==
    ASSUME NEW s \in Seq(Writers), NEW t \in Writers
    PROVE  /\ Append(s, t) \in Seq(Writers)
           /\ Append(s, t) # <<>>
           /\ s = <<>> => Head(Append(s, t)) = t
           /\ s # <<>> => Head(Append(s, t)) = Head(s)
  OBVIOUS

(* DBImpl::Write starts with nobody at the front: the invariant holds. *)
LEMMA LeaderInit == Init => LeaderInv
  BY DEF Init, LeaderInv, QueueTypes, OneLeader

(* A writer that moves on between two places of the leader stays the front.*)
LEMMA LeaderMoves ==
    ASSUME LeaderInv, NEW t \in Writers, pc[t] \in LeaderPcs,
           NEW p \in LeaderPcs, pc' = [pc EXCEPT ![t] = p], UNCHANGED writers, groupLen' \in Nat
    PROVE  LeaderInv'
  BY DEF LeaderInv, QueueTypes, OneLeader, Front

(* bg_cv_.SignalAll() moves a leader that waits, and no other writer, to a *)
(* place of the leader.                                                    *)
LEMMA LeaderSignal ==
    ASSUME LeaderInv, pc' = WakeWriters(pc), UNCHANGED writers, groupLen' \in Nat
    PROVE  LeaderInv'
  BY DEF LeaderInv, QueueTypes, OneLeader, Front, WakeWriters
(* The loop at the end of Write leaves no leader behind: the front of the  *)
(* queue is signalled, and becomes the leader when it wakes.               *)
LEMMA LeaderPops ==
    ASSUME LeaderInv, NEW t \in Writers, pc[t] \in LeaderPcs,
           NEW len \in Nat, NEW status, writers' = Rest(len), Rest(len) \in Seq(Writers),
           groupLen' \in Nat,
           pc' = Popped(t, len, status) \/ pc' = WakeWriters(Popped(t, len, status))
    PROVE  LeaderInv' /\ \A u \in Writers : pc'[u] \notin LeaderPcs
<1> DEFINE p == Popped(t, len, status)
<1>1. p \in [Writers -> WriterPcs] /\ \A u \in Writers : p[u] \notin LeaderPcs
  BY DEF LeaderInv, QueueTypes, OneLeader, Front, Popped, AfterReturn
<1>2. /\ WakeWriters(p) \in [Writers -> WriterPcs]
      /\ \A u \in Writers : WakeWriters(p)[u] \notin LeaderPcs
  <2> HIDE DEF p
  <2> QED BY <1>1 DEF WakeWriters
<1>3. pc' \in [Writers -> WriterPcs] /\ \A u \in Writers : pc'[u] \notin LeaderPcs
  <2> HIDE DEF p
  <2> QED BY <1>1, <1>2 DEF p
<1> QED BY <1>3 DEF LeaderInv, QueueTypes, OneLeader

(* What is left of the queue is a queue. *)
LEMMA RestOfQueue ==
    ASSUME writers \in Seq(Writers), NEW len \in Nat
    PROVE  Rest(len) \in Seq(Writers)
  BY DEF Rest
(* Every step of every thread keeps the invariant. *)
LEMMA LeaderNext == LeaderInv /\ [Next]_vars => LeaderInv'
<1> SUFFICES ASSUME LeaderInv, [Next]_vars PROVE LeaderInv'
  OBVIOUS
<1> USE DEF clientVars, groupVars
<1>1. ASSUME NEW t \in Writers, NEW r \in Requests, Write(t, r) PROVE LeaderInv'
  BY <1>1, HeadOfAppend DEF Write, EnterQueue, LeaderInv, QueueTypes, OneLeader, Front
<1>2. ASSUME NEW t \in Writers, WriterWakes(t) PROVE LeaderInv'
  BY <1>2 DEF WriterWakes, AfterReturn, LeaderInv, QueueTypes, OneLeader, Front
<1>3. ASSUME NEW t \in Writers, RoomError(t) \/ RoomSwitchFails(t) \/ RoomNullBatch(t)
      PROVE  LeaderInv'
  <2>1. PICK status \in BOOLEAN :
          /\ pc[t] \in LeaderPcs /\ writers' = Rest(1) /\ groupLen' = groupLen
          /\ pc' = Popped(t, 1, status)
    BY <1>3 DEF RoomError, RoomSwitchFails, RoomNullBatch, CanSwitch, PopGroup
  <2>2. Rest(1) \in Seq(Writers) /\ groupLen' \in Nat
    BY <2>1, RestOfQueue DEF LeaderInv, QueueTypes
  <2> QED BY <2>1, <2>2, LeaderPops
<1>4. ASSUME NEW t \in Writers, FinishWrite(t) PROVE LeaderInv'
  <2>1. /\ pc[t] \in LeaderPcs /\ writers' = Rest(groupLen) /\ groupLen' = 0
        /\ \/ pc' = Popped(t, groupLen, logOk)
           \/ pc' = WakeWriters(Popped(t, groupLen, logOk))
    BY <1>4 DEF FinishWrite, PopGroup
  <2>2. groupLen \in Nat /\ Rest(groupLen) \in Seq(Writers)
    BY RestOfQueue DEF LeaderInv, QueueTypes
  <2> QED BY <2>1, <2>2, LeaderPops
<1>5. ASSUME NEW t \in Writers, BuildBatchGroup(t) PROVE LeaderInv'
  <2>1. groupLen' \in Nat
    BY <1>5 DEF BuildBatchGroup, GroupLens
  <2>2. pc[t] \in LeaderPcs /\ pc' = [pc EXCEPT ![t] = "log"] /\ UNCHANGED writers
    BY <1>5 DEF BuildBatchGroup
  <2> QED BY <2>1, <2>2, LeaderMoves
<1>6. ASSUME NEW t \in Writers,
             \/ RoomDelay(t) \/ RoomWait(t) \/ RoomRetry(t) \/ AddRecord(t)
             \/ AddRecordFails(t) \/ Sync(t) \/ SyncFails(t) \/ InsertInto(t)
      PROVE  LeaderInv'
  <2>1. /\ pc[t] \in LeaderPcs /\ UNCHANGED <<writers, groupLen>>
        /\ (\E p \in LeaderPcs : pc' = [pc EXCEPT ![t] = p]) \/ pc' = pc
    BY <1>6 DEF RoomDelay, RoomWait, RoomRetry, AddRecord, AddRecordFails, Sync, SyncFails,
                InsertInto, writeUnchanged
  <2> QED BY <2>1, LeaderMoves DEF LeaderInv, QueueTypes, OneLeader, Front
<1>7. ASSUME NEW t \in Writers, MemTableWait(t) \/ MemTableReturns(t) PROVE LeaderInv'
  BY <1>7 DEF MemTableWait, MemTableReturns, memWaitUnchanged, LeaderInv, QueueTypes, OneLeader,
              Front
<1>8. ASSUME UNCHANGED <<pc, writers, groupLen>> PROVE LeaderInv'
  BY <1>8 DEF LeaderInv, QueueTypes, OneLeader, Front
<1>9. ASSUME SignalAll, UNCHANGED <<writers, groupLen>> PROVE LeaderInv'
  <2>1. groupLen' \in Nat
    BY <1>9 DEF LeaderInv, QueueTypes
  <2> QED BY <1>9, <2>1, LeaderSignal DEF SignalAll
<1>10. ASSUME NEW t \in Writers, RoomSwitch(t) PROVE LeaderInv'
  BY <1>10, <1>8 DEF RoomSwitch
<1>11. ASSUME NEW m \in Compactors, CompactRange(m) \/ CompactRangeWakes(m) PROVE LeaderInv'
  BY <1>11, <1>8 DEF CompactRange, CompactRangeWakes, compactRangeUnchanged
<1>12. ASSUME UpdateStats \/ Close \/ CloseWakes PROVE LeaderInv'
  BY <1>12, <1>8 DEF UpdateStats, Close, CloseWakes, closeUnchanged
<1>13. ASSUME BackgroundNext PROVE LeaderInv'
  <2>1. UNCHANGED <<writers, groupLen>> /\ (UNCHANGED pc \/ SignalAll)
    BY <1>13 DEF BackgroundNext, BackgroundSkip, BackgroundFlush, ManualDone, PickCompaction,
       BuildTable, FlushApply, FlushAborts, FlushManifest, FlushInstall, FlushFails,
       WorkFlushesImm, WorkEnds, InstallCompactionResults, CompactionManifest,
       CompactionInstall, CompactionFails, ManualLost, EndCompaction, EndCompactMemTable,
       EndBackgroundCall, bgFrame, quiet
  <2> QED BY <2>1, <1>8, <1>9
<1>14. CASE UNCHANGED vars
  BY <1>14, <1>8 DEF vars
<1> QED
  BY <1>1, <1>2, <1>3, <1>4, <1>5, <1>6, <1>7, <1>10, <1>11, <1>12, <1>13, <1>14
     DEF Next, WriterStep

(* Only the writer at the front of writers_ ever makes room, appends to    *)
(* the log or inserts into mem_, whatever groups form, fail or wait: the   *)
(* claim of the comment in DBImpl::Write that lets it release mutex_.      *)
THEOREM OneLeaderHolds == Spec => []OneLeader
<1>1. LeaderInv => OneLeader
  BY DEF LeaderInv
<1> QED BY LeaderInit, LeaderNext, <1>1, PTL DEF Spec
=============================================================================
