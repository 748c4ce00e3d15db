-------------------------- MODULE DBImplBackground --------------------------
(***************************************************************************)
(* The type invariant of DBImpl and its background thread: its work is     *)
(* always scheduled, and the MANIFEST it writes never lets DB::Open hand   *)
(* out a sequence number again.  For every set of threads and requests,    *)
(* every value of the limits and any number of I/O errors, torn appends    *)
(* included.                                                               *)
(***************************************************************************)
EXTENDS DBImplOrder

-----------------------------------------------------------------------------
(* Types.                                                                  *)

CompactionPcs == {"work", "worked", "cmanifest", "cinstall"}

(* The running compaction's level-0 inputs are still in level 0: flushes   *)
(* in the middle of it add files and take none away.                       *)
InputsThere ==
    bpc \in CompactionPcs \/ (bpc \in FlushPcs /\ nested) => cmp.l0 <= l0

(* The inductive invariant: a count of level-0 files that would go below   *)
(* zero, or a flush of NULL, would leave the types.                        *)
TypeInv == TypeOK /\ OneLeader /\ InputsThere /\ FlushHasImm

USE DEF LeaderPcs, WriterPcs, FlushPcs, BgPcs, CompactionPcs

(* The database as DB::Open leaves it has the types. *)
LEMMA TypeInit == Init => TypeInv
<1> SUFFICES ASSUME Init PROVE TypeInv
  OBVIOUS
<1>1. ClientTypeOK
  <2>1. pc \in [Writers -> WriterPcs]
    BY DEF Init
  <2>2. req = [t \in Writers |-> NoRequest]
    BY DEF Init
  <2>3. req \in [Writers -> Request]
    BY <2>2 DEF Request
  <2>4. /\ done \in [Writers -> BOOLEAN] /\ ok \in [Writers -> BOOLEAN]
        /\ allowDelay \in [Writers -> BOOLEAN] /\ force \in [Writers -> BOOLEAN]
    BY DEF Init
  <2>5. /\ calls \in [Writers \cup Compactors -> Seq(SUBSET Requests)]
        /\ mpc \in [Compactors -> {"idle", "wait", "check"}]
        /\ mdone \in [Compactors -> BOOLEAN] /\ mleft \in [Compactors -> Nat]
        /\ dpc \in {"open", "wait", "check", "closed"}
    BY BoundsAssumption DEF Init
  <2> QED BY <2>1, <2>3, <2>4, <2>5 DEF ClientTypeOK
<1>2. SharedTypeOK
  <2>1. writers \in Seq(Writers)
    BY DEF Init
  <2>2. /\ groupLen \in Nat /\ newSequence \in Nat /\ lastSequence \in Nat
        /\ logfileNumber \in Nat /\ logNumber \in Nat /\ l0 \in Nat
    BY DEF Init
  <2>3. /\ logOk \in BOOLEAN /\ syncError \in BOOLEAN /\ deep \in Nat /\ seek \in BOOLEAN
        /\ bgError \in BOOLEAN /\ bgScheduled \in BOOLEAN /\ shuttingDown \in BOOLEAN
    BY DEF Init
  <2>4. /\ mem \subseteq Nat /\ (imm = None \/ imm \subseteq Nat) /\ tables \subseteq Nat
        /\ manual \in Compactors \cup {None}
    BY DEF Init
  <2> QED BY <2>1, <2>2, <2>3, <2>4 DEF SharedTypeOK
<1>3. BackgroundTypeOK
  <2>1. cmp = [manual |-> FALSE, size |-> FALSE, trivial |-> FALSE, l0 |-> 0] /\ edit = [log |-> 1, seq |-> 0]
    BY DEF Init
  <2>2. bpc \in BgPcs /\ nested \in BOOLEAN /\ bok \in BOOLEAN
    BY DEF Init
  <2> QED BY <2>1, <2>2 DEF BackgroundTypeOK
<1>4. StorageTypeOK
  BY DEF Init, StorageTypeOK
<1>5. GhostTypeOK
  <2>1. seqs = [t \in Writers |-> {}]
    BY DEF Init
  <2>2. seqs \in [Writers -> SUBSET Nat]
    BY <2>1
  <2>3. errors \in Nat /\ seeks \in Nat /\ acked = {} /\ ackedSync = {} /\ failed = {}
    BY DEF Init
  <2> QED BY <2>2, <2>3 DEF GhostTypeOK
<1>6. InputsThere /\ FlushHasImm
  BY DEF Init, InputsThere, FlushHasImm
<1> QED BY <1>1, <1>2, <1>3, <1>4, <1>5, <1>6, LeaderInit DEF TypeInv, TypeOK, LeaderInv

(* What the steps of the clients leave alone of the background thread.     *)
LEMMA ClientsKeepBackground ==
    ASSUME Next, ~BackgroundNext
    PROVE  UNCHANGED <<bgVars, manVars, tables, logNumber, l0, deep>>
<1> USE DEF clientVars, manualVars, groupVars, bgVars, storeVars, manVars, dataVars, treeVars,
            ghostVars
<1>1. ASSUME NEW t \in Writers, NEW r \in Requests, Write(t, r)
      PROVE  UNCHANGED <<bgVars, manVars, tables, logNumber, l0, deep>>
  BY <1>1 DEF Write
<1>2. ASSUME NEW t \in Writers, WriterStep(t)
      PROVE  UNCHANGED <<bgVars, manVars, tables, logNumber, l0, deep>>
  BY <1>2 DEF WriterStep, WriterWakes, RoomError, RoomDelay, RoomWait, RoomRetry, RoomSwitch,
     RoomSwitchFails, RoomNullBatch, BuildBatchGroup, AddRecord, AddRecordFails, Sync, SyncFails,
     InsertInto, FinishWrite, MemTableWait, MemTableReturns, roomUnchanged, writeUnchanged,
     memWaitUnchanged
<1>3. ASSUME NEW m \in Compactors, CompactRange(m) \/ CompactRangeWakes(m)
      PROVE  UNCHANGED <<bgVars, manVars, tables, logNumber, l0, deep>>
  BY <1>3 DEF CompactRange, CompactRangeWakes, compactRangeUnchanged
<1>4. ASSUME UpdateStats \/ Close \/ CloseWakes
      PROVE  UNCHANGED <<bgVars, manVars, tables, logNumber, l0, deep>>
  BY <1>4 DEF UpdateStats, Close, CloseWakes, closeUnchanged
<1> QED BY <1>1, <1>2, <1>3, <1>4 DEF Next

(* The storage: log files, MANIFEST. *)
LEMMA StorageTypes == TypeInv /\ [Next]_vars => StorageTypeOK'
<1> SUFFICES ASSUME TypeInv, [Next]_vars PROVE StorageTypeOK'
  OBVIOUS
<1> USE DEF clientVars, manualVars, groupVars, bgVars, storeVars, manVars, dataVars, treeVars,
            ghostVars
<1>1. ASSUME UNCHANGED <<storeVars, manVars>> PROVE StorageTypeOK'
  BY <1>1 DEF TypeInv, TypeOK, StorageTypeOK
<1>2. ASSUME NEW t \in Writers, AddRecord(t) \/ AddRecordFails(t) \/ Sync(t) \/ SyncFails(t)
      PROVE  StorageTypeOK'
  <2>1. InLog(Updates) \subseteq Nat \X Nat
    BY DEF TypeInv, TypeOK, SharedTypeOK, InLog, Updates
  <2>2. UNCHANGED manVars
    BY <1>2 DEF AddRecord, AddRecordFails, Sync, SyncFails, writeUnchanged
  <2>3. torn' \subseteq Nat
    BY <1>2 DEF AddRecord, AddRecordFails, Sync, SyncFails, TypeInv, TypeOK, StorageTypeOK, SharedTypeOK
  <2>4. logged' \subseteq Nat \X Nat /\ synced' \subseteq logged'
    BY <1>2, <2>1 DEF AddRecord, AddRecordFails, Sync, SyncFails, TypeInv, TypeOK, StorageTypeOK
  <2> QED BY <2>2, <2>3, <2>4 DEF TypeInv, TypeOK, StorageTypeOK
<1>3. ASSUME FlushManifest \/ CompactionManifest PROVE StorageTypeOK'
  <2>1. bpc = "manifest" => imm \subseteq Nat
    BY DEF TypeInv, TypeOK, SharedTypeOK, FlushHasImm
  <2>2. manLog' \in Nat /\ manSeq' \in Nat /\ manTables' \subseteq Nat
    BY <1>3, <2>1 DEF FlushManifest, CompactionManifest, LogAndApply, TypeInv, TypeOK, StorageTypeOK,
                      BackgroundTypeOK
  <2>3. UNCHANGED storeVars
    BY <1>3 DEF FlushManifest, CompactionManifest, quiet, bgFrame
  <2> QED BY <2>2, <2>3 DEF TypeInv, TypeOK, StorageTypeOK
<1>4. ASSUME FlushInstall \/ CompactionInstall \/ CompactionFails PROVE StorageTypeOK'
  <2>1. UNCHANGED <<manVars, torn>>
    BY <1>4 DEF FlushInstall, CompactionInstall, CompactionFails, bgFrame
  <2>2. \/ UNCHANGED <<logged, synced>>
        \/ \E n \in {edit.log, logNumber} :
             logged' = {p \in logged : p[1] >= n} /\ synced' = {p \in synced : p[1] >= n}
    BY <1>4 DEF FlushInstall, CompactionInstall, CompactionFails, EndCompaction, DeleteObsoleteFiles
  <2>3. logged' \subseteq Nat \X Nat /\ synced' \subseteq logged'
    BY <2>2 DEF TypeInv, TypeOK, StorageTypeOK
  <2> QED BY <2>1, <2>3 DEF TypeInv, TypeOK, StorageTypeOK
<1>5. ASSUME NEW t \in Writers, WriterStep(t),
             ~(AddRecord(t) \/ AddRecordFails(t) \/ Sync(t) \/ SyncFails(t))
      PROVE  UNCHANGED <<storeVars, manVars>>
  BY <1>5 DEF WriterStep, WriterWakes, RoomError, RoomDelay, RoomWait, RoomRetry, RoomSwitch,
     RoomSwitchFails, RoomNullBatch, BuildBatchGroup, InsertInto, FinishWrite, MemTableWait,
     MemTableReturns, roomUnchanged, writeUnchanged, memWaitUnchanged
<1>6. ASSUME BackgroundNext, ~(FlushManifest \/ CompactionManifest),
             ~(FlushInstall \/ CompactionInstall \/ CompactionFails)
      PROVE  UNCHANGED <<storeVars, manVars>>
  BY <1>6 DEF BackgroundNext, BackgroundSkip, BackgroundFlush, ManualDone, PickCompaction,
     BuildTable, FlushApply, FlushAborts, FlushFails, WorkFlushesImm, WorkEnds,
     InstallCompactionResults, ManualLost, bgFrame, quiet
<1>7. ASSUME UpdateStats \/ Close \/ CloseWakes PROVE UNCHANGED <<storeVars, manVars>>
  BY <1>7 DEF UpdateStats, Close, CloseWakes, closeUnchanged
<1>8. ASSUME NEW m \in Compactors, CompactRange(m) \/ CompactRangeWakes(m)
      PROVE  UNCHANGED <<storeVars, manVars>>
  BY <1>8 DEF CompactRange, CompactRangeWakes, compactRangeUnchanged
<1>9. ASSUME NEW t \in Writers, NEW r \in Requests, Write(t, r) PROVE UNCHANGED <<storeVars, manVars>>
  BY <1>9 DEF Write
<1>10. CASE UNCHANGED vars
  BY <1>1, <1>10 DEF vars
<1> QED
  BY <1>1, <1>2, <1>3, <1>4, <1>5, <1>6, <1>7, <1>8, <1>9, <1>10 DEF Next

(* The background thread's locals. *)
LEMMA BackgroundTypes == TypeInv /\ [Next]_vars => BackgroundTypeOK'
<1> SUFFICES ASSUME TypeInv, [Next]_vars PROVE BackgroundTypeOK'
  OBVIOUS
<1>1. ASSUME UNCHANGED bgVars PROVE BackgroundTypeOK'
  BY <1>1 DEF TypeInv, TypeOK, BackgroundTypeOK, bgVars
<1>2. ASSUME BackgroundNext PROVE BackgroundTypeOK'
  <2>1. bpc' \in BgPcs
    BY <1>2 DEF TypeInv, TypeOK, BackgroundTypeOK, BackgroundNext, BackgroundSkip, BackgroundFlush,
       ManualDone, PickCompaction, BuildTable, FlushApply, FlushAborts, FlushManifest, FlushInstall,
       FlushFails, WorkFlushesImm, WorkEnds, InstallCompactionResults, CompactionManifest,
       CompactionInstall, CompactionFails, ManualLost, EndCompaction, EndCompactMemTable,
       EndBackgroundCall
  <2>2. nested' \in BOOLEAN /\ bok' \in BOOLEAN
    BY <1>2 DEF TypeInv, TypeOK, BackgroundTypeOK, BackgroundNext, BackgroundSkip, BackgroundFlush,
       ManualDone, PickCompaction, BuildTable, FlushApply, FlushAborts, FlushManifest, FlushInstall,
       FlushFails, WorkFlushesImm, WorkEnds, InstallCompactionResults, CompactionManifest,
       CompactionInstall, CompactionFails, ManualLost, LogAndApply
  <2>3. cmp' \in Picks \/ cmp' = cmp
    BY <1>2 DEF BackgroundNext, BackgroundSkip, BackgroundFlush,
       ManualDone, PickCompaction, BuildTable, FlushApply, FlushAborts, FlushManifest, FlushInstall,
       FlushFails, WorkFlushesImm, WorkEnds, InstallCompactionResults, CompactionManifest,
       CompactionInstall, CompactionFails, ManualLost
  <2>4. edit' \in {edit, FlushEdit, CompactionEdit}
    BY <1>2 DEF BackgroundNext, BackgroundSkip, BackgroundFlush,
       ManualDone, PickCompaction, BuildTable, FlushApply, FlushAborts, FlushManifest, FlushInstall,
       FlushFails, WorkFlushesImm, WorkEnds, InstallCompactionResults, CompactionManifest,
       CompactionInstall, CompactionFails, ManualLost
  <2>5. Picks \subseteq [manual : BOOLEAN, trivial : BOOLEAN, l0 : Nat, size : BOOLEAN]
    BY DEF Picks, TypeInv, TypeOK, SharedTypeOK
  <2>6. FlushEdit \in [log : Nat, seq : Nat] /\ CompactionEdit \in [log : Nat, seq : Nat]
    BY DEF FlushEdit, CompactionEdit, TypeInv, TypeOK, SharedTypeOK
  <2> QED BY <2>1, <2>2, <2>3, <2>4, <2>5, <2>6 DEF TypeInv, TypeOK, BackgroundTypeOK
<1> QED BY <1>1, <1>2, ClientsKeepBackground DEF vars

(* BuildBatchGroup gives natural numbers to the updates of its group. *)
LEMMA GroupNumbers ==
    ASSUME TypeInv, NEW t \in Writers, BuildBatchGroup(t)
    PROVE  groupLen' \in Nat /\ newSequence' \in Nat /\ seqs' \in [Writers -> SUBSET Nat]
<1>1. PICK len \in 1..Len(writers) :
        /\ groupLen' = len /\ newSequence' = lastSequence + Count(len)
        /\ seqs' = [u \in Writers |-> IF \E i \in 1..len : writers[i] = u
                                      THEN Numbers(u) ELSE seqs[u]]
  BY DEF BuildBatchGroup, GroupLens
<1>2. /\ writers \in Seq(Writers) /\ lastSequence \in Nat /\ Len(writers) \in Nat
      /\ seqs \in [Writers -> SUBSET Nat]
  BY DEF TypeInv, TypeOK, SharedTypeOK, GhostTypeOK
<1>3. len \in Nat /\ Count(len) \in Nat
  BY <1>2, CountFacts
<1>4. ASSUME NEW i \in 1..len PROVE Numbers(writers[i]) \subseteq Nat
  <2>1. i \in 1..Len(writers)
    BY <1>2
  <2>2. PICK j \in 1..Len(writers) :
          Numbers(writers[i]) = lastSequence + Count(j-1) + 1 .. lastSequence + Count(j)
    BY <2>1 DEF Numbers
  <2>3. Count(j-1) \in Nat /\ Count(j) \in Nat
    BY CountFacts
  <2> QED BY <1>2, <2>2, <2>3
<1>5. \A u \in Writers : seqs'[u] \subseteq Nat
  BY <1>1, <1>2, <1>4
<1>6. seqs' \in [Writers -> SUBSET Nat]
  BY <1>1, <1>5
<1> QED BY <1>1, <1>2, <1>3, <1>6

(* Numbers that a returning call reports are natural numbers. *)
LEMMA AcknowledgeTypes ==
    ASSUME TypeInv, NEW t \in Writers, NEW status, Acknowledge({t}, status)
    PROVE  acked' \subseteq Nat /\ ackedSync' \subseteq acked' /\ failed' \subseteq Nat
<1> DEFINE numbers == UNION {seqs[u] : u \in {t}}
           durable == UNION {seqs[u] : u \in {v \in {t} : req[v].sync}}
<1>1. numbers \subseteq Nat /\ durable \subseteq numbers
  BY DEF TypeInv, TypeOK, GhostTypeOK
<1>2. \/ acked' = acked \cup numbers /\ ackedSync' = ackedSync \cup durable /\ failed' = failed
      \/ failed' = failed \cup numbers /\ acked' = acked /\ ackedSync' = ackedSync
  BY DEF Acknowledge
<1> HIDE DEF numbers, durable
<1> QED BY <1>1, <1>2 DEF TypeInv, TypeOK, GhostTypeOK

(* The bookkeeping. *)
LEMMA GhostTypes == TypeInv /\ [Next]_vars => GhostTypeOK'
<1> SUFFICES ASSUME TypeInv, [Next]_vars PROVE GhostTypeOK'
  OBVIOUS
<1> USE DEF clientVars, manualVars, groupVars, bgVars, storeVars, manVars, dataVars, treeVars,
            ghostVars
<1>1. ASSUME errors' \in Nat, seeks' \in Nat, seqs' \in [Writers -> SUBSET Nat],
             UNCHANGED <<acked, ackedSync, failed>>
      PROVE  GhostTypeOK'
  BY <1>1 DEF TypeInv, TypeOK, GhostTypeOK
<1>2. errors \in Nat /\ errors + 1 \in Nat /\ seeks \in Nat /\ seeks + 1 \in Nat
      /\ seqs \in [Writers -> SUBSET Nat]
  BY DEF TypeInv, TypeOK, GhostTypeOK
<1>3. ASSUME NEW t \in Writers, NEW r \in Requests, Write(t, r) PROVE GhostTypeOK'
  <2>1. UNCHANGED <<errors, seeks, acked, ackedSync, failed>> /\ seqs' = [seqs EXCEPT ![t] = {}]
    BY <1>3 DEF Write
  <2> QED BY <1>1, <1>2, <2>1
<1>4. ASSUME NEW t \in Writers, NEW status, Acknowledge({t}, status), errors' \in {errors, errors + 1},
             UNCHANGED <<seeks, seqs>>
      PROVE  GhostTypeOK'
  BY <1>2, <1>4, AcknowledgeTypes DEF GhostTypeOK
<1>5. ASSUME NEW t \in Writers, WriterStep(t) PROVE GhostTypeOK'
  <2>1. CASE BuildBatchGroup(t)
    <3>1. UNCHANGED <<errors, seeks, acked, ackedSync, failed>>
      BY <2>1 DEF BuildBatchGroup, roomUnchanged
    <3> QED BY <1>1, <1>2, <2>1, <3>1, GroupNumbers
  <2>2. CASE RoomError(t) \/ RoomSwitchFails(t) \/ RoomNullBatch(t) \/ FinishWrite(t)
    <3>1. /\ errors' \in {errors, errors + 1} /\ UNCHANGED <<seeks, seqs>>
          /\ \E status : Acknowledge({t}, status)
      BY <2>2 DEF RoomError, RoomSwitchFails, RoomNullBatch, FinishWrite, PopGroup, Fails,
                  roomUnchanged
    <3> QED BY <1>4, <3>1
  <2>3. CASE WriterWakes(t)
    <3>1. /\ UNCHANGED <<errors, seeks, seqs>>
          /\ \/ \E status : Acknowledge({t}, status)
             \/ UNCHANGED <<acked, ackedSync, failed>>
      BY <2>3 DEF WriterWakes
    <3> QED BY <1>1, <1>2, <1>4, <3>1
  <2>4. CASE ~(BuildBatchGroup(t) \/ WriterWakes(t)) /\ ~(RoomError(t) \/ RoomSwitchFails(t)
              \/ RoomNullBatch(t) \/ FinishWrite(t))
    <3>1. errors' \in {errors, errors + 1} /\ UNCHANGED <<seeks, seqs, acked, ackedSync, failed>>
      BY <1>5, <2>4 DEF WriterStep, RoomDelay, RoomWait, RoomRetry, RoomSwitch, AddRecord,
         AddRecordFails, Sync, SyncFails, InsertInto, MemTableWait, MemTableReturns, Works, Fails,
         roomUnchanged, writeUnchanged, memWaitUnchanged
    <3> QED BY <1>1, <1>2, <3>1
  <2> QED BY <2>1, <2>2, <2>3, <2>4
<1>6. ASSUME BackgroundNext PROVE GhostTypeOK'
  <2>1. errors' \in {errors, errors + 1} /\ UNCHANGED <<seeks, seqs, acked, ackedSync, failed>>
    BY <1>6 DEF BackgroundNext, BackgroundSkip, BackgroundFlush, ManualDone, PickCompaction,
       BuildTable, FlushApply, FlushAborts, FlushManifest, FlushInstall, FlushFails,
       WorkFlushesImm, WorkEnds, InstallCompactionResults, CompactionManifest, CompactionInstall,
       CompactionFails, ManualLost, LogAndApply, Works, Fails, bgFrame
  <2> QED BY <1>1, <1>2, <2>1
<1>7. ASSUME \/ UpdateStats \/ Close \/ CloseWakes
             \/ \E m \in Compactors : CompactRange(m) \/ CompactRangeWakes(m)
      PROVE  GhostTypeOK'
  <2>1. UNCHANGED <<errors, seqs, acked, ackedSync, failed>> /\ seeks' \in {seeks, seeks + 1}
    BY <1>7 DEF UpdateStats, Close, CloseWakes, closeUnchanged, CompactRange, CompactRangeWakes,
                compactRangeUnchanged
  <2> QED BY <1>1, <1>2, <2>1
<1>8. CASE UNCHANGED vars
  BY <1>1, <1>2, <1>8 DEF vars
<1> QED BY <1>3, <1>5, <1>6, <1>7, <1>8 DEF Next

(* The flush and the compaction still have what they work on. *)
LEMMA InputsStay == TypeInv /\ [Next]_vars => InputsThere' /\ FlushHasImm'
<1> SUFFICES ASSUME TypeInv, [Next]_vars PROVE InputsThere' /\ FlushHasImm'
  OBVIOUS
<1>1. ASSUME UNCHANGED <<bgVars, l0>>, imm' = imm \/ imm = None PROVE InputsThere' /\ FlushHasImm'
  BY <1>1 DEF TypeInv, InputsThere, FlushHasImm, bgVars
<1>2. ASSUME BackgroundNext PROVE InputsThere' /\ FlushHasImm'
  <2>1. CASE \E c \in Picks : PickCompaction(c)
    BY <2>1 DEF PickCompaction, InputsThere, FlushHasImm, quiet, treeVars
  <2>2. CASE BackgroundFlush \/ WorkFlushesImm
    BY <2>2 DEF BackgroundFlush, WorkFlushesImm, TypeInv, InputsThere, FlushHasImm, quiet, treeVars
  <2>3. CASE \/ BackgroundSkip \/ ManualDone \/ CompactionInstall \/ CompactionFails \/ ManualLost
    BY <2>3 DEF BackgroundSkip, ManualDone, CompactionInstall, CompactionFails, ManualLost,
       EndCompaction, EndBackgroundCall, InputsThere, FlushHasImm
  <2>4. CASE \/ BuildTable \/ FlushApply \/ FlushManifest \/ WorkEnds
             \/ InstallCompactionResults \/ CompactionManifest
    BY <2>4 DEF BuildTable, FlushApply, FlushManifest, WorkEnds, InstallCompactionResults,
       CompactionManifest, TypeInv, InputsThere, FlushHasImm, quiet, treeVars
  <2>5. CASE FlushAborts \/ FlushFails \/ FlushInstall
    <3>1. bpc \in FlushPcs /\ cmp' = cmp /\ bpc' = (IF nested THEN "work" ELSE "idle")
      BY <2>5 DEF FlushAborts, FlushFails, FlushInstall, EndCompactMemTable, EndBackgroundCall
    <3>2. l0' \in {l0, l0 + 1} /\ l0 \in Nat
      BY <2>5 DEF FlushAborts, FlushFails, FlushInstall, treeVars, TypeInv, TypeOK, SharedTypeOK
    <3>3. nested => cmp.l0 <= l0 /\ cmp.l0 \in Nat
      BY <3>1 DEF TypeInv, InputsThere, TypeOK, BackgroundTypeOK
    <3> QED BY <3>1, <3>2, <3>3 DEF InputsThere, FlushHasImm
  <2> QED BY <1>2, <2>1, <2>2, <2>3, <2>4, <2>5 DEF BackgroundNext
<1>3. ASSUME Next, ~BackgroundNext PROVE imm' = imm \/ imm = None
  BY <1>3 DEF Next, Write, WriterStep, WriterWakes, RoomError, RoomDelay, RoomWait, RoomRetry,
     RoomSwitch, CanSwitch, RoomSwitchFails, RoomNullBatch, BuildBatchGroup, AddRecord,
     AddRecordFails, Sync, SyncFails, InsertInto, FinishWrite, MemTableWait, MemTableReturns,
     CompactRange, CompactRangeWakes, UpdateStats, Close, CloseWakes, roomUnchanged,
     writeUnchanged, memWaitUnchanged, compactRangeUnchanged, closeUnchanged, dataVars
<1> QED BY <1>1, <1>2, <1>3, ClientsKeepBackground DEF vars, dataVars, treeVars

(* The writers' places, the queue and the group, from the leader argument. *)
LEMMA QueueTypesStay == TypeInv /\ [Next]_vars => QueueTypes' /\ OneLeader'
<1>1. TypeInv => LeaderInv
  BY DEF TypeInv, TypeOK, ClientTypeOK, SharedTypeOK, LeaderInv, QueueTypes
<1> QED BY <1>1, LeaderNext DEF LeaderInv

(* A call that is made leaves the ones after it.                           *)
LEMMA CallsLeft ==
    ASSUME NEW f \in [Writers \cup Compactors -> Seq(SUBSET Requests)], NEW t \in Writers \cup Compactors, f[t] # <<>>
    PROVE  [f EXCEPT ![t] = Tail(@)] \in [Writers \cup Compactors -> Seq(SUBSET Requests)]
<1>1. Tail(f[t]) \in Seq(SUBSET Requests)
  OBVIOUS
<1> QED BY <1>1

(* The locals of the threads that call the database. *)
LEMMA ClientTypes == TypeInv /\ [Next]_vars => ClientTypeOK'
<1> SUFFICES ASSUME TypeInv, [Next]_vars PROVE ClientTypeOK'
  OBVIOUS
<1> USE DEF clientVars, manualVars
<1>1. ClientTypeOK /\ pc' \in [Writers -> WriterPcs] /\ logOk \in BOOLEAN
  BY QueueTypesStay DEF TypeInv, TypeOK, SharedTypeOK, QueueTypes
<1>2. ASSUME UNCHANGED <<req, done, ok, allowDelay, force, calls, mpc, mdone, mleft, dpc>>
      PROVE  ClientTypeOK'
  BY <1>1, <1>2 DEF ClientTypeOK
<1>3. ASSUME NEW t \in Writers, NEW r \in Requests, Write(t, r) PROVE ClientTypeOK'
  <2>1. req' \in [Writers -> Request]
    BY <1>1, <1>3 DEF Write, ClientTypeOK, Request
  <2>2. done' \in [Writers -> BOOLEAN] /\ ok' \in [Writers -> BOOLEAN]
    BY <1>1, <1>3 DEF Write, ClientTypeOK
  <2>3. r.null \in BOOLEAN /\ (~r.null) \in BOOLEAN
    BY RequestsAssumption
  <2>4. allowDelay' \in [Writers -> BOOLEAN] /\ force' \in [Writers -> BOOLEAN]
    BY <1>1, <1>3, <2>3 DEF Write, ClientTypeOK
  <2>5. calls' \in [Writers \cup Compactors -> Seq(SUBSET Requests)]
    <3>1. calls' = [calls EXCEPT ![t] = Tail(@)] /\ calls[t] # <<>>
      BY <1>3 DEF Write
    <3> QED BY <1>1, <3>1, CallsLeft DEF ClientTypeOK
  <2>6. UNCHANGED <<mpc, mdone, mleft, dpc>>
    BY <1>3 DEF Write
  <2> QED BY <1>1, <2>1, <2>2, <2>4, <2>5, <2>6 DEF ClientTypeOK
<1>4. WakeCompactors \in [Compactors -> {"idle", "wait", "check"}]
      /\ WakeCloser \in {"open", "wait", "check", "closed"}
  BY <1>1 DEF WakeCompactors, WakeCloser, ClientTypeOK
<1>5. ASSUME NEW t \in Writers, NEW len, NEW status \in BOOLEAN, PopGroup(t, len, status)
      PROVE  done' \in [Writers -> BOOLEAN] /\ ok' \in [Writers -> BOOLEAN]
  <2>1. done' = [u \in Writers |-> done[u] \/ (u \in Group(len) \ {t})]
    BY <1>5 DEF PopGroup
  <2>2. ok' = [u \in Writers |-> IF u \in Group(len) THEN status ELSE ok[u]]
    BY <1>5 DEF PopGroup
  <2>3. done' \in [Writers -> BOOLEAN]
    BY <2>1, Zenon
  <2>4. ok' \in [Writers -> BOOLEAN]
    BY <1>1, <2>2 DEF ClientTypeOK
  <2> QED BY <2>3, <2>4
<1>6. ASSUME NEW t \in Writers, WriterStep(t) PROVE ClientTypeOK'
  <2>1. CASE RoomError(t) \/ RoomSwitchFails(t) \/ RoomNullBatch(t)
    <3>1. /\ \E status \in BOOLEAN : PopGroup(t, 1, status)
          /\ UNCHANGED <<req, allowDelay, force, calls, mpc, mdone, mleft, dpc>>
      BY <2>1 DEF RoomError, RoomSwitchFails, RoomNullBatch, roomUnchanged
    <3> QED BY <1>1, <1>5, <3>1 DEF ClientTypeOK
  <2>2. CASE FinishWrite(t)
    <3>1. /\ PopGroup(t, groupLen, logOk)
          /\ UNCHANGED <<req, allowDelay, force, calls, mdone, mleft>>
          /\ mpc' \in {mpc, WakeCompactors} /\ dpc' \in {dpc, WakeCloser}
      BY <2>2 DEF FinishWrite
    <3> QED BY <1>1, <1>4, <1>5, <3>1 DEF ClientTypeOK
  <2>3. CASE RoomDelay(t) \/ RoomSwitch(t)
    <3>1. /\ allowDelay' \in {allowDelay, [allowDelay EXCEPT ![t] = FALSE]}
          /\ force' \in {force, [force EXCEPT ![t] = FALSE]}
          /\ UNCHANGED <<req, done, ok, calls, mpc, mdone, mleft, dpc>>
      BY <2>3 DEF RoomDelay, RoomSwitch, roomUnchanged
    <3> QED BY <1>1, <3>1 DEF ClientTypeOK
  <2>4. CASE \/ WriterWakes(t) \/ RoomWait(t) \/ RoomRetry(t) \/ BuildBatchGroup(t)
             \/ AddRecord(t) \/ AddRecordFails(t) \/ Sync(t) \/ SyncFails(t) \/ InsertInto(t)
             \/ MemTableWait(t) \/ MemTableReturns(t)
    BY <1>2, <2>4 DEF WriterWakes, RoomWait, RoomRetry, BuildBatchGroup, AddRecord, AddRecordFails,
       Sync, SyncFails, InsertInto, MemTableWait, MemTableReturns, roomUnchanged, writeUnchanged,
       memWaitUnchanged
  <2> QED BY <1>6, <2>1, <2>2, <2>3, <2>4 DEF WriterStep
<1>7. ASSUME NEW m \in Compactors, CompactRange(m) \/ CompactRangeWakes(m) PROVE ClientTypeOK'
  <2>1. /\ \E p \in {"wait", "idle"} : mpc' = [mpc EXCEPT ![m] = p]
        /\ mdone' \in {mdone, [mdone EXCEPT ![m] = FALSE]}
        /\ \/ mleft' = mleft
           \/ \E n \in 0..MaxRounds : mleft' = [mleft EXCEPT ![m] = n]
        /\ \/ calls' = calls
           \/ calls' = [calls EXCEPT ![m] = Tail(@)] /\ calls[m] # <<>>
        /\ UNCHANGED <<req, done, ok, allowDelay, force, dpc>>
    BY <1>7 DEF CompactRange, CompactRangeWakes, CompactRangeLoop, compactRangeUnchanged
  <2>2. mleft' \in [Compactors -> Nat]
    <3>1. mleft \in [Compactors -> Nat] /\ \A n \in 0..MaxRounds : n \in Nat
      BY <1>1, BoundsAssumption DEF ClientTypeOK
    <3>2. mleft' = mleft \/ \E n \in 0..MaxRounds : mleft' = [mleft EXCEPT ![m] = n]
      BY <2>1
    <3> QED BY <3>1, <3>2
  <2>3. calls' \in [Writers \cup Compactors -> Seq(SUBSET Requests)]
    <3>1. m \in Writers \cup Compactors /\ calls \in [Writers \cup Compactors -> Seq(SUBSET Requests)]
      BY <1>1 DEF ClientTypeOK
    <3>2. CASE calls' = calls
      BY <3>1, <3>2
    <3>3. CASE calls' = [calls EXCEPT ![m] = Tail(@)] /\ calls[m] # <<>>
      BY <3>1, <3>3, CallsLeft
    <3> QED BY <2>1, <3>2, <3>3
  <2>4. mpc' \in [Compactors -> {"idle", "wait", "check"}]
    BY <1>1, <2>1 DEF ClientTypeOK
  <2>5. mdone' \in [Compactors -> BOOLEAN]
    BY <1>1, <2>1 DEF ClientTypeOK
  <2>6. UNCHANGED <<req, done, ok, allowDelay, force, dpc>>
    BY <2>1
  <2> QED BY <1>1, <2>2, <2>3, <2>4, <2>5, <2>6 DEF ClientTypeOK
<1>8. ASSUME UpdateStats \/ Close \/ CloseWakes PROVE ClientTypeOK'
  BY <1>1, <1>8 DEF UpdateStats, Close, CloseWakes, closeUnchanged, ClientTypeOK
<1>9. ASSUME BackgroundNext PROVE ClientTypeOK'
  <2>1. /\ UNCHANGED <<req, done, ok, allowDelay, force, calls>>
        /\ mpc' \in {mpc, WakeCompactors} /\ dpc' \in {dpc, WakeCloser}
    BY <1>9 DEF BackgroundNext, BackgroundSkip, BackgroundFlush, ManualDone, PickCompaction,
       BuildTable, FlushApply, FlushAborts, FlushManifest, FlushInstall, FlushFails,
       WorkFlushesImm, WorkEnds, InstallCompactionResults, CompactionManifest, CompactionInstall,
       CompactionFails, ManualLost, EndCompaction, EndCompactMemTable, EndBackgroundCall,
       SignalAll, bgFrame, quiet
  <2>2. mleft' = mleft \/ \E m \in Compactors : mleft[m] > 0 /\ mleft' = [mleft EXCEPT ![m] = @ - 1]
    BY <1>9 DEF BackgroundNext, BackgroundSkip, BackgroundFlush, ManualDone, PickCompaction,
       BuildTable, FlushApply, FlushAborts, FlushManifest, FlushInstall, FlushFails,
       WorkFlushesImm, WorkEnds, InstallCompactionResults, CompactionManifest, CompactionInstall,
       CompactionFails, ManualLost, TypeInv, TypeOK, SharedTypeOK
  <2>3. mdone' = mdone \/ \E m \in Compactors \cup {None}, b \in BOOLEAN : mdone' = [mdone EXCEPT ![m] = b]
    BY <1>9 DEF BackgroundNext, BackgroundSkip, BackgroundFlush, ManualDone, PickCompaction,
       BuildTable, FlushApply, FlushAborts, FlushManifest, FlushInstall, FlushFails,
       WorkFlushesImm, WorkEnds, InstallCompactionResults, CompactionManifest, CompactionInstall,
       CompactionFails, ManualLost, EndCompaction, quiet, TypeInv, TypeOK, SharedTypeOK
  <2>4. mleft' \in [Compactors -> Nat]
    BY <1>1, <2>2 DEF ClientTypeOK
  <2>5. mdone' \in [Compactors -> BOOLEAN]
    BY <1>1, <2>3 DEF ClientTypeOK
  <2> QED BY <1>1, <1>4, <2>1, <2>4, <2>5 DEF ClientTypeOK
<1>10. CASE UNCHANGED vars
  BY <1>2, <1>10 DEF vars
<1> QED BY <1>3, <1>6, <1>7, <1>8, <1>9, <1>10 DEF Next

(* What mutex_ protects. *)
LEMMA SharedTypes == TypeInv /\ [Next]_vars => SharedTypeOK'
<1> SUFFICES ASSUME TypeInv, [Next]_vars PROVE SharedTypeOK'
  OBVIOUS
<1> DEFINE Numbered == /\ newSequence' \in Nat /\ lastSequence' \in Nat /\ logfileNumber' \in Nat
                       /\ logNumber' \in Nat /\ l0' \in Nat
           Stored   == mem' \subseteq Nat /\ (imm' = None \/ imm' \subseteq Nat) /\ tables' \subseteq Nat
           Flags    == /\ logOk' \in BOOLEAN /\ syncError' \in BOOLEAN
                       /\ deep' \in Nat /\ seek' \in BOOLEAN
                       /\ bgError' \in BOOLEAN /\ shuttingDown' \in BOOLEAN
           Posted   == bgScheduled' \in BOOLEAN /\ manual' \in Compactors \cup {None}
<1> USE DEF clientVars, manualVars, groupVars, dataVars, treeVars
<1>1. SharedTypeOK /\ writers' \in Seq(Writers) /\ groupLen' \in Nat
  BY QueueTypesStay DEF TypeInv, TypeOK, QueueTypes
<1>2. ASSUME NEW t \in Writers, NEW r \in Requests, Write(t, r)
      PROVE  Numbered /\ Stored /\ Flags /\ Posted
  BY <1>1, <1>2 DEF Write, SharedTypeOK
<1>3. ASSUME NEW t \in Writers, WriterStep(t) PROVE Numbered /\ Stored /\ Flags /\ Posted
  <2>1. CASE BuildBatchGroup(t)
    BY <1>1, <2>1, GroupNumbers DEF BuildBatchGroup, roomUnchanged, SharedTypeOK
  <2>2. CASE RoomSwitch(t)
    <3>1. Numbered /\ Stored /\ Flags /\ manual' \in Compactors \cup {None}
      BY <1>1, <2>2 DEF RoomSwitch, roomUnchanged, SharedTypeOK
    <3>2. bgScheduled' \in BOOLEAN
      <4>1. bgScheduled' = (bgScheduled \/ WorkToDo(bgError, imm', manual, l0, deep > 0 \/ seek))
        BY <2>2 DEF RoomSwitch
      <4> QED BY <4>1, Zenon
    <3> QED BY <3>1, <3>2
  <2>3. CASE AddRecord(t) \/ AddRecordFails(t) \/ Sync(t) \/ SyncFails(t) \/ InsertInto(t)
    <3>1. Updates \subseteq Nat
      BY <1>1 DEF Updates, SharedTypeOK
    <3>2. Stored
      BY <1>1, <2>3, <3>1 DEF AddRecord, AddRecordFails, Sync, SyncFails, InsertInto, writeUnchanged,
                              SharedTypeOK
    <3>3. Numbered /\ Flags /\ Posted
      BY <1>1, <2>3 DEF AddRecord, AddRecordFails, Sync, SyncFails, InsertInto, writeUnchanged,
                        SharedTypeOK
    <3> QED BY <3>2, <3>3
  <2>4. CASE FinishWrite(t)
    <3>1. Numbered /\ Stored /\ Posted
      BY <1>1, <2>4 DEF FinishWrite, Publish, SharedTypeOK
    <3>2. bgError' = (bgError \/ syncError)
      BY <2>4 DEF FinishWrite
    <3>3. bgError' \in BOOLEAN
      BY <3>2, Zenon
    <3> QED BY <1>1, <2>4, <3>1, <3>3 DEF FinishWrite, SharedTypeOK
  <2>5. CASE \/ WriterWakes(t) \/ RoomError(t) \/ RoomDelay(t) \/ RoomWait(t) \/ RoomRetry(t)
             \/ RoomSwitchFails(t) \/ RoomNullBatch(t) \/ MemTableWait(t) \/ MemTableReturns(t)
    <3>1. UNCHANGED <<newSequence, logOk, syncError, lastSequence, dataVars, treeVars, bgError,
                      bgScheduled, shuttingDown, manual>>
      BY <2>5 DEF WriterWakes, RoomError, RoomDelay, RoomWait, RoomRetry, RoomSwitchFails,
         RoomNullBatch, MemTableWait, MemTableReturns, roomUnchanged, memWaitUnchanged
    <3> QED BY <1>1, <3>1 DEF SharedTypeOK
  <2> QED BY <1>3, <2>1, <2>2, <2>3, <2>4, <2>5 DEF WriterStep
<1>4. ASSUME NEW m \in Compactors, CompactRange(m) \/ CompactRangeWakes(m)
      PROVE  Numbered /\ Stored /\ Flags /\ Posted
  <2>1. UNCHANGED <<newSequence, logOk, syncError, lastSequence, dataVars, treeVars, bgError,
                    shuttingDown>>
    BY <1>4 DEF CompactRange, CompactRangeWakes, compactRangeUnchanged
  <2>2. manual' \in {m, manual, None}
    BY <1>4 DEF CompactRange, CompactRangeWakes, CompactRangeLoop
  <2>3. \/ bgScheduled' = bgScheduled
        \/ bgScheduled' = (\/ bgScheduled
                           \/ manual = None /\ WorkToDo(bgError, imm, m, l0, deep > 0 \/ seek))
    BY <1>4 DEF CompactRange, CompactRangeWakes, CompactRangeLoop
  <2>4. bgScheduled' \in BOOLEAN
    BY <1>1, <2>3, Zenon DEF SharedTypeOK
  <2> QED BY <1>1, <2>1, <2>2, <2>4 DEF SharedTypeOK
<1>5. ASSUME UpdateStats PROVE Numbered /\ Stored /\ Flags /\ Posted
  <2>1. Numbered /\ Stored /\ Flags /\ manual' \in Compactors \cup {None}
    BY <1>1, <1>5 DEF UpdateStats, SharedTypeOK
  <2>2. bgScheduled' = (bgScheduled \/ WorkToDo(bgError, imm, manual, l0, deep > 0 \/ seek'))
    BY <1>5 DEF UpdateStats
  <2>3. bgScheduled' \in BOOLEAN
    BY <2>2, Zenon
  <2> QED BY <2>1, <2>3
<1>6. ASSUME Close \/ CloseWakes PROVE Numbered /\ Stored /\ Flags /\ Posted
  <2>1. /\ UNCHANGED <<newSequence, logOk, syncError, lastSequence, dataVars, treeVars, bgError,
                      bgScheduled, manual>>
        /\ shuttingDown' \in {shuttingDown, TRUE}
    BY <1>6 DEF Close, CloseWakes, closeUnchanged
  <2> QED BY <1>1, <2>1 DEF SharedTypeOK
<1>7. ASSUME BackgroundNext PROVE Numbered /\ Stored /\ Flags /\ Posted
  <2>1. UNCHANGED <<newSequence, logOk, syncError, lastSequence, mem, logfileNumber, shuttingDown>>
    BY <1>7 DEF BackgroundNext, BackgroundSkip, BackgroundFlush, ManualDone, PickCompaction,
       BuildTable, FlushApply, FlushAborts, FlushManifest, FlushInstall, FlushFails,
       WorkFlushesImm, WorkEnds, InstallCompactionResults, CompactionManifest, CompactionInstall,
       CompactionFails, ManualLost, bgFrame
  <2>2. UNCHANGED <<imm, tables, logNumber>> \/ FlushInstall
    BY <1>7 DEF BackgroundNext, BackgroundSkip, BackgroundFlush, ManualDone, PickCompaction,
       BuildTable, FlushApply, FlushAborts, FlushManifest, FlushFails, WorkFlushesImm, WorkEnds,
       InstallCompactionResults, CompactionManifest, CompactionInstall, CompactionFails,
       ManualLost, quiet
  <2>3. FlushInstall => tables' \subseteq Nat /\ imm' = None /\ logNumber' \in Nat
    <3>1. FlushInstall => imm \subseteq Nat
      BY <1>1 DEF FlushInstall, TypeInv, FlushHasImm, SharedTypeOK
    <3> QED BY <1>1, <3>1 DEF FlushInstall, SharedTypeOK, TypeInv, TypeOK, BackgroundTypeOK
  <2>4. Stored /\ logNumber' \in Nat
    BY <1>1, <2>1, <2>2, <2>3 DEF SharedTypeOK
  <2>5. l0' \in Nat
    <3>1. CASE CompactionInstall
      BY <1>1, <3>1 DEF CompactionInstall, TypeInv, TypeOK, BackgroundTypeOK, InputsThere, SharedTypeOK
    <3>2. CASE ~CompactionInstall
      <4>1. l0' \in {l0, l0 + 1}
        BY <1>7, <3>2 DEF BackgroundNext, BackgroundSkip, BackgroundFlush, ManualDone,
           PickCompaction, BuildTable, FlushApply, FlushAborts, FlushManifest, FlushInstall,
           FlushFails, WorkFlushesImm, WorkEnds, InstallCompactionResults, CompactionManifest,
           CompactionFails, ManualLost, quiet
      <4> QED BY <1>1, <4>1 DEF SharedTypeOK
    <3> QED BY <3>1, <3>2
  <2>6. (deep' = deep \/ deep' \in deep..MaxDeep \/ deep' \in 0..deep - 1 \/ deep' \in 0..MaxDeep)
        /\ seek' \in {seek, FALSE} /\ bgError' \in {bgError, TRUE}
        /\ manual' \in {manual, None}
    BY <1>7 DEF BackgroundNext, BackgroundSkip, BackgroundFlush, ManualDone, PickCompaction,
       BuildTable, FlushApply, FlushAborts, FlushManifest, FlushInstall, FlushFails,
       WorkFlushesImm, WorkEnds, InstallCompactionResults, CompactionManifest, CompactionInstall,
       CompactionFails, ManualLost, EndCompaction, quiet
  <2>7. \/ bgScheduled' = bgScheduled
        \/ \E err, im, man, files, more : bgScheduled' = WorkToDo(err, im, man, files, more)
    BY <1>7 DEF BackgroundNext, BackgroundSkip, BackgroundFlush, ManualDone, PickCompaction,
       BuildTable, FlushApply, FlushAborts, FlushManifest, FlushInstall, FlushFails,
       WorkFlushesImm, WorkEnds, InstallCompactionResults, CompactionManifest, CompactionInstall,
       CompactionFails, ManualLost, EndCompaction, EndCompactMemTable, EndBackgroundCall, quiet
  <2>8. \A err, im, man, files, more : WorkToDo(err, im, man, files, more) \in BOOLEAN
    BY Zenon DEF WorkToDo
  <2>9. bgScheduled' \in BOOLEAN
    BY <1>1, <2>7, <2>8 DEF SharedTypeOK
  <2>10. deep' \in Nat
    BY <1>1, <2>6, BoundsAssumption DEF SharedTypeOK
  <2> QED BY <1>1, <2>1, <2>4, <2>5, <2>6, <2>9, <2>10 DEF SharedTypeOK
<1>8. CASE UNCHANGED vars
  BY <1>1, <1>8 DEF vars, SharedTypeOK
<1>9. Next => Numbered /\ Stored /\ Flags /\ Posted
  BY <1>2, <1>3, <1>4, <1>5, <1>6, <1>7 DEF Next
<1> QED BY <1>1, <1>8, <1>9 DEF SharedTypeOK

(* Every step of every thread keeps the types. *)
LEMMA TypeNext == TypeInv /\ [Next]_vars => TypeInv'
  BY ClientTypes, SharedTypes, BackgroundTypes, StorageTypes, GhostTypes, InputsStay,
     QueueTypesStay DEF TypeInv, TypeOK

(* Every variable keeps the type of the field or local it stands for; in   *)
(* particular the number of level-0 files never goes below zero, whatever  *)
(* is flushed while a compaction of some of them runs, and CompactMemTable *)
(* never works on a NULL imm_.                                             *)
THEOREM TypesHold == Spec => []TypeOK
<1>1. TypeInv /\ [Next]_vars => TypeInv'
  BY TypeNext
<1>2. TypeInv => TypeOK
  BY DEF TypeInv
<1> QED BY TypeInit, <1>1, <1>2, PTL DEF Spec

-----------------------------------------------------------------------------
(* The background thread.                                                  *)

(* The thread runs only while bg_compaction_scheduled_ is set. *)
WorkInv == WorkScheduled /\ (bpc # "idle" => bgScheduled)

(* The edit that LogAndApply is about to write takes the sequence number   *)
(* of the time it was filled in, with mutex_ held: at least that of the    *)
(* MANIFEST, and of every update in the memtable it makes a table of.      *)
ManifestInv ==
    /\ ManifestSequence /\ manSeq <= lastSequence
    /\ bpc \in {"manifest", "cmanifest"} => manSeq <= edit.seq /\ edit.seq <= lastSequence
    /\ bpc = "manifest" => \A s \in imm : s <= edit.seq

USE DEF LeaderPcs, WriterPcs, WritePcs, InWritePcs, FlushPcs, BgPcs, CompactionPcs

(* The steps that call MaybeScheduleCompaction with mutex_ held.           *)
LEMMA WorkNext == TypeInv /\ WorkInv /\ [Next]_vars => WorkInv'
<1> SUFFICES ASSUME TypeInv, WorkInv, [Next]_vars PROVE WorkInv'
  OBVIOUS
<1> USE DEF clientVars, manualVars, groupVars, bgVars, storeVars, manVars, dataVars, treeVars,
            ghostVars
<1>1. ASSUME UNCHANGED <<bpc, imm, manual, l0, deep, seek, bgScheduled>>, bgError => bgError',
             shuttingDown => shuttingDown'
      PROVE  WorkInv'
  BY <1>1, Zenon DEF WorkInv, WorkScheduled, WorkToDo, NeedsCompaction
<1>2. ASSUME NEW t \in Writers, NEW r \in Requests, Write(t, r) PROVE WorkInv'
  BY <1>1, <1>2 DEF Write
<1>3. ASSUME NEW t \in Writers, WriterStep(t) PROVE WorkInv'
  <2>1. CASE RoomSwitch(t)
    <3>1. UNCHANGED <<bpc, manual, l0, deep, seek, bgError, shuttingDown>>
      BY <2>1 DEF RoomSwitch, roomUnchanged
    <3>2. bgScheduled' = (bgScheduled \/ WorkToDo(bgError, imm', manual, l0, deep > 0 \/ seek))
      BY <2>1 DEF RoomSwitch
    <3>3. WorkScheduled'
      BY <3>1, <3>2 DEF WorkScheduled, WorkToDo, NeedsCompaction
    <3> QED BY <3>1, <3>2, <3>3 DEF WorkInv
  <2>2. CASE FinishWrite(t)
    <3>1. UNCHANGED <<bpc, imm, manual, l0, deep, seek, bgScheduled, shuttingDown>>
      BY <2>2 DEF FinishWrite
    <3>2. bgError => bgError'
      BY <2>2, Zenon DEF FinishWrite
    <3> QED BY <1>1, <3>1, <3>2
  <2>3. CASE ~RoomSwitch(t) /\ ~FinishWrite(t)
    <3>1. UNCHANGED <<bpc, imm, manual, l0, deep, seek, bgScheduled, shuttingDown, bgError>>
      BY <1>3, <2>3 DEF WriterStep, WriterWakes, RoomError, RoomDelay, RoomWait, RoomRetry,
         RoomSwitchFails, RoomNullBatch, BuildBatchGroup, AddRecord, AddRecordFails, Sync,
         SyncFails, InsertInto, MemTableWait, MemTableReturns, roomUnchanged,
         writeUnchanged, memWaitUnchanged
    <3> QED BY <1>1, <3>1
  <2> QED BY <2>1, <2>2, <2>3
<1>4. ASSUME NEW m \in Compactors, CompactRange(m) \/ CompactRangeWakes(m) PROVE WorkInv'
  <2>1. UNCHANGED <<bpc, imm, l0, deep, seek, bgError, shuttingDown>>
    BY <1>4 DEF CompactRange, CompactRangeWakes, compactRangeUnchanged
  <2>2. \/ /\ bgScheduled' = (bgScheduled \/ (manual = None /\ WorkToDo(bgError, imm, m, l0, deep > 0 \/ seek)))
           /\ manual' = IF manual = None THEN m ELSE manual
        \/ bgScheduled' = bgScheduled /\ manual' \in {manual, None}
    BY <1>4 DEF CompactRange, CompactRangeWakes, CompactRangeLoop
  <2>3. bgScheduled \in BOOLEAN
    BY DEF TypeInv, TypeOK, SharedTypeOK
  <2>4. bgScheduled => bgScheduled'
    BY <2>2
  <2>5. WorkScheduled'
    BY <2>1, <2>2, <2>3 DEF WorkInv, WorkScheduled, WorkToDo, NeedsCompaction
  <2> QED BY <2>1, <2>4, <2>5 DEF WorkInv
<1>5. CASE UpdateStats
  <2>1. /\ UNCHANGED <<bpc, imm, manual, l0, deep, bgError, shuttingDown>>
        /\ bgScheduled' = (bgScheduled \/ WorkToDo(bgError, imm, manual, l0, deep > 0 \/ seek'))
    BY <1>5 DEF UpdateStats
  <2>2. WorkScheduled'
    BY <2>1 DEF WorkScheduled, WorkToDo, NeedsCompaction
  <2> QED BY <2>1, <2>2 DEF WorkInv
<1>6. CASE Close \/ CloseWakes \/ UNCHANGED vars
  <2>1. /\ UNCHANGED <<bpc, imm, manual, l0, deep, seek, bgError, bgScheduled>>
        /\ shuttingDown => shuttingDown'
    BY <1>6 DEF Close, CloseWakes, closeUnchanged, vars
  <2> QED BY <1>1, <2>1
<1>7. ASSUME NEW err, NEW im, NEW man, NEW files, NEW more,
             EndBackgroundCall(err, im, man, files, more), UNCHANGED shuttingDown,
             bgError' = err, imm' = im, manual' = man, l0' = files, (deep > 0 \/ seek)' => more
      PROVE  WorkInv'
  BY <1>7, Zenon DEF EndBackgroundCall, WorkInv, WorkScheduled, WorkToDo, NeedsCompaction
<1>8. ASSUME bpc # "idle", UNCHANGED bgScheduled PROVE WorkInv'
  BY <1>8, Zenon DEF WorkInv, WorkScheduled
<1>9. CASE BackgroundNext
  <2> USE DEF bgFrame, quiet
  <2>1. CASE BackgroundSkip
    BY <1>7, <2>1 DEF BackgroundSkip
  <2>2. CASE ManualDone
    BY <1>7, <2>2 DEF ManualDone
  <2>3. CASE FlushAborts \/ FlushFails
    <3>1. /\ UNCHANGED <<imm, manual, l0, deep, seek, shuttingDown>> /\ bgError' = TRUE
          /\ EndCompactMemTable(TRUE, imm, l0, deep > 0 \/ seek) /\ bpc # "idle"
      BY <2>3 DEF FlushAborts, FlushFails
    <3> QED BY <1>7, <1>8, <3>1 DEF EndCompactMemTable
  <2>4. CASE FlushInstall
    <3>1. /\ UNCHANGED <<bgError, manual, shuttingDown>> /\ imm' = None /\ seek' = FALSE
          /\ EndCompactMemTable(bgError, None, l0', deep' > 0) /\ bpc # "idle"
      BY <2>4 DEF FlushInstall
    <3> QED BY <1>7, <1>8, <3>1 DEF EndCompactMemTable
  <2>5. CASE CompactionInstall \/ CompactionFails
    <3>1. UNCHANGED <<imm, shuttingDown>> /\ \E err : EndCompaction(err)
      BY <2>5 DEF CompactionInstall, CompactionFails
    <3>2. PICK err : EndCompaction(err)
      BY <3>1
    <3>3. bgError' = err /\ EndBackgroundCall(err, imm, manual', l0', deep' > 0 \/ seek')
      BY <3>2 DEF EndCompaction
    <3> QED BY <1>7, <3>1, <3>3
  <2>6. CASE BackgroundFlush \/ \E c \in Picks : PickCompaction(c)
    <3>1. /\ UNCHANGED <<imm, manual, l0, deep, seek, bgError, shuttingDown, bgScheduled>>
          /\ bgScheduled
      BY <2>6 DEF BackgroundFlush, PickCompaction, Starts
    <3> QED BY <3>1 DEF WorkInv, WorkScheduled
  <2>7. CASE \/ BuildTable \/ FlushApply \/ FlushManifest \/ WorkFlushesImm \/ WorkEnds
             \/ InstallCompactionResults \/ CompactionManifest \/ ManualLost
    <3>1. UNCHANGED bgScheduled /\ bpc # "idle"
      BY <2>7 DEF BuildTable, FlushApply, FlushManifest, WorkFlushesImm, WorkEnds,
         InstallCompactionResults, CompactionManifest, ManualLost
    <3> QED BY <1>8, <3>1
  <2> QED BY <1>9, <2>1, <2>2, <2>3, <2>4, <2>5, <2>6, <2>7 DEF BackgroundNext
<1> QED BY <1>2, <1>3, <1>4, <1>5, <1>6, <1>9 DEF Next

(* Whenever MaybeScheduleCompaction would have something to do,            *)
(* bg_compaction_scheduled_ is set, so that no memtable, manual compaction *)
(* or overfull level is ever forgotten.                                    *)
THEOREM WorkScheduledHolds == Spec => []WorkScheduled
<1>1. Init => WorkInv
  <2>1. ASSUME Init PROVE ~WorkToDo(bgError, imm, manual, l0, deep > 0 \/ seek)
    <3>1. /\ imm = None /\ manual = None /\ l0 = 0 /\ deep = 0 /\ seek = FALSE
      BY <2>1 DEF Init
    <3>2. ~(l0 >= CompactionTrigger)
      BY <3>1, BoundsAssumption
    <3> QED BY <3>1, <3>2 DEF WorkToDo, NeedsCompaction
  <2> QED BY <2>1 DEF Init, WorkInv, WorkScheduled
<1>2. TypeInv /\ WorkInv /\ [Next]_vars => TypeInv' /\ WorkInv'
  BY TypeNext, WorkNext
<1>3. WorkInv => WorkScheduled
  BY DEF WorkInv
<1> QED BY TypeInit, <1>1, <1>2, <1>3, PTL DEF Spec

(* Every step keeps the MANIFEST's sequence number ahead of its tables.    *)
LEMMA ManifestNext ==
    ASSUME TypeInv, OrderInv, OrderInv', ManifestInv, [Next]_vars
    PROVE  ManifestInv'
<1> USE DEF clientVars, manualVars, groupVars, bgVars, storeVars, manVars, dataVars, treeVars,
            ghostVars
<1>1. /\ lastSequence \in Nat /\ newSequence \in Nat /\ lastSequence <= newSequence
      /\ manSeq \in Nat /\ edit.seq \in Nat /\ manTables \subseteq Nat
      /\ imm # None => imm \subseteq 1..lastSequence
  BY OrderFacts DEF TypeInv, TypeOK, StorageTypeOK, BackgroundTypeOK, OrderInv, SequenceInv
<1>2. ASSUME UNCHANGED <<manSeq, manTables, bpc, edit>>, lastSequence' \in {lastSequence, newSequence},
             imm' = imm \/ imm = None
      PROVE  ManifestInv'
  <2>1. bpc = "manifest" => imm' = imm
    BY <1>2 DEF OrderInv, FlushHasImm
  <2>2. lastSequence' \in Nat /\ lastSequence <= lastSequence'
    BY <1>1, <1>2
  <2> QED BY <1>1, <1>2, <2>1, <2>2 DEF ManifestInv, ManifestSequence
<1>3. CASE ~BackgroundNext /\ Next
  <2>1. UNCHANGED <<manSeq, manTables, bpc, edit>>
    BY <1>3, ClientsKeepBackground
  <2>2. lastSequence' \in {lastSequence, newSequence} /\ (imm' = imm \/ imm = None)
    <3>1. ASSUME NEW t \in Writers, NEW r \in Requests, Write(t, r)
          PROVE  lastSequence' = lastSequence /\ imm' = imm
      BY <3>1 DEF Write
    <3>2. ASSUME NEW t \in Writers, WriterStep(t)
          PROVE  lastSequence' \in {lastSequence, newSequence} /\ (imm' = imm \/ imm = None)
      BY <3>2 DEF WriterStep, WriterWakes, RoomError, RoomDelay, RoomWait, RoomRetry, RoomSwitch,
         RoomSwitchFails, RoomNullBatch, BuildBatchGroup, AddRecord, AddRecordFails, Sync,
         SyncFails, InsertInto, FinishWrite, MemTableWait, MemTableReturns, roomUnchanged,
         writeUnchanged, memWaitUnchanged, CanSwitch, Publish
    <3>3. ASSUME \/ \E m \in Compactors : CompactRange(m) \/ CompactRangeWakes(m)
                 \/ UpdateStats \/ Close \/ CloseWakes
          PROVE  lastSequence' = lastSequence /\ imm' = imm
      BY <3>3 DEF CompactRange, CompactRangeWakes, compactRangeUnchanged, UpdateStats, Close,
                  CloseWakes, closeUnchanged
    <3> QED BY <1>3, <3>1, <3>2, <3>3 DEF Next
  <2> QED BY <1>2, <2>1, <2>2
<1>4. CASE BackgroundNext
  <2> USE DEF bgFrame, quiet
  <2>1. lastSequence' = lastSequence
    BY <1>4 DEF BackgroundNext, BackgroundSkip, BackgroundFlush, ManualDone, PickCompaction,
       BuildTable, FlushApply, FlushAborts, FlushManifest, FlushInstall, FlushFails,
       WorkFlushesImm, WorkEnds, InstallCompactionResults, CompactionManifest,
       CompactionInstall, CompactionFails, ManualLost
  <2>2. CASE FlushManifest \/ CompactionManifest
    <3>1. /\ bpc' \in {"install", "cinstall"}
          /\ \/ UNCHANGED <<manSeq, manTables>>
             \/ /\ bpc \in {"manifest", "cmanifest"} /\ manSeq' = edit.seq
                /\ manTables' = manTables \/ (bpc = "manifest" /\ manTables' = manTables \cup imm)
      BY <2>2 DEF FlushManifest, CompactionManifest, LogAndApply
    <3>2. CASE UNCHANGED <<manSeq, manTables>>
      BY <2>1, <3>1, <3>2 DEF ManifestInv, ManifestSequence
    <3>3. CASE /\ bpc \in {"manifest", "cmanifest"} /\ manSeq' = edit.seq
               /\ manTables' = manTables \/ (bpc = "manifest" /\ manTables' = manTables \cup imm)
      <4>1. manSeq <= edit.seq /\ edit.seq <= lastSequence /\ \A s \in manTables : s <= manSeq
        BY <3>3 DEF ManifestInv, ManifestSequence
      <4>2. \A s \in manTables : s \in Nat /\ s <= edit.seq
        BY <1>1, <4>1
      <4>3. bpc = "manifest" => \A s \in imm : s <= edit.seq
        BY DEF ManifestInv
      <4> QED BY <2>1, <3>1, <3>3, <4>1, <4>2, <4>3 DEF ManifestInv, ManifestSequence
    <3> QED BY <3>1, <3>2, <3>3
  <2>3. CASE FlushApply \/ InstallCompactionResults \/ \E c \in Picks : PickCompaction(c)
    <3>1. UNCHANGED <<manSeq, manTables, imm>> /\ edit'.seq = lastSequence
      BY <2>3 DEF FlushApply, InstallCompactionResults, PickCompaction, FlushEdit, CompactionEdit
    <3>2. bpc' = "manifest" => imm # None
      BY <2>3 DEF FlushApply, InstallCompactionResults, PickCompaction, OrderInv, FlushHasImm
    <3>3. bpc' = "manifest" => \A s \in imm : s <= lastSequence
      BY <1>1, <3>2
    <3> QED BY <1>1, <2>1, <3>1, <3>3 DEF ManifestInv, ManifestSequence
  <2>4. CASE ~(FlushManifest \/ CompactionManifest) /\ ~(FlushApply \/ InstallCompactionResults \/ \E c \in Picks : PickCompaction(c))
    <3>1. UNCHANGED <<manSeq, manTables>> /\ bpc' \notin {"manifest", "cmanifest"}
      BY <1>4, <2>4 DEF BackgroundNext, BackgroundSkip, BackgroundFlush, ManualDone,
         BuildTable, FlushAborts, FlushInstall, FlushFails, WorkFlushesImm, WorkEnds,
         CompactionInstall, CompactionFails, ManualLost, EndCompaction, EndCompactMemTable,
         EndBackgroundCall
    <3> QED BY <2>1, <3>1 DEF ManifestInv, ManifestSequence
  <2> QED BY <2>2, <2>3, <2>4
<1>5. CASE UNCHANGED vars
  BY <1>2, <1>5 DEF vars
<1> QED BY <1>3, <1>4, <1>5

(* The last sequence number in the MANIFEST covers every update in its     *)
(* tables, although writers go on while LogAndApply writes it with mutex_  *)
(* released: DB::Open never hands out a number again.                      *)
THEOREM ManifestSequenceHolds ==
    ASSUME None \notin SUBSET Nat
    PROVE  Spec => []ManifestSequence
<1>1. Init => ManifestInv
  BY DEF Init, ManifestInv, ManifestSequence
<1>2. TypeInv /\ [Next]_vars => TypeInv'
  BY TypeNext
<1>3. OrderInv /\ [Next]_vars => OrderInv'
  BY OrderNext
<1>4. TypeInv /\ OrderInv /\ OrderInv' /\ ManifestInv /\ [Next]_vars => ManifestInv'
  BY ManifestNext
<1>5. ManifestInv => ManifestSequence
  BY DEF ManifestInv
<1> QED BY TypeInit, OrderInit, <1>1, <1>2, <1>3, <1>4, <1>5, PTL DEF Spec
=============================================================================
