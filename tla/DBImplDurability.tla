-------------------------- MODULE DBImplDurability --------------------------
(***************************************************************************)
(* Every update that DBImpl::Write acknowledged survives a crash of the    *)
(* process, and every update it acknowledged with WriteOptions.sync a      *)
(* crash of the machine, for every set of threads and requests, every      *)
(* value of the limits and any number of I/O errors, as long as a failed   *)
(* log append leaves no partial record behind.                             *)
(***************************************************************************)
EXTENDS DBImplOrder

(* The numbers of the log files. *)
LogTypes ==
    /\ logfileNumber \in Nat /\ logNumber \in Nat /\ manLog \in Nat
    /\ edit \in [log : Nat, seq : Nat]

(* A leader that is past AddRecord without an error has logged its group. *)
LeaderLogged ==
    \A t \in Writers :
      pc[t] \in {"sync", "insert", "relock"} /\ logOk => InLog(Updates) \subseteq logged

(* The current log covers mem_, the one before it covers imm_, and neither *)
(* is dropped, by the MANIFEST or from the disk, before a table has it.    *)
LogInv ==
    /\ torn = {}
    /\ InLog(mem) \subseteq logged
    /\ logNumber <= logfileNumber /\ manLog <= logfileNumber
    /\ tables \subseteq manTables
    /\ imm # None =>
         /\ {logfileNumber - 1} \X imm \subseteq logged
         /\ logNumber < logfileNumber
         /\ imm \subseteq manTables \/ manLog < logfileNumber

(* Where the flush or the compaction is. *)
FlushInv ==
    /\ bpc \in {"manifest", "install"} => edit.log = logfileNumber
    /\ bpc = "install" /\ bok => imm \subseteq manTables
    /\ bpc = "cmanifest" => edit.log = logNumber

(* The inductive invariant. *)
DurableInv == OrderInv /\ LogTypes /\ LeaderLogged /\ LogInv /\ FlushInv

USE DEF LeaderPcs, WriterPcs, WritePcs, InWritePcs, FlushPcs, BgPcs

LEMMA DurableInit == Init => DurableInv
<1> SUFFICES ASSUME Init PROVE DurableInv
  OBVIOUS
<1>1. LogTypes /\ LeaderLogged /\ LogInv /\ FlushInv
  BY DEF Init, LogTypes, LeaderLogged, LogInv, FlushInv, InLog
<1> QED BY <1>1, OrderInit DEF DurableInv

(* A step that leaves the data and the files alone, and lets no leader     *)
(* pass AddRecord, keeps what is known of them.                            *)
LEMMA StorageFrame ==
    ASSUME DurableInv, OrderInv',
           UNCHANGED <<mem, imm, logfileNumber, logNumber, tables, bpc, bok, edit, logged, torn,
                       manLog, manTables>>,
           \A u \in Writers : pc'[u] \in {"sync", "insert", "relock"} =>
             pc'[u] = pc[u] /\ UNCHANGED <<logOk, newSequence, lastSequence>>
    PROVE  DurableInv'
<1>1. LogTypes' /\ LogInv' /\ FlushInv'
  BY DEF DurableInv, LogTypes, LogInv, FlushInv, InLog
<1>2. LeaderLogged'
  BY DEF DurableInv, LeaderLogged, InLog, Updates
<1> QED BY <1>1, <1>2 DEF DurableInv

(* A step of the background thread that keeps the current log keeps what   *)
(* the leader has logged.                                                  *)
LEMMA LeaderLoggedFrame ==
    ASSUME LeaderLogged, pc' = pc \/ pc' = WakeWriters(pc),
           UNCHANGED <<newSequence, lastSequence, logOk, logfileNumber>>,
           \A p \in logged : p[1] = logfileNumber => p \in logged'
    PROVE  LeaderLogged'
<1>1. \A u \in Writers : pc'[u] \in WritePcs => pc'[u] = pc[u]
  BY DEF WakeWriters
<1>2. Updates' = Updates /\ InLog(Updates)' = InLog(Updates)
  BY DEF InLog, Updates
<1>3. InLog(Updates) \subseteq logged => InLog(Updates) \subseteq logged'
  BY DEF InLog
<1> QED BY <1>1, <1>2, <1>3 DEF LeaderLogged

(* Steps of the background thread that change no data. *)
LEMMA BackgroundMoves ==
    ASSUME DurableInv, OrderInv', UNCHANGED bgFrame, pc' = pc \/ pc' = WakeWriters(pc),
           UNCHANGED <<imm, logNumber, tables, logged, manVars>>,
           edit' \in [log : Nat, seq : Nat], FlushInv'
    PROVE  DurableInv'
<1> USE DEF bgFrame, groupVars, ghostVars, manVars
<1>1. LeaderLogged'
  BY LeaderLoggedFrame DEF DurableInv
<1>2. LogTypes' /\ LogInv'
  BY DEF DurableInv, LogTypes, LogInv, InLog
<1> QED BY <1>1, <1>2 DEF DurableInv

(* Dropping log files below a bound that the current log, and imm_'s while *)
(* it is there, are not below.                                             *)
LEMMA DeleteKeeps ==
    ASSUME DurableInv, NEW err, NEW number \in Nat, DeleteObsoleteFiles(err, number),
           number <= logfileNumber
    PROVE  /\ \A p \in logged : p[1] >= number => p \in logged'
           /\ \A p \in synced : p[1] >= number => p \in synced'
           /\ \A p \in logged : p[1] = logfileNumber => p \in logged'
           /\ InLog(mem) \subseteq logged'
  BY DEF DurableInv, LogTypes, LogInv, InLog, DeleteObsoleteFiles

(* The flush's install: imm_ is in the MANIFEST's tables, its log may go.  *)
LEMMA FlushInstallDurable ==
    ASSUME DurableInv, OrderInv', FlushInstall
    PROVE  DurableInv'
<1> USE DEF bgFrame, groupVars, ghostVars, manVars
<1>1. /\ UNCHANGED <<newSequence, lastSequence, logOk, mem, logfileNumber, torn, manLog, manTables,
                     edit>>
      /\ tables' = tables \cup imm /\ logNumber' = edit.log /\ imm' = None
      /\ bpc = "install" /\ bok /\ bpc' \in {"idle", "work"}
      /\ DeleteObsoleteFiles(bgError, edit.log)
      /\ pc' = WakeWriters(pc)
  BY DEF FlushInstall, EndCompactMemTable, EndBackgroundCall, SignalAll
<1>2. imm # None /\ edit.log = logfileNumber /\ imm \subseteq manTables
  BY <1>1 DEF DurableInv, FlushInv, OrderInv, FlushHasImm
<1>3. /\ \A p \in logged : p[1] = logfileNumber => p \in logged'
      /\ InLog(mem) \subseteq logged'
  BY <1>1, <1>2, DeleteKeeps DEF DurableInv, LogTypes
<1>4. LeaderLogged'
  BY <1>1, <1>3, LeaderLoggedFrame DEF DurableInv
<1>5. LogTypes' /\ FlushInv'
  BY <1>1 DEF DurableInv, LogTypes, FlushInv
<1>6. LogInv'
  BY <1>1, <1>2, <1>3 DEF DurableInv, LogInv, LogTypes, InLog
<1> QED BY <1>4, <1>5, <1>6 DEF DurableInv

(* The end of a compaction: log files below the version set's go.          *)
LEMMA CompactionEndDurable ==
    ASSUME DurableInv, OrderInv', CompactionInstall \/ CompactionFails
    PROVE  /\ DurableInv' /\ UNCHANGED <<mem, imm, tables, logfileNumber, logNumber>>
           /\ \A p \in synced : p[1] >= logNumber => p \in synced'
<1> USE DEF bgFrame, groupVars, ghostVars, manVars
<1>1. /\ UNCHANGED <<newSequence, lastSequence, logOk, mem, logfileNumber, torn, manLog, manTables,
                     edit, imm, logNumber, tables>>
      /\ bpc' = "idle" /\ pc' = WakeWriters(pc)
      /\ (logged' = logged /\ synced' = synced) \/ DeleteObsoleteFiles(bgError', logNumber)
  BY DEF CompactionInstall, CompactionFails, EndCompaction, EndBackgroundCall, SignalAll
<1>2. logNumber \in Nat /\ logNumber <= logfileNumber
  BY DEF DurableInv, LogTypes, LogInv
<1>3. /\ \A p \in logged : p[1] >= logNumber => p \in logged'
      /\ \A p \in synced : p[1] >= logNumber => p \in synced'
      /\ \A p \in logged : p[1] = logfileNumber => p \in logged'
      /\ InLog(mem) \subseteq logged'
  <2>1. CASE logged' = logged /\ synced' = synced
    BY <2>1 DEF DurableInv, LogInv
  <2>2. CASE DeleteObsoleteFiles(bgError', logNumber)
    BY <2>2, <1>2, DeleteKeeps
  <2> QED BY <1>1, <2>1, <2>2
<1>4. LeaderLogged'
  BY <1>1, <1>3, LeaderLoggedFrame DEF DurableInv
<1>5. LogTypes' /\ FlushInv'
  BY <1>1 DEF DurableInv, LogTypes, FlushInv
<1>6. LogInv'
  <2>1. imm # None => {logfileNumber - 1} \X imm \subseteq logged'
    <3> SUFFICES ASSUME imm # None, NEW s \in imm PROVE <<logfileNumber - 1, s>> \in logged'
      OBVIOUS
    <3>1. <<logfileNumber - 1, s>> \in logged /\ logfileNumber - 1 >= logNumber
      BY DEF DurableInv, LogInv, LogTypes
    <3> QED BY <3>1, <1>3
  <2> QED BY <1>1, <1>3, <2>1 DEF DurableInv, LogInv, InLog
<1> QED BY <1>1, <1>3, <1>4, <1>5, <1>6 DEF DurableInv

(* LogAndApply, before the new version is installed: whether or not the    *)
(* record is written, the logs the MANIFEST names and its tables cover     *)
(* imm_.                                                                   *)
LEMMA ManifestDurable ==
    ASSUME DurableInv, OrderInv', FlushManifest \/ CompactionManifest
    PROVE  DurableInv'
<1> USE DEF bgFrame, quiet, groupVars, ghostVars
<1>1. /\ UNCHANGED <<pc, newSequence, lastSequence, logOk, mem, logfileNumber, torn, edit, imm,
                     logNumber, tables, logged>>
  BY DEF FlushManifest, CompactionManifest
<1>2. \/ /\ bpc = "manifest" /\ bpc' = "install"
         /\ imm # None /\ edit.log = logfileNumber
         /\ \/ manLog' = edit.log /\ manTables' = manTables \cup imm
            \/ ~bok' /\ UNCHANGED <<manLog, manTables>>
      \/ /\ bpc' = "cinstall" /\ edit.log = logNumber
         /\ \/ manLog' = edit.log /\ manTables' = manTables
            \/ UNCHANGED <<manLog, manTables>>
  BY DEF FlushManifest, CompactionManifest, LogAndApply, DurableInv, FlushInv, OrderInv,
         FlushHasImm, manVars
<1>3. LeaderLogged'
  BY <1>1, LeaderLoggedFrame DEF DurableInv
<1>4. LogTypes'
  BY <1>1, <1>2 DEF DurableInv, LogTypes
<1>5. LogInv'
  BY <1>1, <1>2 DEF DurableInv, LogInv, LogTypes, InLog
<1>6. FlushInv'
  BY <1>1, <1>2 DEF DurableInv, FlushInv
<1> QED BY <1>3, <1>4, <1>5, <1>6 DEF DurableInv

(* Every step of the background thread. *)
LEMMA BackgroundDurable ==
    ASSUME DurableInv, OrderInv', BackgroundNext
    PROVE  DurableInv'
<1>1. CASE FlushManifest \/ CompactionManifest
  BY <1>1, ManifestDurable
<1>2. CASE FlushInstall
  BY <1>2, FlushInstallDurable
<1>3. CASE CompactionInstall \/ CompactionFails
  BY <1>3, CompactionEndDurable
<1>4. CASE BackgroundFlush \/ BuildTable \/ WorkFlushesImm \/ WorkEnds \/ ManualLost
  <2>1. /\ UNCHANGED <<bgFrame, quiet, edit, manVars>>
        /\ bpc' \notin {"manifest", "install", "cmanifest"}
    BY <1>4 DEF BackgroundFlush, BuildTable, WorkFlushesImm, WorkEnds, ManualLost
  <2>2. FlushInv' /\ edit' \in [log : Nat, seq : Nat]
    BY <2>1 DEF FlushInv, quiet, DurableInv, LogTypes
  <2> QED BY <2>1, <2>2, BackgroundMoves DEF quiet
<1>5. CASE FlushApply \/ InstallCompactionResults \/ \E c \in Picks : PickCompaction(c)
  <2>1. UNCHANGED <<bgFrame, quiet, manVars>>
    BY <1>5 DEF FlushApply, InstallCompactionResults, PickCompaction
  <2>2. lastSequence \in Nat /\ logfileNumber \in Nat /\ logNumber \in Nat
    BY OrderFacts DEF DurableInv, LogTypes
  <2>3. /\ edit' \in [log : Nat, seq : Nat]
        /\ FlushInv'
    <3>1. CASE FlushApply
      BY <2>2, <3>1 DEF FlushApply, FlushEdit, FlushInv, quiet, bgFrame
    <3>2. CASE InstallCompactionResults
      BY <2>2, <3>2 DEF InstallCompactionResults, CompactionEdit, FlushInv, quiet, bgFrame
    <3>3. ASSUME NEW c \in Picks, PickCompaction(c)
          PROVE  edit' \in [log : Nat, seq : Nat] /\ FlushInv'
      BY <2>2, <3>3 DEF PickCompaction, CompactionEdit, FlushInv, quiet, bgFrame
    <3> QED BY <1>5, <3>1, <3>2, <3>3
  <2> QED BY <2>1, <2>3, BackgroundMoves DEF quiet
<1>6. CASE BackgroundSkip \/ ManualDone \/ FlushAborts \/ FlushFails
  <2>1. /\ UNCHANGED <<bgFrame, imm, logNumber, tables, logged, manVars, edit>>
        /\ pc' = WakeWriters(pc) /\ bpc' \in {"idle", "work"}
    BY <1>6 DEF BackgroundSkip, ManualDone, FlushAborts, FlushFails, EndCompactMemTable,
                EndBackgroundCall, SignalAll
  <2>2. FlushInv' /\ edit' \in [log : Nat, seq : Nat]
    BY <2>1 DEF FlushInv, DurableInv, LogTypes
  <2> QED BY <2>1, <2>2, BackgroundMoves
<1> QED BY <1>1, <1>2, <1>3, <1>4, <1>5, <1>6 DEF BackgroundNext

(* The memtable switch: mem_ and its log become imm_ and the log before.   *)
LEMMA RoomSwitchDurable ==
    ASSUME DurableInv, OrderInv', None \notin SUBSET Nat, NEW t \in Writers, RoomSwitch(t)
    PROVE  DurableInv'
<1> USE DEF roomUnchanged, groupVars, bgVars, storeVars, manVars
<1>1. /\ pc[t] = "room" /\ imm = None
      /\ logfileNumber' = logfileNumber + 1 /\ imm' = mem /\ mem' = {}
      /\ UNCHANGED <<pc, logNumber, tables, bpc, bok, edit, logged, torn, manLog, manTables>>
  BY DEF RoomSwitch, CanSwitch
<1>2. logfileNumber \in Nat /\ logNumber \in Nat /\ manLog \in Nat
  BY DEF DurableInv, LogTypes
<1>3. \A u \in Writers : pc[u] \notin WritePcs
  BY <1>1, OneLeaderOnly DEF DurableInv
<1>4. LogTypes' /\ LeaderLogged'
  BY <1>1, <1>2, <1>3 DEF DurableInv, LogTypes, LeaderLogged
<1>5. LogInv'
  <2>1. {logfileNumber' - 1} \X imm' \subseteq logged'
    BY <1>1, <1>2 DEF DurableInv, LogInv, InLog
  <2> QED BY <1>1, <1>2, <2>1 DEF DurableInv, LogInv, InLog
<1>6. FlushInv'
  BY <1>1 DEF DurableInv, FlushInv, OrderInv, FlushHasImm
<1> QED BY <1>4, <1>5, <1>6 DEF DurableInv

(* The leader at work with mutex_ released: the log comes before mem_.     *)
LEMMA LogAndInsertDurable ==
    ASSUME DurableInv, OrderInv', TornAppends = FALSE, NEW t \in Writers,
           AddRecord(t) \/ AddRecordFails(t) \/ Sync(t) \/ SyncFails(t) \/ InsertInto(t)
    PROVE  DurableInv'
<1> USE DEF writeUnchanged, bgVars, storeVars, manVars, ghostVars
<1>1. UNCHANGED <<newSequence, lastSequence, imm, logfileNumber, logNumber, tables, bpc, bok, edit,
                  manLog, manTables>>
  BY DEF AddRecord, AddRecordFails, Sync, SyncFails, InsertInto
<1>2. pc[t] \in WritePcs /\ torn = {} /\ torn' = {} /\ logged \subseteq logged' /\ mem \subseteq mem'
  <2>1. torn = {}
    BY DEF DurableInv, LogInv
  <2> QED BY <2>1 DEF AddRecord, AddRecordFails, Sync, SyncFails, InsertInto
<1>3. /\ pc \in [Writers -> WriterPcs] /\ \A u \in Writers : pc[u] \in LeaderPcs => u = t
      /\ \A u \in Writers : u # t => pc'[u] = pc[u]
  <2>1. pc \in [Writers -> WriterPcs] /\ \A u \in Writers : pc[u] \in LeaderPcs => u = t
    BY <1>2, OneLeaderOnly, OrderFacts DEF DurableInv
  <2> QED BY <2>1 DEF AddRecord, AddRecordFails, Sync, SyncFails, InsertInto
<1>4. pc'[t] \in {"sync", "insert", "relock"} /\ logOk' => InLog(Updates) \subseteq logged'
  <2>1. /\ pc[t] \in {"log", "sync", "insert"} => logOk
        /\ pc[t] \in {"sync", "insert"} => InLog(Updates) \subseteq logged
        /\ torn = {}
    BY DEF DurableInv, LeaderLogged, LogInv, OrderInv, LeaderMem
  <2>2. CASE AddRecord(t)
    BY <1>3, <2>1, <2>2 DEF AddRecord
  <2>3. CASE AddRecordFails(t) \/ SyncFails(t)
    BY <2>3 DEF AddRecordFails, SyncFails
  <2>4. CASE Sync(t)
    BY <1>3, <2>1, <2>4 DEF Sync
  <2>5. CASE InsertInto(t)
    BY <1>3, <2>1, <2>5 DEF InsertInto
  <2> QED BY <2>2, <2>3, <2>4, <2>5
<1>5. mem' \subseteq mem \cup Updates /\ (mem' # mem => InLog(Updates) \subseteq logged)
  <2>1. pc[t] = "insert" => logOk /\ InLog(Updates) \subseteq logged
    BY DEF DurableInv, LeaderLogged, OrderInv, LeaderMem
  <2> QED BY <2>1 DEF AddRecord, AddRecordFails, Sync, SyncFails, InsertInto
<1>6. LogTypes' /\ FlushInv'
  BY <1>1 DEF DurableInv, LogTypes, FlushInv
<1>7. LeaderLogged'
  <2>1. \A u \in Writers : pc'[u] \in WritePcs => u = t
    BY <1>3
  <2>2. InLog(Updates)' = InLog(Updates)
    BY <1>1 DEF Updates, InLog
  <2> QED BY <1>4, <2>1, <2>2 DEF LeaderLogged
<1>8. LogInv'
  <2>1. InLog(mem)' \subseteq logged'
    BY <1>1, <1>2, <1>5 DEF InLog, DurableInv, LogInv
  <2> QED BY <1>1, <1>2, <2>1 DEF DurableInv, LogInv
<1> QED BY <1>6, <1>7, <1>8 DEF DurableInv

(* The steps of a writer that leave the data and the files alone.          *)
LEMMA QuietWriterSteps ==
    ASSUME NEW t \in Writers, WriterStep(t), ~RoomSwitch(t),
           ~(AddRecord(t) \/ AddRecordFails(t) \/ Sync(t) \/ SyncFails(t) \/ InsertInto(t))
    PROVE  UNCHANGED <<mem, imm, logfileNumber, logNumber, tables, bpc, bok, edit, logged, synced,
                       torn, manLog, manTables, req>>
  BY DEF WriterStep, WriterWakes, RoomError, RoomDelay, RoomWait, RoomRetry, RoomSwitchFails,
     RoomNullBatch, BuildBatchGroup, FinishWrite, MemTableWait, MemTableReturns, roomUnchanged,
     memWaitUnchanged, groupVars, dataVars, bgVars, storeVars, manVars

(* The leader's pop leaves nobody at work on a group. *)
LEMMA PopLeavesNone ==
    ASSUME OrderInv, NEW t \in Writers,
           RoomError(t) \/ RoomSwitchFails(t) \/ RoomNullBatch(t) \/ FinishWrite(t)
    PROVE  \A u \in Writers : pc'[u] \notin LeaderPcs
<1>1. PICK len \in Nat, status \in BOOLEAN :
        /\ pc[t] \in LeaderPcs /\ writers' = Rest(len) /\ groupLen' \in Nat
        /\ pc' = Popped(t, len, status) \/ pc' = WakeWriters(Popped(t, len, status))
  <2>1. groupLen \in Nat /\ logOk \in BOOLEAN
    BY OrderFacts
  <2>2. CASE FinishWrite(t)
    BY <2>1, <2>2 DEF FinishWrite, PopGroup
  <2>3. CASE RoomError(t) \/ RoomSwitchFails(t) \/ RoomNullBatch(t)
    BY <2>1, <2>3 DEF RoomError, RoomSwitchFails, RoomNullBatch, CanSwitch, PopGroup, groupVars
  <2> QED BY <2>2, <2>3
<1>2. Rest(len) \in Seq(Writers) /\ LeaderInv
  BY OrderFacts, RestOfQueue DEF OrderInv
<1> QED BY <1>1, <1>2, LeaderPops

(* Every step of every thread keeps the inductive invariant. *)
LEMMA DurableNext ==
    ASSUME TornAppends = FALSE, None \notin SUBSET Nat
    PROVE  DurableInv /\ [Next]_vars => DurableInv'
<1> SUFFICES ASSUME DurableInv, [Next]_vars PROVE DurableInv'
  OBVIOUS
<1>1. OrderInv /\ OrderInv'
  BY OrderNext DEF DurableInv
<1>2. ASSUME NEW t \in Writers, NEW r \in Requests, Write(t, r) PROVE DurableInv'
  <2>1. /\ UNCHANGED <<mem, imm, logfileNumber, logNumber, tables, bpc, bok, edit, logged, torn,
                       manLog, manTables, logOk, newSequence, lastSequence>>
        /\ \E p \in {"room", "queued"} : pc' = [pc EXCEPT ![t] = p]
    BY <1>2 DEF Write, EnterQueue, groupVars, dataVars, bgVars, storeVars, manVars
  <2>2. \A u \in Writers : pc'[u] \in {"sync", "insert", "relock"} => pc'[u] = pc[u]
    BY <1>1, <2>1, OrderFacts
  <2> QED BY <1>1, <2>1, <2>2, StorageFrame
<1>3. ASSUME NEW t \in Writers, WriterStep(t) PROVE DurableInv'
  <2>1. CASE RoomSwitch(t)
    BY <1>1, <2>1, RoomSwitchDurable
  <2>2. CASE AddRecord(t) \/ AddRecordFails(t) \/ Sync(t) \/ SyncFails(t) \/ InsertInto(t)
    BY <1>1, <2>2, LogAndInsertDurable
  <2>3. CASE RoomError(t) \/ RoomSwitchFails(t) \/ RoomNullBatch(t) \/ FinishWrite(t)
    <3>1. \A u \in Writers : pc'[u] \notin LeaderPcs
      BY <1>1, <2>3, PopLeavesNone
    <3>2. UNCHANGED <<mem, imm, logfileNumber, logNumber, tables, bpc, bok, edit, logged, torn,
                      manLog, manTables>>
      BY <2>3 DEF RoomError, RoomSwitchFails, RoomNullBatch, FinishWrite, roomUnchanged, dataVars,
                  bgVars, storeVars, manVars
    <3> QED BY <1>1, <3>1, <3>2, StorageFrame
  <2>4. CASE BuildBatchGroup(t)
    <3>1. UNCHANGED <<mem, imm, logfileNumber, logNumber, tables, bpc, bok, edit, logged, torn,
                      manLog, manTables>>
      BY <2>4 DEF BuildBatchGroup, roomUnchanged, bgVars, storeVars, manVars
    <3>2. pc[t] = "room" /\ pc' = [pc EXCEPT ![t] = "log"]
      BY <2>4 DEF BuildBatchGroup
    <3>3. \A u \in Writers : pc'[u] \notin {"sync", "insert", "relock"}
      BY <1>1, <3>2, OrderFacts, OneLeaderOnly
    <3> QED BY <1>1, <3>1, <3>3, StorageFrame
  <2>5. CASE \/ RoomDelay(t) \/ RoomWait(t) \/ RoomRetry(t) \/ MemTableWait(t) \/ MemTableReturns(t)
             \/ WriterWakes(t)
    <3>1. /\ \E p \in WriterPcs \ WritePcs : pc' = [pc EXCEPT ![t] = p]
          /\ UNCHANGED <<mem, imm, logfileNumber, logNumber, tables, bpc, bok, edit, logged, torn,
                         manLog, manTables, logOk, newSequence, lastSequence>>
      BY <2>5 DEF RoomDelay, RoomWait, RoomRetry, MemTableWait, MemTableReturns, WriterWakes,
                  AfterReturn, memWaitUnchanged, roomUnchanged, groupVars, dataVars, bgVars,
                  storeVars, manVars
    <3>2. \A u \in Writers : pc'[u] \in {"sync", "insert", "relock"} => pc'[u] = pc[u]
      BY <1>1, <3>1, OrderFacts
    <3> QED BY <1>1, <3>1, <3>2, StorageFrame
  <2> QED BY <1>3, <2>1, <2>2, <2>3, <2>4, <2>5 DEF WriterStep
<1>4. ASSUME \/ \E m \in Compactors : CompactRange(m) \/ CompactRangeWakes(m)
             \/ UpdateStats \/ Close \/ CloseWakes \/ UNCHANGED vars
      PROVE  DurableInv'
  <2>1. UNCHANGED <<pc, logOk, newSequence, lastSequence, mem, imm, logfileNumber, logNumber,
                    tables, bpc, bok, edit, logged, torn, manLog, manTables>>
    BY <1>4 DEF CompactRange, CompactRangeWakes, UpdateStats, Close, CloseWakes,
                compactRangeUnchanged, closeUnchanged, vars, clientVars, groupVars, dataVars,
                bgVars, storeVars, manVars
  <2> QED BY <1>1, <2>1, StorageFrame
<1>5. CASE BackgroundNext
  BY <1>1, <1>5, BackgroundDurable
<1> QED BY <1>2, <1>3, <1>4, <1>5 DEF Next

(* A log file is read back if it is not older than the MANIFEST's.         *)
LEMMA ReadBack ==
    ASSUME NEW log, NEW n \in Nat, n >= manLog, NEW s, <<n, s>> \in log
    PROVE  s \in Recovered(log)
  BY DEF Recovered

(* What the data holds, the MANIFEST's tables and its log files hold.      *)
LEMMA DataRecovered == DurableInv => Data \subseteq Recovered(logged)
<1> SUFFICES ASSUME DurableInv, NEW s \in Data PROVE s \in Recovered(logged)
  OBVIOUS
<1>1. CASE s \in mem
  BY <1>1, ReadBack DEF DurableInv, LogInv, LogTypes, InLog
<1>2. CASE s \in tables
  BY <1>2 DEF DurableInv, LogInv, Recovered
<1>3. CASE imm # None /\ s \in imm
  <2>1. CASE imm \subseteq manTables
    BY <1>3, <2>1 DEF Recovered
  <2>2. CASE manLog < logfileNumber
    <3>1. <<logfileNumber - 1, s>> \in logged /\ logfileNumber - 1 \in Nat /\ logfileNumber - 1 >= manLog
      BY <1>3, <2>2 DEF DurableInv, LogInv, LogTypes
    <3> QED BY <3>1, ReadBack
  <2> QED BY <1>3, <2>1, <2>2 DEF DurableInv, LogInv
<1> QED BY <1>1, <1>2, <1>3, DataFacts

(* Every update that Write acknowledged survives a crash of the process at *)
(* any point, the middle of a memtable switch, a flush or a compaction     *)
(* included, as long as a failed append leaves no partial record behind.   *)
(* NULL is no memtable: None is not a set of sequence numbers.             *)
THEOREM ProcessCrashSafe ==
    ASSUME TornAppends = FALSE, None \notin SUBSET Nat
    PROVE  Spec => []SurvivesProcessCrash
<1>1. DurableInv => SurvivesProcessCrash
  BY DataRecovered DEF DurableInv, OrderInv, AckInv, SurvivesProcessCrash
<1>2. DurableInv /\ [Next]_vars => DurableInv'
  BY DurableNext
<1> QED BY DurableInit, <1>1, <1>2, PTL DEF Spec

-----------------------------------------------------------------------------
(* What a crash of the machine leaves: a table has the update, or the log  *)
(* file of the memtable that has it was synced after it was logged.        *)
Safe(s) ==
    \/ s \in tables
    \/ s \in mem /\ <<logfileNumber, s>> \in synced
    \/ imm # None /\ s \in imm /\ <<logfileNumber - 1, s>> \in synced

(* The leader of a group with a sync write syncs the log before it inserts *)
(* the group: a writer with sync set joins only a leader that syncs.       *)
SyncInv ==
    /\ DOMAIN req = Writers
    /\ \A s \in ackedSync : Safe(s)
    /\ \A t \in Writers :
         /\ pc[t] = "signalled" /\ done[t] /\ ok[t] /\ req[t].sync => \A s \in seqs[t] : Safe(s)
         /\ pc[t] \in {"insert", "relock"} /\ logOk /\ req[t].sync => InLog(Updates) \subseteq synced
    /\ \A i \in 1..groupLen : req[writers[i]].sync => req[Head(writers)].sync

(* No step takes an update out of reach of a crash of the machine.         *)
LEMMA SafeStays ==
    ASSUME DurableInv, DurableInv', None \notin SUBSET Nat, [Next]_vars
    PROVE  \A s : Safe(s) => Safe(s)'
<1>1. OrderInv /\ logfileNumber \in Nat /\ logNumber \in Nat
  BY DEF DurableInv, LogTypes
<1>2. ASSUME UNCHANGED <<tables, imm, logfileNumber>>, mem \subseteq mem', synced \subseteq synced'
      PROVE  \A s : Safe(s) => Safe(s)'
  BY <1>2 DEF Safe
<1>3. ASSUME NEW t \in Writers, WriterStep(t) PROVE \A s : Safe(s) => Safe(s)'
  <2>1. CASE RoomSwitch(t)
    <3>1. /\ imm = None /\ logfileNumber' = logfileNumber + 1 /\ imm' = mem
          /\ UNCHANGED <<tables, synced>>
      BY <2>1 DEF RoomSwitch, CanSwitch, roomUnchanged, storeVars
    <3>2. mem \in SUBSET Nat
      BY <1>1, OrderFacts DEF OrderInv, SequenceInv
    <3>3. mem # None
      BY <3>2
    <3>4. imm' # None /\ logfileNumber' - 1 = logfileNumber
      BY <1>1, <3>1, <3>3
    <3> QED BY <3>1, <3>4 DEF Safe
  <2>2. CASE AddRecord(t) \/ AddRecordFails(t) \/ Sync(t) \/ SyncFails(t) \/ InsertInto(t)
    <3>1. /\ UNCHANGED <<tables, imm, logfileNumber>>
          /\ mem \subseteq mem' /\ synced \subseteq synced'
      BY <2>2 DEF AddRecord, AddRecordFails, Sync, SyncFails, InsertInto, writeUnchanged, storeVars
    <3> QED BY <1>2, <3>1
  <2>3. CASE ~RoomSwitch(t) /\ ~(AddRecord(t) \/ AddRecordFails(t) \/ Sync(t) \/ SyncFails(t) \/ InsertInto(t))
    BY <1>2, <1>3, <2>3, QuietWriterSteps
  <2> QED BY <2>1, <2>2, <2>3
<1>4. CASE BackgroundNext
  <2>1. CASE FlushInstall
    <3>1. /\ tables' = tables \cup imm /\ UNCHANGED <<mem, logfileNumber>>
          /\ bpc = "install" /\ DeleteObsoleteFiles(bgError, edit.log)
      BY <2>1 DEF FlushInstall, bgFrame
    <3>2. edit.log = logfileNumber /\ imm # None
      BY <3>1 DEF DurableInv, FlushInv, OrderInv, FlushHasImm
    <3>3. \A p \in synced : p[1] >= logfileNumber => p \in synced'
      BY <1>1, <3>1, <3>2, DeleteKeeps
    <3> QED BY <1>1, <3>1, <3>2, <3>3 DEF Safe
  <2>2. CASE CompactionInstall \/ CompactionFails
    <3>1. /\ UNCHANGED <<mem, imm, tables, logfileNumber>>
          /\ \A p \in synced : p[1] >= logNumber => p \in synced'
      BY <2>2, CompactionEndDurable DEF DurableInv
    <3>2. logNumber <= logfileNumber /\ (imm # None => logNumber < logfileNumber)
      BY DEF DurableInv, LogInv
    <3>3. imm # None => logfileNumber - 1 >= logNumber
      BY <1>1, <3>2
    <3> QED BY <1>1, <3>1, <3>2, <3>3 DEF Safe
  <2>3. CASE ~FlushInstall /\ ~(CompactionInstall \/ CompactionFails)
    <3>1. UNCHANGED <<mem, imm, tables, logfileNumber, synced>>
      BY <1>4, <2>3 DEF BackgroundNext, BackgroundSkip, BackgroundFlush, ManualDone, PickCompaction,
         BuildTable, FlushApply, FlushAborts, FlushManifest, FlushFails, WorkFlushesImm, WorkEnds,
         InstallCompactionResults, CompactionManifest, ManualLost, bgFrame, quiet
    <3> QED BY <1>2, <3>1
  <2> QED BY <2>1, <2>2, <2>3
<1>5. ASSUME \/ \E t \in Writers, r \in Requests : Write(t, r)
             \/ \E m \in Compactors : CompactRange(m) \/ CompactRangeWakes(m)
             \/ UpdateStats \/ Close \/ CloseWakes \/ UNCHANGED vars
      PROVE  \A s : Safe(s) => Safe(s)'
  <2>1. UNCHANGED <<mem, imm, tables, logfileNumber, synced>>
    BY <1>5 DEF Write, CompactRange, CompactRangeWakes, UpdateStats, Close, CloseWakes,
                compactRangeUnchanged, closeUnchanged, vars, dataVars, storeVars
  <2> QED BY <1>2, <2>1
<1> QED BY <1>3, <1>4, <1>5 DEF Next

(* The last part of the invariant, for a step that forms no group, lets no *)
(* leader pass Sync and acknowledges nothing.                              *)
LEMMA SyncFrame ==
    ASSUME SyncInv, \A s : Safe(s) => Safe(s)',
           UNCHANGED <<writers, groupLen, req, done, ok, seqs, logOk, newSequence, lastSequence,
                       logfileNumber, ackedSync>>,
           \A u \in Writers : pc'[u] \in {"insert", "relock", "signalled"} => pc'[u] = pc[u],
           \A p \in synced : p[1] = logfileNumber => p \in synced'
    PROVE  SyncInv'
<1>1. InLog(Updates)' = InLog(Updates)
  BY DEF InLog, Updates
<1>2. InLog(Updates) \subseteq synced => InLog(Updates) \subseteq synced'
  BY DEF InLog
<1>3. \A s \in ackedSync' : Safe(s)'
  BY DEF SyncInv
<1>4. \A t \in Writers :
         pc'[t] = "signalled" /\ done'[t] /\ ok'[t] /\ req'[t].sync => \A s \in seqs'[t] : Safe(s)'
  BY DEF SyncInv
<1>5. \A t \in Writers :
         pc'[t] \in {"insert", "relock"} /\ logOk' /\ req'[t].sync => InLog(Updates)' \subseteq synced'
  BY <1>1, <1>2 DEF SyncInv
<1>6. \A i \in 1..groupLen' : req'[writers'[i]].sync => req'[Head(writers')].sync
  BY DEF SyncInv
<1> QED BY <1>3, <1>4, <1>5, <1>6 DEF SyncInv

(* The pop at the end of a group whose sync members are safe if it is OK.  *)
LEMMA PopSync ==
    ASSUME DurableInv, SyncInv, \A s : Safe(s) => Safe(s)', NEW t \in Writers, NEW len \in Nat,
           NEW status \in BOOLEAN, PopGroup(t, len, status), len <= Len(writers), len # 0,
           pc[t] \in LeaderPcs, UNCHANGED <<req, seqs>>, groupLen' = 0,
           pc' = Popped(t, len, status) \/ pc' = WakeWriters(Popped(t, len, status)),
           \A u \in Writers : pc'[u] \notin LeaderPcs,
           status => \A u \in Group(len) : req[u].sync => \A s \in seqs[u] : Safe(s)
    PROVE  SyncInv'
<1>1. OrderInv /\ done \in [Writers -> BOOLEAN] /\ ok \in [Writers -> BOOLEAN]
  BY OrderFacts DEF DurableInv
<1>2. /\ done' = [u \in Writers |-> done[u] \/ (u \in Group(len) \ {t})]
      /\ ok' = [u \in Writers |-> IF u \in Group(len) THEN status ELSE ok[u]]
      /\ \A s \in ackedSync' : s \in ackedSync \/ (status /\ req[t].sync /\ s \in seqs[t])
  BY DEF PopGroup, Acknowledge
<1>3. t \in Group(len)
  BY <1>1, OneLeaderOnly DEF Group
<1>4. \A s \in ackedSync' : Safe(s)'
  BY <1>2, <1>3 DEF SyncInv
<1>5. ASSUME NEW u \in Writers, pc'[u] = "signalled", done'[u], ok'[u], req'[u].sync, NEW s \in seqs'[u]
      PROVE  Safe(s)'
  <2>1. CASE u \in Group(len)
    BY <1>2, <1>5, <2>1
  <2>2. CASE u \notin Group(len)
    <3>1. done[u] /\ ok[u]
      BY <1>2, <1>5, <2>2
    <3>2. u # t /\ \A i \in 1..Len(writers) : writers[i] # u
      BY <1>1, <1>3, <2>2, <3>1 DEF OrderInv, QueueInv
    <3>3. ~(Rest(len) # <<>> /\ u = Head(Rest(len)))
      <4>1. Rest(len) # <<>> => 1 \in 1..Len(Rest(len)) /\ Head(Rest(len)) = Rest(len)[1]
        <5>1. Rest(len) \in Seq(Writers)
          BY <1>1, OrderFacts, RestOfQueue
        <5> QED BY <5>1
      <4>2. Rest(len) # <<>> => Head(Rest(len)) = writers[1 + len] /\ 1 + len \in 1..Len(writers)
        BY <1>1, <4>1, RestFacts
      <4> QED BY <3>2, <4>2
    <3>4. pc[u] = "signalled"
      <4> DEFINE p == Popped(t, len, status)
      <4>1. p[u] = pc[u]
        BY <2>2, <3>2, <3>3 DEF Popped
      <4>2. pc'[u] = p[u] \/ pc'[u] = WakeWriters(p)[u]
        OBVIOUS
      <4> HIDE DEF p
      <4>3. WakeWriters(p)[u] = "signalled" => p[u] = "signalled"
        BY DEF WakeWriters
      <4> QED BY <1>5, <4>1, <4>2, <4>3
    <3> QED BY <1>5, <3>1, <3>4 DEF SyncInv
  <2> QED BY <2>1, <2>2
<1>6. \A i \in 1..groupLen' : FALSE
  OBVIOUS
<1> QED BY <1>4, <1>5, <1>6 DEF SyncInv

(* Every step of every thread keeps the invariant of synced updates.       *)
LEMMA SyncNext ==
    ASSUME None \notin SUBSET Nat, DurableInv, DurableInv', SyncInv, [Next]_vars
    PROVE  SyncInv'
<1>1. \A s : Safe(s) => Safe(s)'
  BY SafeStays
<1>2. /\ OrderInv /\ OrderInv' /\ writers \in Seq(Writers) /\ pc \in [Writers -> WriterPcs]
      /\ Len(writers) \in Nat /\ groupLen \in Nat /\ groupLen <= Len(writers)
      /\ \A i \in 1..Len(writers) : writers[i] \in Writers
      /\ done \in [Writers -> BOOLEAN] /\ ok \in [Writers -> BOOLEAN]
      /\ seqs \in [Writers -> SUBSET Nat] /\ logfileNumber \in Nat
  BY OrderFacts DEF DurableInv, OrderInv, GroupInv, LogTypes
<1>3. ASSUME NEW t \in Writers, NEW r \in Requests, Write(t, r) PROVE SyncInv'
  <2>1. /\ UNCHANGED <<groupLen, newSequence, lastSequence, logOk, logfileNumber, synced, ackedSync>>
        /\ writers' = Append(writers, t) /\ pc[t] = "idle"
        /\ \E p \in {"room", "queued"} : pc' = [pc EXCEPT ![t] = p]
        /\ \A u \in Writers : u # t => seqs'[u] = seqs[u] /\ done'[u] = done[u] /\ ok'[u] = ok[u]
        /\ DOMAIN req' = Writers /\ \A u \in Writers : u # t => req'[u] = req[u]
    BY <1>2, <1>3 DEF SyncInv, Write, EnterQueue, groupVars, dataVars, storeVars
  <2>2. \A u \in Writers : pc'[u] \in {"insert", "relock", "signalled"} => pc'[u] = pc[u] /\ u # t
    BY <1>2, <2>1
  <2>3. \A i \in 1..Len(writers) : writers'[i] = writers[i] /\ writers[i] # t
    BY <1>2, <2>1 DEF OrderInv, QueueInv
  <2>4. groupLen # 0 =>
          Head(writers') = Head(writers) /\ Head(writers) # t /\ Head(writers) \in Writers
    BY <1>2, <2>1, <2>3, HeadOfAppend
  <2>5. InLog(Updates)' = InLog(Updates)
    BY <2>1 DEF InLog, Updates
  <2>6. \A s \in ackedSync' : Safe(s)'
    BY <1>1, <2>1 DEF SyncInv
  <2>7. \A u \in Writers :
          /\ pc'[u] = "signalled" /\ done'[u] /\ ok'[u] /\ req'[u].sync => \A s \in seqs'[u] : Safe(s)'
          /\ pc'[u] \in {"insert", "relock"} /\ logOk' /\ req'[u].sync => InLog(Updates)' \subseteq synced'
    BY <1>1, <2>1, <2>2, <2>5 DEF SyncInv
  <2>8. \A i \in 1..groupLen' : req'[writers'[i]].sync => req'[Head(writers')].sync
    <3> SUFFICES ASSUME NEW i \in 1..groupLen
                 PROVE  req'[writers'[i]].sync => req'[Head(writers')].sync
      BY <2>1
    <3>1. i \in 1..Len(writers) /\ groupLen # 0
      BY <1>2
    <3>2. req'[writers'[i]] = req[writers[i]] /\ req'[Head(writers')] = req[Head(writers)]
      BY <1>2, <2>1, <2>3, <2>4, <3>1
    <3> QED BY <3>2 DEF SyncInv
  <2> QED BY <2>1, <2>6, <2>7, <2>8 DEF SyncInv
<1>4. ASSUME NEW t \in Writers, WriterWakes(t) PROVE SyncInv'
  <2>1. /\ UNCHANGED <<writers, groupLen, req, done, ok, seqs, logOk, newSequence, lastSequence,
                       logfileNumber, synced>>
        /\ pc[t] = "signalled" /\ \E p \in {"room", "queued", "idle", "memcheck"} : pc' = [pc EXCEPT ![t] = p]
        /\ \A s \in ackedSync' : s \in ackedSync \/ (done[t] /\ ok[t] /\ req[t].sync /\ s \in seqs[t])
    BY <1>4 DEF WriterWakes, AfterReturn, Acknowledge, groupVars, dataVars, storeVars
  <2>2. \A u \in Writers : pc'[u] \in {"insert", "relock", "signalled"} => pc'[u] = pc[u]
    BY <1>2, <2>1
  <2>3. InLog(Updates)' = InLog(Updates)
    BY <2>1 DEF InLog, Updates
  <2>4. \A s \in ackedSync' : Safe(s)'
    BY <1>1, <2>1 DEF SyncInv
  <2>5. \A u \in Writers :
          /\ pc'[u] = "signalled" /\ done'[u] /\ ok'[u] /\ req'[u].sync => \A s \in seqs'[u] : Safe(s)'
          /\ pc'[u] \in {"insert", "relock"} /\ logOk' /\ req'[u].sync => InLog(Updates)' \subseteq synced'
    BY <1>1, <2>1, <2>2, <2>3 DEF SyncInv
  <2> QED BY <2>1, <2>4, <2>5 DEF SyncInv
<1>5. ASSUME NEW t \in Writers, RoomError(t) \/ RoomSwitchFails(t) \/ RoomNullBatch(t) PROVE SyncInv'
  <2>1. PICK status \in BOOLEAN :
          /\ pc[t] = "room" /\ PopGroup(t, 1, status) /\ pc' = Popped(t, 1, status)
          /\ UNCHANGED <<groupLen, seqs, req>>
    BY <1>5 DEF RoomError, RoomSwitchFails, RoomNullBatch, CanSwitch, roomUnchanged, groupVars
  <2>2. groupLen = 0 /\ 1 <= Len(writers) /\ pc[t] \in LeaderPcs /\ writers[1] = t
    BY <1>2, <2>1, OneLeaderOnly
  <2>3. \A u \in Group(1) : seqs[u] = {}
    BY <1>2, <2>2 DEF Group, OrderInv, GroupInv
  <2>4. \A u \in Writers : pc'[u] \notin LeaderPcs
    BY <1>2, <1>5, PopLeavesNone
  <2> QED BY <1>1, <2>1, <2>2, <2>3, <2>4, PopSync
<1>6. ASSUME NEW t \in Writers, FinishWrite(t) PROVE SyncInv'
  <2>1. /\ pc[t] = "relock" /\ PopGroup(t, groupLen, logOk) /\ groupLen' = 0
        /\ \/ pc' = Popped(t, groupLen, logOk) \/ pc' = WakeWriters(Popped(t, groupLen, logOk))
        /\ UNCHANGED <<seqs, req>>
    BY <1>6 DEF FinishWrite
  <2>2. groupLen # 0 /\ pc[t] \in LeaderPcs /\ logOk \in BOOLEAN
    BY <1>2, <2>1, OrderFacts DEF OrderInv, GroupInv
  <2>3. \A u \in Writers : pc'[u] \notin LeaderPcs
    BY <1>2, <1>6, PopLeavesNone
  <2>4. ASSUME logOk, NEW u \in Group(groupLen), req[u].sync, NEW s \in seqs[u] PROVE Safe(s)
    <3>1. PICK i \in 1..groupLen : u = writers[i]
      BY DEF Group
    <3>2. s \in Updates
      BY <1>2, <2>4, <3>1 DEF OrderInv, GroupInv
    <3>3. req[t].sync
      BY <1>2, <2>2, <2>4, <3>1, OneLeaderOnly DEF SyncInv
    <3>4. Updates \subseteq mem /\ InLog(Updates) \subseteq synced
      BY <1>2, <2>1, <2>4, <3>3 DEF SyncInv, OrderInv, LeaderMem
    <3>5. <<logfileNumber, s>> \in InLog(Updates)
      BY <3>2 DEF InLog
    <3> QED BY <3>2, <3>4, <3>5 DEF Safe
  <2> QED BY <1>1, <1>2, <2>1, <2>2, <2>3, <2>4, PopSync
<1>7. ASSUME NEW t \in Writers, BuildBatchGroup(t) PROVE SyncInv'
  <2>1. PICK len \in GroupLens :
          /\ groupLen' = len
          /\ seqs' = [u \in Writers |-> IF \E i \in 1..len : writers[i] = u
                                        THEN Numbers(u) ELSE seqs[u]]
    BY <1>7 DEF BuildBatchGroup
  <2>2. /\ pc[t] = "room" /\ pc' = [pc EXCEPT ![t] = "log"]
        /\ UNCHANGED <<writers, req, done, ok, ackedSync>>
    BY <1>7 DEF BuildBatchGroup, roomUnchanged
  <2>3. \A u \in Writers : pc'[u] \notin {"insert", "relock"} /\ (pc'[u] = "signalled" => pc[u] = "signalled")
    BY <1>2, <2>2, OneLeaderOnly
  <2>4. len \in 1..Len(writers) /\ \A i \in 2..len : Joins(i)
    BY <2>1 DEF GroupLens
  <2>5. \A u \in Writers : done[u] => seqs'[u] = seqs[u]
    <3>1. \A i \in 1..len : ~done[writers[i]]
      BY <1>2, <2>4 DEF OrderInv, QueueInv
    <3> QED BY <1>2, <2>1, <3>1
  <2>6. \A i \in 1..groupLen' : req'[writers'[i]].sync => req'[Head(writers')].sync
    <3> SUFFICES ASSUME NEW i \in 1..len PROVE req[writers[i]].sync => req[Head(writers)].sync
      BY <2>1, <2>2
    <3>1. CASE i = 1
      BY <1>2, <2>2, <3>1, OneLeaderOnly
    <3>2. CASE i \in 2..len
      BY <2>4, <3>2 DEF Joins
    <3> QED BY <1>2, <2>4, <3>1, <3>2
  <2>7. \A s \in ackedSync' : Safe(s)'
    BY <1>1, <2>2 DEF SyncInv
  <2>8. \A u \in Writers :
          /\ pc'[u] = "signalled" /\ done'[u] /\ ok'[u] /\ req'[u].sync => \A s \in seqs'[u] : Safe(s)'
          /\ pc'[u] \in {"insert", "relock"} /\ logOk' /\ req'[u].sync => InLog(Updates)' \subseteq synced'
    BY <1>1, <2>2, <2>3, <2>5 DEF SyncInv
  <2> QED BY <2>2, <2>6, <2>7, <2>8 DEF SyncInv
<1>8. ASSUME NEW t \in Writers,
             AddRecord(t) \/ AddRecordFails(t) \/ Sync(t) \/ SyncFails(t) \/ InsertInto(t)
      PROVE  SyncInv'
  <2> USE DEF writeUnchanged, ghostVars, storeVars
  <2>1. /\ UNCHANGED <<writers, groupLen, req, done, ok, seqs, newSequence, lastSequence,
                       logfileNumber, ackedSync>>
        /\ synced \subseteq synced'
    BY <1>8 DEF AddRecord, AddRecordFails, Sync, SyncFails, InsertInto
  <2>2. /\ pc[t] \in WritePcs /\ \A u \in Writers : u # t => pc'[u] = pc[u]
        /\ pc'[t] # "signalled"
    BY <1>2, <1>8 DEF AddRecord, AddRecordFails, Sync, SyncFails, InsertInto
  <2>3. \A u \in Writers : pc'[u] \in LeaderPcs => u = t
    BY <1>2, <2>2, OneLeaderOnly
  <2>4. InLog(Updates)' = InLog(Updates)
    BY <2>1 DEF InLog, Updates
  <2>5. pc'[t] \in {"insert", "relock"} /\ logOk' /\ req[t].sync => InLog(Updates) \subseteq synced'
    <3>1. CASE AddRecord(t)
      BY <1>2, <3>1 DEF AddRecord
    <3>2. CASE AddRecordFails(t) \/ SyncFails(t)
      BY <3>2 DEF AddRecordFails, SyncFails
    <3>3. CASE Sync(t)
      <4>1. logOk /\ pc[t] = "sync" /\ synced' = synced \cup {p \in logged : p[1] = logfileNumber}
        BY <1>2, <3>3 DEF Sync, OrderInv, LeaderMem
      <4>2. InLog(Updates) \subseteq logged
        BY <4>1 DEF DurableInv, LeaderLogged
      <4>3. \A p \in InLog(Updates) : p[1] = logfileNumber
        BY DEF InLog
      <4> QED BY <4>1, <4>2, <4>3
    <3>4. CASE InsertInto(t)
      <4>1. pc[t] = "insert" /\ UNCHANGED <<logOk, synced>>
        BY <3>4 DEF InsertInto
      <4> QED BY <4>1 DEF SyncInv
    <3> QED BY <1>8, <3>1, <3>2, <3>3, <3>4
  <2>6. \A s \in ackedSync' : Safe(s)'
    BY <1>1, <2>1 DEF SyncInv
  <2>7. \A u \in Writers :
          /\ pc'[u] = "signalled" /\ done'[u] /\ ok'[u] /\ req'[u].sync => \A s \in seqs'[u] : Safe(s)'
          /\ pc'[u] \in {"insert", "relock"} /\ logOk' /\ req'[u].sync => InLog(Updates)' \subseteq synced'
    BY <1>1, <2>1, <2>2, <2>3, <2>4, <2>5 DEF SyncInv
  <2> QED BY <2>1, <2>6, <2>7 DEF SyncInv
<1>9. ASSUME NEW t \in Writers, RoomSwitch(t) PROVE SyncInv'
  <2>1. /\ UNCHANGED <<pc, writers, groupLen, req, done, ok, seqs, ackedSync>> /\ pc[t] = "room"
    BY <1>9 DEF RoomSwitch, CanSwitch, roomUnchanged, groupVars
  <2>2. \A u \in Writers : pc[u] \notin WritePcs
    BY <1>2, <2>1, OneLeaderOnly
  <2>3. \A s \in ackedSync' : Safe(s)'
    BY <1>1, <2>1 DEF SyncInv
  <2>4. \A u \in Writers :
          /\ pc'[u] = "signalled" /\ done'[u] /\ ok'[u] /\ req'[u].sync => \A s \in seqs'[u] : Safe(s)'
          /\ pc'[u] \in {"insert", "relock"} /\ logOk' /\ req'[u].sync => InLog(Updates)' \subseteq synced'
    BY <1>1, <2>1, <2>2 DEF SyncInv
  <2> QED BY <2>1, <2>3, <2>4 DEF SyncInv
<1>10. ASSUME NEW t \in Writers,
              RoomDelay(t) \/ RoomWait(t) \/ RoomRetry(t) \/ MemTableWait(t) \/ MemTableReturns(t)
       PROVE  SyncInv'
  <2>1. /\ UNCHANGED <<writers, groupLen, req, done, ok, seqs, logOk, newSequence, lastSequence,
                       logfileNumber, ackedSync, synced>>
        /\ \E p \in WriterPcs \ {"insert", "relock", "signalled"} : pc' = [pc EXCEPT ![t] = p]
    BY <1>10 DEF RoomDelay, RoomWait, RoomRetry, MemTableWait, MemTableReturns, memWaitUnchanged,
                 roomUnchanged, groupVars, dataVars, storeVars, ghostVars
  <2>2. \A u \in Writers : pc'[u] \in {"insert", "relock", "signalled"} => pc'[u] = pc[u]
    BY <1>2, <2>1
  <2> QED BY <1>1, <2>1, <2>2, SyncFrame
<1>11. CASE BackgroundNext
  <2>1. /\ UNCHANGED <<writers, groupLen, req, done, ok, seqs, logOk, newSequence, lastSequence,
                       logfileNumber, ackedSync>>
        /\ pc' = pc \/ pc' = WakeWriters(pc)
        /\ \/ UNCHANGED synced
           \/ FlushInstall \/ CompactionInstall \/ CompactionFails
    BY <1>11 DEF BackgroundNext, BackgroundSkip, BackgroundFlush, ManualDone, PickCompaction,
       BuildTable, FlushApply, FlushAborts, FlushManifest, FlushInstall, FlushFails,
       WorkFlushesImm, WorkEnds, InstallCompactionResults, CompactionManifest,
       CompactionInstall, CompactionFails, ManualLost, EndCompaction, EndCompactMemTable,
       EndBackgroundCall, SignalAll, bgFrame, quiet, groupVars, ghostVars
  <2>2. \A u \in Writers : pc'[u] \in {"insert", "relock", "signalled"} => pc'[u] = pc[u]
    BY <2>1 DEF WakeWriters
  <2>3. \A p \in synced : p[1] = logfileNumber => p \in synced'
    <3>1. CASE UNCHANGED synced
      BY <3>1
    <3>2. CASE FlushInstall
      <4>1. bpc = "install" /\ DeleteObsoleteFiles(bgError, edit.log) /\ edit.log = logfileNumber
        BY <3>2 DEF FlushInstall, DurableInv, FlushInv
      <4> QED BY <1>2, <4>1, DeleteKeeps
    <3>3. CASE CompactionInstall \/ CompactionFails
      <4>1. \A p \in synced : p[1] >= logNumber => p \in synced'
        BY <1>2, <3>3, CompactionEndDurable
      <4>2. logNumber <= logfileNumber /\ logNumber \in Nat
        BY DEF DurableInv, LogInv, LogTypes
      <4> QED BY <1>2, <4>1, <4>2
    <3> QED BY <2>1, <3>1, <3>2, <3>3
  <2> QED BY <1>1, <2>1, <2>2, <2>3, SyncFrame
<1>12. ASSUME \/ \E m \in Compactors : CompactRange(m) \/ CompactRangeWakes(m)
              \/ UpdateStats \/ Close \/ CloseWakes \/ UNCHANGED vars
       PROVE  SyncInv'
  <2>1. UNCHANGED <<pc, writers, groupLen, req, done, ok, seqs, logOk, newSequence, lastSequence,
                    logfileNumber, ackedSync, synced>>
    BY <1>12 DEF CompactRange, CompactRangeWakes, UpdateStats, Close, CloseWakes,
                 compactRangeUnchanged, closeUnchanged, vars, clientVars, groupVars, dataVars,
                 storeVars, ghostVars
  <2> QED BY <1>1, <2>1, SyncFrame
<1> QED BY <1>3, <1>4, <1>5, <1>6, <1>7, <1>8, <1>9, <1>10, <1>11, <1>12 DEF Next, WriterStep

(* What is safe, the MANIFEST's tables and its synced log records hold.    *)
LEMMA SafeRecovered ==
    ASSUME DurableInv, NEW s, Safe(s)
    PROVE  s \in Recovered(synced)
<1>1. logfileNumber \in Nat /\ manLog \in Nat /\ manLog <= logfileNumber
  BY DEF DurableInv, LogTypes, LogInv
<1>2. CASE s \in tables
  BY <1>2 DEF DurableInv, LogInv, Recovered
<1>3. CASE s \in mem /\ <<logfileNumber, s>> \in synced
  BY <1>1, <1>3, ReadBack
<1>4. CASE imm # None /\ s \in imm /\ <<logfileNumber - 1, s>> \in synced
  <2>1. CASE imm \subseteq manTables
    BY <1>4, <2>1 DEF Recovered
  <2>2. CASE manLog < logfileNumber
    <3>1. logfileNumber - 1 \in Nat /\ logfileNumber - 1 >= manLog
      BY <1>1, <2>2
    <3> QED BY <1>4, <3>1, ReadBack
  <2> QED BY <1>4, <2>1, <2>2 DEF DurableInv, LogInv
<1> QED BY <1>2, <1>3, <1>4 DEF Safe

(* Every update that Write acknowledged with WriteOptions.sync survives a  *)
(* crash of the machine at any point, also the update of a writer that     *)
(* another one wrote for, as long as a failed append leaves no partial     *)
(* record behind: DBImpl::Write syncs before it inserts, and a log file    *)
(* goes only when a table in the MANIFEST has what it holds.               *)
THEOREM MachineCrashSafe ==
    ASSUME TornAppends = FALSE, None \notin SUBSET Nat
    PROVE  Spec => []SurvivesMachineCrash
<1>1. Init => SyncInv
  BY DEF Init, SyncInv
<1>2. DurableInv /\ SyncInv => SurvivesMachineCrash
  BY SafeRecovered DEF SyncInv, SurvivesMachineCrash
<1>3. DurableInv /\ [Next]_vars => DurableInv'
  BY DurableNext
<1>4. DurableInv /\ DurableInv' /\ SyncInv /\ [Next]_vars => SyncInv'
  BY SyncNext
<1> QED BY DurableInit, <1>1, <1>2, <1>3, <1>4, PTL DEF Spec
=============================================================================
