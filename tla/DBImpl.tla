------------------------------- MODULE DBImpl -------------------------------
(***************************************************************************)
(* The control of leveldb::DBImpl: the writer queue of DBImpl::Write, the  *)
(* memtable switch of MakeRoomForWrite, the background thread that runs    *)
(* CompactMemTable and DoCompactionWork, callers of TEST_CompactRange and  *)
(* TEST_CompactMemTable, and the destructor.                               *)
(*                                                                         *)
(* An update is identified by its sequence number: a memtable, a table or  *)
(* a log file is the set of the numbers of the updates it holds.           *)
(*                                                                         *)
(* Every action is one critical section of mutex_, or one piece of code    *)
(* that runs with mutex_ released.  A writer at "room" still holds mutex_  *)
(* between two iterations of the loop of MakeRoomForWrite; every other     *)
(* action that locks mutex_ has the guard MutexFree.                       *)
(***************************************************************************)
EXTENDS Naturals, Sequences, FiniteSets

CONSTANTS
    Writers,       \* threads that call Write or TEST_CompactMemTable
    Compactors,    \* threads that call TEST_CompactRange
    None,          \* NULL
    Requests,      \* the requests a writer may make: [n, sync, null]
    MaxUpdates,    \* bound: updates in a request's batch
    Loads,         \* bound: the calls that each client thread may make, one of these functions
                   \* in each execution: for every call the set of its possible requests
    MaxRounds,     \* bound: compactions one TEST_CompactRange call may need
    MaxErrors,     \* bound: I/O errors in a behaviour
    MaxSeeks,      \* bound: seek compactions triggered by reads
    MaxDeep,       \* bound: compactions due above level 0 at a time
    TornAppends,   \* may a failed log append leave a partial record behind?
    WriteBuffer,   \* options_.write_buffer_size, in updates
    SmallBatch,    \* 128 << 10 in BuildBatchGroup, in updates
    MaxBatch,      \* 1 << 20 in BuildBatchGroup, in updates
    CompactionTrigger, SlowdownTrigger, StopTrigger   \* config::kL0_*

ASSUME ThreadsAssumption == None \notin Writers \cup Compactors
ASSUME RequestsAssumption == 
    Requests \subseteq [n : 0..MaxUpdates, sync : BOOLEAN, null : BOOLEAN]
ASSUME BoundsAssumption ==
    /\ {MaxUpdates, MaxRounds, MaxErrors, MaxSeeks, MaxDeep, WriteBuffer, SmallBatch, MaxBatch,
        SlowdownTrigger, StopTrigger} \subseteq Nat
    /\ Loads \subseteq [Writers \cup Compactors -> Seq(SUBSET Requests)]
    /\ CompactionTrigger \in Nat \ {0}
    /\ TornAppends \in BOOLEAN

VARIABLES
    \* Client threads
    pc,            \* where each writer is
    req,           \* the request of the writer's current call (w.batch, w.sync)
    done,          \* w.done
    ok,            \* w.status is OK
    allowDelay,    \* local of MakeRoomForWrite
    force,         \* local of MakeRoomForWrite
    calls,         \* calls that each client thread may still make
    mpc,           \* where each caller of TEST_CompactRange is
    mdone,         \* manual.done
    mleft,         \* compactions the caller's range may still need
    dpc,           \* the destructor
    \* State protected by mutex_
    writers,       \* writers_
    groupLen,      \* position of last_writer in writers_
    newSequence,   \* last_sequence: where the group being written ends
    logOk,         \* status of the group being written
    syncError,     \* sync_error
    lastSequence,  \* versions_->LastSequence()
    mem, imm,      \* mem_ and imm_ (None: NULL)
    logfileNumber, \* logfile_number_
    logNumber,     \* versions_->LogNumber()
    tables,        \* updates in the table files of the current version
    l0,            \* versions_->NumLevelFiles(0)
    deep,          \* compactions due until no level but level 0 has a score >= 1
    seek,          \* current()->file_to_compact_ is set
    bgError,       \* !bg_error_.ok()
    bgScheduled,   \* bg_compaction_scheduled_
    shuttingDown,  \* shutting_down_
    manual,        \* manual_compaction_
    \* Background thread
    bpc,           \* where it is
    nested,        \* CompactMemTable was called by DoCompactionWork
    bok,           \* its local status
    cmp,           \* the running compaction: [manual, size: a level's score called for it,
                   \* trivial, l0: input files of level 0]
    edit,          \* its VersionEdit: [log, seq]
    \* Storage
    logged,        \* <<log file, update>> readable from existing log files
    synced,        \* the part of logged that was fsynced
    torn,          \* log files with a partial record: what follows is unreadable
    manLog, manSeq, manTables,  \* the MANIFEST: log number, last sequence, tables
    \* Bookkeeping
    errors, seeks,
    seqs,          \* the sequence numbers given to each writer's batch
    acked,         \* updates whose Write returned OK
    ackedSync,     \* those with WriteOptions.sync
    failed         \* updates whose Write returned an error

clientVars == <<pc, req, done, ok, allowDelay, force, calls>>
manualVars == <<mpc, mdone, mleft>>
groupVars  == <<groupLen, newSequence, logOk, syncError>>
bgVars     == <<bpc, nested, bok, cmp, edit>>
storeVars  == <<logged, synced, torn>>
manVars    == <<manLog, manSeq, manTables>>
dataVars   == <<mem, imm, logfileNumber, logNumber, tables>>
treeVars   == <<l0, deep, seek>>
ghostVars  == <<seqs, acked, ackedSync, failed>>
vars == <<clientVars, manualVars, dpc, writers, groupVars, lastSequence, dataVars, treeVars,
          bgError, bgScheduled, shuttingDown, manual, bgVars, storeVars, manVars,
          errors, seeks, ghostVars>>
-----------------------------------------------------------------------------
(* Requests *)

NoRequest == [n |-> 0, sync |-> FALSE, null |-> FALSE]
Request   == Requests \cup {NoRequest}

(* The opened database: DB::Open has made log file 1 and an empty memtable. *)
Init ==
    /\ pc = [t \in Writers |-> "idle"]
    /\ req = [t \in Writers |-> NoRequest]
    /\ done = [t \in Writers |-> FALSE]
    /\ ok = [t \in Writers |-> TRUE]
    /\ allowDelay = [t \in Writers |-> FALSE]
    /\ force = [t \in Writers |-> FALSE]
    /\ calls \in Loads
    /\ mpc = [m \in Compactors |-> "idle"]
    /\ mdone = [m \in Compactors |-> FALSE]
    /\ mleft = [m \in Compactors |-> 0]
    /\ dpc = "open"
    /\ writers = <<>>
    /\ groupLen = 0 /\ newSequence = 0 /\ logOk = TRUE /\ syncError = FALSE
    /\ lastSequence = 0
    /\ mem = {} /\ imm = None
    /\ logfileNumber = 1 /\ logNumber = 1
    /\ tables = {} /\ l0 = 0 /\ deep = 0 /\ seek = FALSE
    /\ bgError = FALSE /\ bgScheduled = FALSE /\ shuttingDown = FALSE
    /\ manual = None
    /\ bpc = "idle" /\ nested = FALSE /\ bok = TRUE
    /\ cmp = [manual |-> FALSE, size |-> FALSE, trivial |-> FALSE, l0 |-> 0]
    /\ edit = [log |-> 1, seq |-> 0]
    /\ logged = {} /\ synced = {} /\ torn = {}
    /\ manLog = 1 /\ manSeq = 0 /\ manTables = {}
    /\ errors = 0 /\ seeks = 0
    /\ seqs = [t \in Writers |-> {}]
    /\ acked = {} /\ ackedSync = {} /\ failed = {}
-----------------------------------------------------------------------------
(* Helpers *)

(* A background thread that crashed did so with mutex_ locked. *)
MutexFree == bpc # "crashed" /\ \A t \in Writers : pc[t] # "room"

IsOpen == dpc = "open"

(* An I/O operation fails, within the bound on errors. *)
Fails == errors < MaxErrors /\ errors' = errors + 1
Works == errors' = errors

NeedsCompaction(files, more) == files >= CompactionTrigger \/ more

(* MaybeScheduleCompaction would schedule work in this state. *)
WorkToDo(err, im, man, files, more) ==
    ~shuttingDown /\ ~err /\ (im # None \/ man # None \/ NeedsCompaction(files, more))

(* bg_cv_.SignalAll(): every thread that waits on bg_cv_ will lock mutex_. *)
WakeWriters(p) ==
    [t \in Writers |-> IF p[t] = "bgwait" THEN "bgwoken"
                       ELSE IF p[t] = "memwait" THEN "memcheck" ELSE p[t]]
WakeNoCompactor == mpc
WakeCompactors == [m \in Compactors |-> IF mpc[m] = "wait" THEN "check" ELSE mpc[m]]
WakeNoCloser == dpc
WakeCloser == IF dpc = "wait" THEN "check" ELSE dpc

SignalAll ==
    /\ pc' = WakeWriters(pc)
    /\ mpc' = WakeCompactors
    /\ dpc' = WakeCloser

DeleteTooMany(err, number) ==
    IF err THEN UNCHANGED <<logged, synced>>
    ELSE /\ logged' = {p \in logged : p[1] > number}
         /\ synced' = {p \in synced : p[1] > number}

(* DeleteObsoleteFiles, for log files: nothing after a background error,   *)
(* otherwise every log file older than the version's log number.           *)
DeleteObsoleteFiles(err, number) ==
    IF err THEN UNCHANGED <<logged, synced>>
    ELSE /\ logged' = {p \in logged : p[1] >= number}
         /\ synced' = {p \in synced : p[1] >= number}
-----------------------------------------------------------------------------
(* DBImpl::Write *)

Front(t) == writers # <<>> /\ Head(writers) = t

(* Where a writer goes that joins the queue. *)
EnterAlways == "room"
EnterQueue  == IF writers = <<>> THEN "room" ELSE "queued"

(* Enter Write: join the queue; at its front, go on to MakeRoomForWrite.   *)
Write(t, r) ==
    /\ IsOpen /\ MutexFree
    /\ pc[t] = "idle" /\ calls[t] # <<>> /\ r \in Head(calls[t])
    /\ calls' = [calls EXCEPT ![t] = Tail(@)]
    /\ req' = [req EXCEPT ![t] = r]
    /\ done' = [done EXCEPT ![t] = FALSE]
    /\ ok' = [ok EXCEPT ![t] = TRUE]
    /\ writers' = Append(writers, t)
    /\ pc' = [pc EXCEPT ![t] = EnterQueue]
    /\ allowDelay' = [allowDelay EXCEPT ![t] = ~r.null]
    /\ force' = [force EXCEPT ![t] = r.null]
    /\ seqs' = [seqs EXCEPT ![t] = {}]
    /\ UNCHANGED <<manualVars, dpc, groupVars, lastSequence, dataVars, treeVars, bgError,
                   bgScheduled, shuttingDown, manual, bgVars, storeVars, manVars,
                   errors, seeks, acked, ackedSync, failed>>

(* Where a writer goes when Write returns: TEST_CompactMemTable goes on to *)
(* wait for the memtable compaction if the status is OK.                   *)
AfterReturn(t, status) == IF req[t].null /\ status THEN "memcheck" ELSE "idle"

(* What the returning calls of the threads in S tell their callers.        *)
Acknowledge(S, status) ==
    LET numbers == UNION {seqs[t] : t \in S}
        durable == UNION {seqs[t] : t \in {u \in S : req[u].sync}}
    IN  IF status THEN /\ acked' = acked \cup numbers
                       /\ ackedSync' = ackedSync \cup durable
                       /\ UNCHANGED failed
                  ELSE /\ failed' = failed \cup numbers
                       /\ UNCHANGED <<acked, ackedSync>>

(* w.cv.Wait() returns: leave if done, become the leader at the front.     *)
WriterWakes(t) ==
    /\ pc[t] = "signalled" /\ MutexFree
    /\ \/ /\ done[t]
          /\ pc' = [pc EXCEPT ![t] = AfterReturn(t, ok[t])]
          /\ Acknowledge({t}, ok[t])
       \/ /\ ~done[t]
          /\ pc' = [pc EXCEPT ![t] = IF Front(t) THEN "room" ELSE "queued"]
          /\ UNCHANGED <<acked, ackedSync, failed>>
    /\ UNCHANGED <<req, done, ok, allowDelay, force, calls, manualVars, dpc, writers, groupVars,
                   lastSequence, dataVars, treeVars, bgError, bgScheduled, shuttingDown, manual,
                   bgVars, storeVars, manVars, errors, seeks, seqs>>

(* The loop at the end of Write: pop the group, hand its members the       *)
(* status, signal them and the new head of the queue, and return.          *)
Group(len) == {writers[i] : i \in 1..len}
Rest(len)  == SubSeq(writers, len + 1, Len(writers))

PoppedSilently(t, len, status) ==
    [u \in Writers |->
        IF u = t THEN AfterReturn(t, status)
        ELSE IF pc[u] = "queued" /\ u \in Group(len) THEN "signalled" ELSE pc[u]]
Popped(t, len, status) ==
    [u \in Writers |->
        IF u = t THEN AfterReturn(t, status)
        ELSE IF /\ pc[u] = "queued"
                /\ u \in Group(len) \/ (Rest(len) # <<>> /\ u = Head(Rest(len)))
             THEN "signalled" ELSE pc[u]]

PopGroup(t, len, status) ==
    /\ writers' = Rest(len)
    /\ done' = [u \in Writers |-> done[u] \/ (u \in Group(len) \ {t})]
    /\ ok' = [u \in Writers |-> IF u \in Group(len) THEN status ELSE ok[u]]
    /\ Acknowledge({t}, status)
-----------------------------------------------------------------------------
(* DBImpl::MakeRoomForWrite, one iteration of its loop per action.  The    *)
(* guards repeat the order of the code's if-else chain.                    *)

HasRoom(t)   == ~force[t] /\ Cardinality(mem) <= WriteBuffer
MustDelay(t) == allowDelay[t] /\ l0 >= SlowdownTrigger

roomUnchanged == <<req, calls, manualVars, dpc, lastSequence, tables, logNumber, treeVars,
                   bgError, shuttingDown, manual, bgVars, storeVars, manVars, seeks>>

(* A background error: the write fails with it. *)
RoomError(t) ==
    /\ pc[t] = "room" /\ bgError
    /\ PopGroup(t, 1, FALSE)
    /\ pc' = Popped(t, 1, FALSE)
    /\ UNCHANGED <<roomUnchanged, allowDelay, force, groupVars, mem, imm, logfileNumber,
                   bgScheduled, errors, seqs>>

(* Many level-0 files: release mutex_ and sleep once. *)
RoomDelay(t) ==
    /\ pc[t] = "room" /\ ~bgError /\ MustDelay(t)
    /\ pc' = [pc EXCEPT ![t] = "sleep"]
    /\ allowDelay' = [allowDelay EXCEPT ![t] = FALSE]
    /\ UNCHANGED <<roomUnchanged, done, ok, force, writers, groupVars, mem, imm, logfileNumber,
                   bgScheduled, errors, seqs, acked, ackedSync, failed>>

(* The previous memtable is still being compacted, or there are too many   *)
(* level-0 files: wait on bg_cv_.                                          *)
RoomWait(t) ==
    /\ pc[t] = "room" /\ ~bgError /\ ~MustDelay(t) /\ ~HasRoom(t)
    /\ imm # None \/ l0 >= StopTrigger
    /\ pc' = [pc EXCEPT ![t] = "bgwait"]
    /\ UNCHANGED <<roomUnchanged, done, ok, allowDelay, force, writers, groupVars, mem, imm,
                   logfileNumber, bgScheduled, errors, seqs, acked, ackedSync, failed>>

(* mutex_ is locked again after the sleep or the wait. *)
RoomRetry(t) ==
    /\ pc[t] \in {"sleep", "bgwoken"} /\ MutexFree
    /\ pc' = [pc EXCEPT ![t] = "room"]
    /\ UNCHANGED <<roomUnchanged, done, ok, allowDelay, force, writers, groupVars, mem, imm,
                   logfileNumber, bgScheduled, errors, seqs, acked, ackedSync, failed>>

CanSwitchOver(t) ==
    /\ pc[t] = "room" /\ ~bgError /\ ~MustDelay(t) /\ ~HasRoom(t)
    /\ l0 < StopTrigger
CanSwitch(t) ==
    /\ pc[t] = "room" /\ ~bgError /\ ~MustDelay(t) /\ ~HasRoom(t)
    /\ imm = None /\ l0 < StopTrigger

(* Switch to a new log file and memtable and schedule the compaction of    *)
(* the old one; the old log file is closed without a sync.                 *)
RoomSwitch(t) ==
    /\ CanSwitch(t) /\ Works
    /\ logfileNumber' = logfileNumber + 1
    /\ imm' = mem
    /\ mem' = {}
    /\ force' = [force EXCEPT ![t] = FALSE]
    /\ bgScheduled' = (bgScheduled \/ WorkToDo(bgError, imm', manual, l0, deep > 0 \/ seek))
    /\ UNCHANGED <<roomUnchanged, pc, done, ok, allowDelay, writers, groupVars, seqs, acked,
                   ackedSync, failed>>

(* The new log file cannot be created: the write fails. *)
RoomSwitchFails(t) ==
    /\ CanSwitch(t) /\ Fails
    /\ PopGroup(t, 1, FALSE)
    /\ pc' = Popped(t, 1, FALSE)
    /\ UNCHANGED <<roomUnchanged, allowDelay, force, groupVars, mem, imm, logfileNumber,
                   bgScheduled, seqs>>

(* A NULL batch (TEST_CompactMemTable) has nothing to write. *)
RoomNullBatch(t) ==
    /\ pc[t] = "room" /\ ~bgError /\ ~MustDelay(t) /\ HasRoom(t)
    /\ req[t].null
    /\ PopGroup(t, 1, TRUE)
    /\ pc' = Popped(t, 1, TRUE)
    /\ UNCHANGED <<roomUnchanged, allowDelay, force, groupVars, mem, imm, logfileNumber,
                   bgScheduled, errors, seqs>>
-----------------------------------------------------------------------------
(* BuildBatchGroup *)

ByteSize(t) == IF req[t].null THEN 0 ELSE req[t].n

(* The number of updates in the batches of the first i writers. *)
Count(i) == Cardinality({p \in (1..i) \X (1..MaxUpdates) : p[2] <= ByteSize(writers[p[1]])})

GroupLimit == LET size == ByteSize(Head(writers))
              IN  IF size <= SmallBatch THEN size + SmallBatch ELSE MaxBatch

JoinsAnySync(i) == ~req[writers[i]].null => Count(i) <= GroupLimit
(* The scan of BuildBatchGroup does not stop at writer i. *)
Joins(i) ==
    /\ req[writers[i]].sync => req[Head(writers)].sync
    /\ ~req[writers[i]].null => Count(i) <= GroupLimit

GroupLens == {len \in 1..Len(writers) : \A i \in 2..len : Joins(i)}

(* The sequence numbers of the updates of a writer in the queue. *)
Numbers(u) == LET i == CHOOSE j \in 1..Len(writers) : writers[j] = u
              IN  lastSequence + Count(i-1) + 1 .. lastSequence + Count(i)

(* Form the group with its sequence numbers and release mutex_. *)
BuildBatchGroup(t) ==
    /\ pc[t] = "room" /\ ~bgError /\ ~MustDelay(t) /\ HasRoom(t)
    /\ ~req[t].null
    /\ \E len \in GroupLens :
          /\ \A other \in GroupLens : other <= len
          /\ groupLen' = len
          /\ newSequence' = lastSequence + Count(len)
          /\ seqs' = [u \in Writers |-> IF \E i \in 1..len : writers[i] = u
                                        THEN Numbers(u) ELSE seqs[u]]
    /\ logOk' = TRUE /\ syncError' = FALSE
    /\ pc' = [pc EXCEPT ![t] = "log"]
    /\ UNCHANGED <<roomUnchanged, done, ok, allowDelay, force, writers, mem, imm, logfileNumber,
                   bgScheduled, errors, acked, ackedSync, failed>>
-----------------------------------------------------------------------------
(* The part of Write that runs with mutex_ released. *)

writeUnchanged == <<req, done, ok, allowDelay, force, calls, manualVars, dpc, writers, groupLen,
                    newSequence, lastSequence, imm, logfileNumber, logNumber, tables, treeVars,
                    bgError, bgScheduled, shuttingDown, manual, bgVars, manVars, seeks, ghostVars>>

Updates == lastSequence + 1 .. newSequence
InLog(numbers) == {logfileNumber} \X numbers

(* log_->AddRecord(): a record after a torn one may be unreadable. *)
AddRecord(t) ==
    /\ pc[t] = "log" /\ Works
    /\ \/ logged' = logged \cup InLog(Updates)
       \/ logfileNumber \in torn /\ UNCHANGED logged
    /\ pc' = [pc EXCEPT ![t] = IF req[t].sync THEN "sync" ELSE "insert"]
    /\ UNCHANGED <<writeUnchanged, mem, logOk, syncError, synced, torn>>

(* AddRecord fails; the record may be in the file, absent, or partly there.*)
AddRecordFails(t) ==
    /\ pc[t] = "log" /\ Fails
    /\ \/ UNCHANGED <<logged, torn>>
       \/ /\ logged' = logged \cup InLog(Updates)
          /\ UNCHANGED torn
       \/ /\ TornAppends
          /\ torn' = torn \cup {logfileNumber}
          /\ UNCHANGED logged
    /\ logOk' = FALSE
    /\ pc' = [pc EXCEPT ![t] = "relock"]
    /\ UNCHANGED <<writeUnchanged, mem, syncError, synced>>

(* logfile_->Sync() makes everything in the log file durable. *)
Sync(t) ==
    /\ pc[t] = "sync" /\ Works
    /\ synced' = synced \cup {p \in logged : p[1] = logfileNumber}
    /\ pc' = [pc EXCEPT ![t] = "insert"]
    /\ UNCHANGED <<writeUnchanged, mem, logOk, syncError, logged, torn>>

SyncFails(t) ==
    /\ pc[t] = "sync" /\ Fails
    /\ \/ UNCHANGED synced
       \/ synced' = synced \cup {p \in logged : p[1] = logfileNumber}
    /\ logOk' = FALSE /\ syncError' = TRUE
    /\ pc' = [pc EXCEPT ![t] = "relock"]
    /\ UNCHANGED <<writeUnchanged, mem, logged, torn>>

(* InsertInto() adds the updates to mem_ one at a time, in order. *)
InsertInto(t) ==
    /\ pc[t] = "insert"
    /\ \/ /\ Updates \subseteq mem
          /\ pc' = [pc EXCEPT ![t] = "relock"] /\ UNCHANGED mem
       \/ \E s \in Updates \ mem :
            /\ \A r \in Updates \ mem : s <= r
            /\ mem' = mem \cup {s} /\ UNCHANGED pc
    /\ UNCHANGED <<writeUnchanged, logOk, syncError, storeVars, errors>>

(* The sequence number published after the group, whatever its status. *)
PublishIfOk  == IF logOk THEN newSequence ELSE lastSequence
PublishShort == IF newSequence = lastSequence THEN lastSequence ELSE newSequence - 1
Publish      == newSequence

(* mutex_ is locked again: record a sync error, publish the sequence       *)
(* number whatever the status, pop the group and return.                   *)
FinishWrite(t) ==
    /\ pc[t] = "relock" /\ MutexFree
    /\ bgError' = (bgError \/ syncError)
    /\ lastSequence' = Publish
    /\ LET signal == syncError /\ ~bgError
       IN  /\ mpc' = IF signal THEN WakeCompactors ELSE mpc
           /\ dpc' = IF signal THEN WakeCloser ELSE dpc
           /\ pc' = IF signal THEN WakeWriters(Popped(t, groupLen, logOk))
                    ELSE Popped(t, groupLen, logOk)
    /\ PopGroup(t, groupLen, logOk)
    /\ newSequence' = lastSequence' /\ groupLen' = 0
    /\ UNCHANGED <<req, allowDelay, force, calls, mdone, mleft, logOk, syncError, dataVars,
                   treeVars, bgScheduled, shuttingDown, manual, bgVars, storeVars, manVars,
                   errors, seeks, seqs>>
-----------------------------------------------------------------------------
(* TEST_CompactMemTable, after its Write has returned OK. *)

memWaitUnchanged == <<req, done, ok, allowDelay, force, calls, manualVars, dpc, writers, groupVars,
                      lastSequence, dataVars, treeVars, bgError, bgScheduled, shuttingDown, manual,
                      bgVars, storeVars, manVars, errors, seeks, ghostVars>>

MemTableWait(t) ==
    /\ pc[t] = "memcheck" /\ MutexFree
    /\ imm # None /\ ~bgError
    /\ pc' = [pc EXCEPT ![t] = "memwait"]
    /\ UNCHANGED memWaitUnchanged

(* It returns OK exactly when imm_ is NULL. *)
MemTableReturns(t) ==
    /\ pc[t] = "memcheck" /\ MutexFree
    /\ imm = None \/ bgError
    /\ pc' = [pc EXCEPT ![t] = "idle"]
    /\ UNCHANGED memWaitUnchanged
-----------------------------------------------------------------------------
(* TEST_CompactRange *)

compactRangeUnchanged == <<clientVars, dpc, writers, groupVars, lastSequence, dataVars, treeVars,
                           bgError, shuttingDown, bgVars, storeVars, manVars, errors, seeks,
                           ghostVars>>

(* The loop of TEST_CompactRange from the test of its condition on: post   *)
(* the manual compaction if none is posted, and wait; or cancel and leave. *)
CompactRangeLoop(m, isDone) ==
    IF ~isDone /\ ~shuttingDown /\ ~bgError
    THEN /\ mpc' = [mpc EXCEPT ![m] = "wait"]
         /\ manual' = IF manual = None THEN m ELSE manual
         /\ bgScheduled' = \/ bgScheduled
                           \/ manual = None /\ WorkToDo(bgError, imm, m, l0, deep > 0 \/ seek)
    ELSE /\ mpc' = [mpc EXCEPT ![m] = "idle"]
         /\ manual' = IF manual = m THEN None ELSE manual
         /\ UNCHANGED bgScheduled

CompactRange(m) ==
    /\ IsOpen /\ MutexFree
    /\ mpc[m] = "idle" /\ calls[m] # <<>>
    /\ calls' = [calls EXCEPT ![m] = Tail(@)]
    /\ mdone' = [mdone EXCEPT ![m] = FALSE]
    /\ \E rounds \in 0..MaxRounds : mleft' = [mleft EXCEPT ![m] = rounds]
    /\ CompactRangeLoop(m, FALSE)
    /\ UNCHANGED <<pc, req, done, ok, allowDelay, force, dpc, writers, groupVars, lastSequence,
                   dataVars, treeVars, bgError, shuttingDown, bgVars, storeVars, manVars, errors,
                   seeks, ghostVars>>

CompactRangeWakes(m) ==
    /\ mpc[m] = "check" /\ MutexFree
    /\ CompactRangeLoop(m, mdone[m])
    /\ UNCHANGED <<compactRangeUnchanged, mdone, mleft>>
-----------------------------------------------------------------------------
(* A Get or a sampled iterator read exhausts a file's allowed_seeks and    *)
(* schedules a seek compaction; the version it read may be an old one.     *)
UpdateStats ==
    /\ IsOpen /\ MutexFree
    /\ seeks < MaxSeeks /\ ~seek /\ tables # {}
    /\ seeks' = seeks + 1
    /\ seek' \in BOOLEAN
    /\ bgScheduled' = (bgScheduled \/ WorkToDo(bgError, imm, manual, l0, deep > 0 \/ seek'))
    /\ UNCHANGED <<clientVars, manualVars, dpc, writers, groupVars, lastSequence, dataVars, l0,
                   deep, bgError, shuttingDown, manual, bgVars, storeVars, manVars, errors,
                   ghostVars>>
-----------------------------------------------------------------------------
(* The destructor: its caller has no other call in progress. *)

closeUnchanged == <<clientVars, manualVars, writers, groupVars, lastSequence, dataVars, treeVars,
                    bgError, bgScheduled, manual, bgVars, storeVars, manVars, errors, seeks,
                    ghostVars>>

Close ==
    /\ IsOpen /\ MutexFree
    /\ \A t \in Writers : pc[t] = "idle"
    /\ \A m \in Compactors : mpc[m] = "idle"
    /\ shuttingDown' = TRUE
    /\ dpc' = IF bgScheduled THEN "wait" ELSE "closed"
    /\ UNCHANGED closeUnchanged

CloseWakes ==
    /\ dpc = "check" /\ MutexFree
    /\ dpc' = IF bgScheduled THEN "wait" ELSE "closed"
    /\ UNCHANGED <<closeUnchanged, shuttingDown>>
-----------------------------------------------------------------------------
(* The background thread: BackgroundCall, BackgroundCompaction *)

(* What the background thread never changes, and what it leaves alone when *)
(* it only moves on to its next step.                                      *)
bgFrame == <<req, done, ok, allowDelay, force, calls, writers, groupVars, lastSequence,
             mem, logfileNumber, shuttingDown, torn, seeks, ghostVars>>
quiet   == <<pc, mpc, dpc, mdone, imm, logNumber, tables, treeVars, bgError, bgScheduled,
             manual, logged, synced>>

(* The end of BackgroundCall, given the state BackgroundCompaction leaves: *)
(* reschedule if there is more work and wake everyone.                     *)
EndWithoutReschedule(err, im, man, files, more) ==
    /\ bpc' = "idle"
    /\ bgScheduled' = FALSE
    /\ SignalAll
EndBackgroundCall(err, im, man, files, more) ==
    /\ bpc' = "idle"
    /\ bgScheduled' = WorkToDo(err, im, man, files, more)
    /\ SignalAll

Starts == bpc = "idle" /\ bgScheduled /\ MutexFree

MayWork == ~shuttingDown /\ ~bgError

(* No work while shutting down or after a background error. *)
BackgroundSkip ==
    /\ Starts /\ ~MayWork
    /\ EndBackgroundCall(bgError, imm, manual, l0, deep > 0 \/ seek)
    /\ UNCHANGED <<bgFrame, mdone, mleft, imm, logNumber, tables, treeVars, bgError, manual,
                   nested, bok, cmp, edit, logged, synced, manVars, errors>>

(* An immutable memtable comes first: WriteLevel0Table releases mutex_. *)
BackgroundFlush ==
    /\ Starts /\ MayWork /\ imm # None
    /\ bpc' = "build" /\ nested' = FALSE
    /\ UNCHANGED <<bgFrame, quiet, mleft, bok, cmp, edit, manVars, errors>>

(* A manual compaction whose range holds no files is done. *)
ManualDone ==
    /\ Starts /\ MayWork /\ imm = None /\ manual # None
    /\ mdone' = [mdone EXCEPT ![manual] = TRUE]
    /\ manual' = None
    /\ EndBackgroundCall(bgError, imm, None, l0, deep > 0 \/ seek)
    /\ UNCHANGED <<bgFrame, mleft, imm, logNumber, tables, treeVars, bgError, nested, bok, cmp,
                   edit, logged, synced, manVars, errors>>

(* The VersionEdit of a compaction repeats the version set's log number.   *)
CompactionEditNewLog == [log |-> logfileNumber, seq |-> lastSequence]
CompactionEdit == [log |-> logNumber, seq |-> lastSequence]

(* CompactRange or PickCompaction chooses a compaction: of one or more of  *)
(* the level-0 files, or of none of them (another level).  A manual one is *)
(* never a trivial move.  A trivial move goes straight to LogAndApply.     *)
PickCompaction(c) ==
    /\ Starts /\ MayWork /\ imm = None
    /\ tables # {}
    /\ IF manual # None
       THEN /\ c.manual /\ ~c.size /\ ~c.trivial /\ mleft[manual] > 0
            /\ mleft' = [mleft EXCEPT ![manual] = @ - 1]
       ELSE /\ ~c.manual
            /\ c.size <=> NeedsCompaction(l0, deep > 0)
            /\ IF c.size THEN IF c.l0 > 0 THEN l0 >= CompactionTrigger ELSE deep > 0 ELSE seek
            /\ UNCHANGED mleft
    /\ c.l0 <= l0
    /\ c.trivial => c.l0 <= 1
    /\ cmp' = c
    /\ bok' = TRUE
    /\ bpc' = IF c.trivial THEN "cmanifest" ELSE "work"
    /\ edit' = CompactionEdit
    /\ UNCHANGED <<bgFrame, quiet, nested, manVars, errors>>
-----------------------------------------------------------------------------
(* LogAndApply writes and syncs the MANIFEST record with mutex_ released;  *)
(* when that fails the record may or may not be there.                     *)
LogAndApply(added) ==
    LET Commits == /\ manLog' = edit.log
                   /\ manSeq' = edit.seq
                   /\ manTables' = manTables \cup added
    IN  \/ bok' = TRUE  /\ Works /\ Commits
        \/ bok' = FALSE /\ Fails /\ Commits
        \/ bok' = FALSE /\ Fails /\ UNCHANGED manVars

(* CompactMemTable *)

(* BuildTable, with mutex_ released. *)
BuildTable ==
    /\ bpc = "build"
    /\ \/ bok' = TRUE /\ Works
       \/ bok' = FALSE /\ Fails
    /\ bpc' = "built"
    /\ UNCHANGED <<bgFrame, quiet, mleft, nested, cmp, edit, manVars>>

(* CompactMemTable returns: to the loop of DoCompactionWork, which signals *)
(* bg_cv_, or to BackgroundCall.                                           *)
EndCompactMemTable(err, im, files, more) ==
    IF nested THEN /\ bpc' = "work"
                   /\ SignalAll
                   /\ UNCHANGED bgScheduled
              ELSE EndBackgroundCall(err, im, manual, files, more)

(* The flush's edit makes every log file before the current one obsolete.  *)
FlushEditOldSequence == [log |-> logfileNumber, seq |-> manSeq]
FlushEdit == [log |-> logfileNumber, seq |-> lastSequence]

(* The table is built: go on to LogAndApply, unless shutting down. *)
FlushApply ==
    /\ bpc = "built" /\ MutexFree
    /\ bok /\ ~shuttingDown
    /\ edit' = FlushEdit
    /\ bpc' = "manifest"
    /\ UNCHANGED <<bgFrame, quiet, mleft, nested, bok, cmp, manVars, errors>>

FlushAborts ==
    /\ bpc = "built" /\ MutexFree
    /\ ~bok \/ shuttingDown
    /\ bgError' = TRUE
    /\ EndCompactMemTable(TRUE, imm, l0, deep > 0 \/ seek)
    /\ UNCHANGED <<bgFrame, mdone, mleft, imm, logNumber, tables, treeVars, manual, nested, bok,
                   cmp, edit, logged, synced, manVars, errors>>

FlushManifest ==
    /\ bpc = "manifest"
    /\ LogAndApply(imm)
    /\ bpc' = "install"
    /\ UNCHANGED <<bgFrame, quiet, mleft, nested, cmp, edit>>

(* The new version becomes current, imm_ goes, its log file is obsolete.   *)
(* An empty memtable makes no table; PickLevelForMemTableOutput may put    *)
(* the table below level 0, and that level may then need a compaction.     *)
FlushInstall ==
    /\ bpc = "install" /\ MutexFree /\ bok
    /\ tables' = tables \cup imm
    /\ logNumber' = edit.log
    /\ imm' = None
    /\ \/ imm # {} /\ l0' = l0 + 1 /\ deep' = deep
       \/ imm # {} /\ l0' = l0 /\ deep' \in deep..MaxDeep
       \/ imm = {} /\ l0' = l0 /\ deep' = deep
    /\ seek' = FALSE
    /\ DeleteObsoleteFiles(bgError, edit.log)
    /\ EndCompactMemTable(bgError, None, l0', deep' > 0)
    /\ UNCHANGED <<bgFrame, mdone, mleft, bgError, manual, nested, bok, cmp, edit, manVars, errors>>

FlushFails ==
    /\ bpc = "install" /\ MutexFree /\ ~bok
    /\ bgError' = TRUE
    /\ EndCompactMemTable(TRUE, imm, l0, deep > 0 \/ seek)
    /\ UNCHANGED <<bgFrame, mdone, mleft, imm, logNumber, tables, treeVars, manual, nested, bok,
                   cmp, edit, logged, synced, manVars, errors>>
-----------------------------------------------------------------------------
(* DoCompactionWork *)

(* The loop sees has_imm_ and compacts the memtable first. *)
WorkFlushesImm ==
    /\ bpc = "work" /\ imm # None /\ MutexFree
    /\ ~shuttingDown
    /\ bpc' = "build" /\ nested' = TRUE
    /\ UNCHANGED <<bgFrame, quiet, mleft, bok, cmp, edit, manVars, errors>>

(* The loop ends: the outputs are written, or a file operation failed, or  *)
(* the database is shutting down.                                          *)
WorkEnds ==
    /\ bpc = "work"
    /\ \/ bok' = TRUE  /\ Works /\ ~shuttingDown
       \/ bok' = FALSE /\ Fails
       \/ bok' = FALSE /\ Works /\ shuttingDown
    /\ bpc' = "worked"
    /\ UNCHANGED <<bgFrame, quiet, mleft, nested, cmp, edit, manVars>>

(* InstallCompactionResults calls LogAndApply, whatever bg_error_ is. *)
InstallCompactionResults ==
    /\ bpc = "worked" /\ MutexFree /\ bok
    /\ bpc' = "cmanifest"
    /\ edit' = CompactionEdit
    /\ UNCHANGED <<bgFrame, quiet, mleft, nested, bok, cmp, manVars, errors>>

(* The compaction's outputs hold what its inputs held. *)
CompactionManifest ==
    /\ bpc = "cmanifest"
    /\ LogAndApply({})
    /\ bpc' = "cinstall"
    /\ UNCHANGED <<bgFrame, quiet, mleft, nested, cmp, edit>>

(* The end of BackgroundCompaction once a compaction c was found: delete   *)
(* obsolete files (unless c was a trivial move) and settle the manual one. *)
EndCompaction(err) ==
    /\ bgError' = err
    /\ IF cmp.trivial THEN UNCHANGED <<logged, synced>>
       ELSE DeleteObsoleteFiles(err, logNumber)
    /\ IF cmp.manual
       THEN /\ mdone' = [mdone EXCEPT ![manual] = @ \/ ~bok]
            /\ manual' = None
       ELSE UNCHANGED <<mdone, manual>>
    /\ EndBackgroundCall(err, imm, manual', l0', deep' > 0 \/ seek')

(* m = manual_compaction_ is read again; it must not be NULL. *)
ManualPosted == cmp.manual => manual # None

(* The outputs may overfill the next level, and then the one after it.     *)
(* Each compaction that the score of a deeper level called for leaves      *)
(* fewer of them due.                                                      *)
CompactionInstall ==
    /\ bpc = "cinstall" /\ MutexFree /\ bok /\ ManualPosted
    /\ l0' = l0 - cmp.l0
    /\ deep' \in IF cmp.size /\ cmp.l0 = 0 THEN 0..deep - 1 ELSE 0..MaxDeep
    /\ seek' = FALSE
    /\ EndCompaction(bgError)
    /\ UNCHANGED <<bgFrame, mleft, imm, logNumber, tables, nested, bok, cmp, edit, manVars, errors>>

CompactionFails ==
    /\ bpc \in {"worked", "cinstall"} /\ MutexFree /\ ~bok /\ ManualPosted
    /\ UNCHANGED treeVars
    /\ EndCompaction(TRUE)
    /\ UNCHANGED <<bgFrame, mleft, imm, logNumber, tables, nested, bok, cmp, edit, manVars, errors>>

(* The cancelled manual compaction is dereferenced through NULL. *)
ManualLost ==
    /\ bpc = "cinstall" \/ (bpc = "worked" /\ ~bok)
    /\ MutexFree /\ ~ManualPosted
    /\ bpc' = "crashed"
    /\ UNCHANGED <<bgFrame, quiet, mleft, nested, bok, cmp, edit, manVars, errors>>

Picks == [manual : BOOLEAN, size : BOOLEAN, trivial : BOOLEAN, l0 : 0..l0]
-----------------------------------------------------------------------------
WriterStep(t) ==
    \/ WriterWakes(t)
    \/ RoomError(t) \/ RoomDelay(t) \/ RoomWait(t) \/ RoomRetry(t)
    \/ RoomSwitch(t) \/ RoomSwitchFails(t) \/ RoomNullBatch(t) \/ BuildBatchGroup(t)
    \/ AddRecord(t) \/ AddRecordFails(t) \/ Sync(t) \/ SyncFails(t)
    \/ InsertInto(t) \/ FinishWrite(t)
    \/ MemTableWait(t) \/ MemTableReturns(t)

BackgroundNext ==
    \/ BackgroundSkip \/ BackgroundFlush \/ ManualDone
    \/ \E c \in Picks : PickCompaction(c)
    \/ BuildTable \/ FlushApply \/ FlushAborts \/ FlushManifest \/ FlushInstall \/ FlushFails
    \/ WorkFlushesImm \/ WorkEnds \/ InstallCompactionResults \/ CompactionManifest
    \/ CompactionInstall \/ CompactionFails \/ ManualLost

Next ==
    \/ \E t \in Writers, r \in Requests : Write(t, r)
    \/ \E t \in Writers : WriterStep(t)
    \/ \E m \in Compactors : CompactRange(m) \/ CompactRangeWakes(m)
    \/ UpdateStats \/ Close \/ CloseWakes
    \/ BackgroundNext

Spec == Init /\ [][Next]_vars

(* The operating system schedules every thread: a client inside a call,    *)
(* the destructor and the background thread take their next step once it   *)
(* stays possible.  No call is ever forced to be made.                     *)
FairSpec ==
    /\ Spec
    /\ \A t \in Writers : WF_vars(WriterStep(t))
    /\ \A m \in Compactors : WF_vars(CompactRangeWakes(m))
    /\ WF_vars(CloseWakes)
    /\ WF_vars(BackgroundNext)
-----------------------------------------------------------------------------
(* Properties *)

LeaderPcs == {"room", "sleep", "bgwait", "bgwoken", "log", "sync", "insert", "relock"}
WriterPcs == LeaderPcs \cup {"idle", "queued", "signalled", "memcheck", "memwait"}
FlushPcs  == {"build", "built", "manifest", "install"}
BgPcs     == FlushPcs \cup {"idle", "work", "worked", "cmanifest", "cinstall", "crashed"}

ClientTypeOK ==
    /\ pc \in [Writers -> WriterPcs] /\ req \in [Writers -> Request]
    /\ done \in [Writers -> BOOLEAN] /\ ok \in [Writers -> BOOLEAN]
    /\ allowDelay \in [Writers -> BOOLEAN] /\ force \in [Writers -> BOOLEAN]
    /\ calls \in [Writers \cup Compactors -> Seq(SUBSET Requests)]
    /\ mpc \in [Compactors -> {"idle", "wait", "check"}]
    /\ mdone \in [Compactors -> BOOLEAN] /\ mleft \in [Compactors -> Nat]
    /\ dpc \in {"open", "wait", "check", "closed"}

SharedTypeOK ==
    /\ writers \in Seq(Writers) /\ groupLen \in Nat /\ newSequence \in Nat
    /\ logOk \in BOOLEAN /\ syncError \in BOOLEAN /\ lastSequence \in Nat
    /\ mem \subseteq Nat /\ (imm = None \/ imm \subseteq Nat)
    /\ logfileNumber \in Nat /\ logNumber \in Nat /\ tables \subseteq Nat
    /\ l0 \in Nat /\ deep \in Nat /\ seek \in BOOLEAN
    /\ bgError \in BOOLEAN /\ bgScheduled \in BOOLEAN /\ shuttingDown \in BOOLEAN
    /\ manual \in Compactors \cup {None}

BackgroundTypeOK ==
    /\ bpc \in BgPcs /\ nested \in BOOLEAN /\ bok \in BOOLEAN
    /\ cmp \in [manual : BOOLEAN, size : BOOLEAN, trivial : BOOLEAN, l0 : Nat]
    /\ edit \in [log : Nat, seq : Nat]

StorageTypeOK ==
    /\ logged \subseteq Nat \X Nat /\ synced \subseteq logged /\ torn \subseteq Nat
    /\ manLog \in Nat /\ manSeq \in Nat /\ manTables \subseteq Nat

GhostTypeOK ==
    /\ errors \in Nat /\ seeks \in Nat
    /\ seqs \in [Writers -> SUBSET Nat]
    /\ acked \subseteq Nat /\ ackedSync \subseteq acked /\ failed \subseteq Nat

(* Every variable has the type of the field or local it stands for. *)
TypeOK == ClientTypeOK /\ SharedTypeOK /\ BackgroundTypeOK /\ StorageTypeOK /\ GhostTypeOK

(* Only the writer at the front of writers_ makes room, appends to the log *)
(* and inserts into mem_: "&w is currently responsible for logging and     *)
(* protects against concurrent loggers and concurrent writes into mem_".   *)
OneLeader == \A t \in Writers : pc[t] \in LeaderPcs => Front(t)

(* No lost wakeup in writers_: whoever is at the front is at work or has   *)
(* been signalled, however groups were formed and failed.                  *)
HeadAwake == writers # <<>> => pc[Head(writers)] \in LeaderPcs \cup {"signalled"}

(* No lost background work: whenever MaybeScheduleCompaction would have    *)
(* something to do, bg_compaction_scheduled_ is set.                       *)
WorkScheduled == WorkToDo(bgError, imm, manual, l0, deep > 0 \/ seek) => bgScheduled

(* What DB::Open finds: the MANIFEST's tables and the log files it names.  *)
Recovered(log) == manTables \cup {p[2] : p \in {q \in log : q[1] >= manLog}}

(* Every acknowledged update survives a crash of the process at any point, *)
(* the middle of a memtable switch, flush or compaction included.          *)
SurvivesProcessCrash == acked \subseteq Recovered(logged)

(* Every update acknowledged with WriteOptions.sync survives a crash of    *)
(* the machine at any point.                                               *)
SurvivesMachineCrash == ackedSync \subseteq Recovered(synced)

(* The last sequence number the MANIFEST records covers every update in    *)
(* its tables, so that DB::Open never hands out a number again.            *)
ManifestSequence == \A s \in manTables : s <= manSeq

(* A sequence number is given to one update only: not to one that failed   *)
(* (its record may still be in the log) and again to one that succeeded.   *)
SequenceUsedOnce == acked \cap failed = {}

Data == mem \cup (IF imm = None THEN {} ELSE imm) \cup tables

(* An acknowledged update can be read: it has a number that readers see    *)
(* and is in mem_, in imm_ or in a table.                                  *)
AckedReadable == \A s \in acked : s <= lastSequence /\ s \in Data

(* What a snapshot sees never changes: no step adds an update to, or takes *)
(* one from, the data at or below a sequence number already published.     *)
SnapshotStable ==
    [][\A s \in 1..lastSequence : (s \in Data) <=> (s \in Data')]_vars

Crashed == bpc = "crashed"

(* Every Write and TEST_CompactMemTable returns, with OK or an error,      *)
(* unless the process crashes.                                             *)
WritesReturn == \A t \in Writers : pc[t] # "idle" ~> pc[t] = "idle" \/ Crashed

(* Every TEST_CompactRange returns, unless the process crashes.            *)
CompactRangeReturns == \A m \in Compactors : mpc[m] # "idle" ~> mpc[m] = "idle" \/ Crashed

(* The destructor does not wait forever for the background thread.         *)
CloseReturns == dpc # "open" ~> dpc = "closed" \/ Crashed
=============================================================================
