------------------------------ MODULE Recovery ------------------------------
(***************************************************************************)
(* A database from DB::Open to its end, with the files it leaves in the    *)
(* directory: NewDB, VersionSet::Recover, DBImpl::Recover with             *)
(* RecoverLogFile, LogAndApply with SetCurrentFile, DeleteObsoleteFiles;   *)
(* between two opens the writes, memtable switches, flushes and            *)
(* compactions that give recovery something to find; and crashes of the    *)
(* process or of the machine between any two steps.                        *)
(*                                                                         *)
(* Threads are DBImpl's subject: here one thread at a time is inside       *)
(* DB::Open or the background job (pc), and writers run when mutex_ is     *)
(* free.                                                                   *)
(***************************************************************************)
EXTENDS PosixFiles, VersionEdit, WriteBatch

CONSTANTS
    Requests,      \* what clients write: pairs of a batch and WriteOptions::sync
    WriteBuffer,   \* options_.write_buffer_size, in entries
    ReadDir,       \* the order in which readdir lists the kinds of files
    MaxWrites,     \* bound: updates written
    MaxOpens,      \* bound: calls of DB::Open
    MaxBusy,       \* bound: the opens after which the database is written to, and
                   \* after which it is repaired or destroyed
    MaxFaults,     \* bound: I/O errors and power cuts
    IoErrors,      \* the operations that may fail: "table", "manifest", "current", "log"
    PowerLoss      \* may the machine crash?

ASSUME RecoveryAssumption ==
    /\ {WriteBuffer, MaxWrites, MaxOpens, MaxBusy, MaxFaults} \subseteq Nat
    /\ IoErrors \subseteq {"table", "manifest", "current", "log"}
    /\ PowerLoss \in BOOLEAN

VARIABLES
    fs,            \* the database directory
    pc,            \* where DB::Open or the background job is
    job,           \* what LogAndApply is called for: "newdb", "open", "flush", "compact"
    up,            \* DB::Open has returned the database
    vs,            \* the VersionSet
    rec,           \* locals of Recover and RecoverLogFile
    edit,          \* the VersionEdit of the job
    output,        \* the table being built: its number and entries
    mem, imm,      \* the memtables, sequences of at most one set of entries
    logfile,       \* logfile_number_
    bgError,       \* bg_error_ is set
    status,        \* what the last call of Open returned
    opens, faults, \* calls and faults so far
    past,          \* was a log's error or an unfinished repair passed over, was the
                   \* database repaired ("no", "begun" or "done")?
    acked, synced  \* per key, the newest update acknowledged to a client and not given
                   \* up to a power cut, and the newest one synced or flushed

vars == <<fs, pc, job, up, vs, rec, edit, output, mem, imm, logfile, bgError, status,
          opens, faults, past, acked, synced>>
open_vars == <<rec, output>>
db_vars   == <<mem, imm, logfile, bgError>>
env_vars  == <<opens, faults, past>>
ack_vars  == <<acked, synced>>

Null == <<>>                                       \* no memtable
NewVersionSet ==
    [next |-> 2, manifest |-> 0, last |-> 0, log |-> 0, prev |-> 0, files |-> {},
     pointers |-> [l \in 0..NumLevels - 1 |-> Missing], descriptor |-> 0]
NoOutput  == [number |-> 0, entries |-> {}]
NoRecover == [logs |-> <<>>, pos |-> 0, mem |-> Null, ok |-> TRUE, max |-> 0,
              tables |-> {}]

Init ==
    /\ fs = NoFiles
    /\ pc = "closed" /\ job = "open" /\ up = FALSE
    /\ vs = NewVersionSet /\ rec = NoRecover /\ edit = Clear /\ output = NoOutput
    /\ mem = Null /\ imm = Null /\ logfile = 0 /\ bgError = FALSE
    /\ status = "none" /\ opens = 0 /\ faults = 0
    /\ past = [dropped |-> FALSE, repaired |-> "no"]
    /\ acked = {} /\ synced = {}

(* A new DBImpl, or none: what is in memory is gone.                       *)
Forget ==
    /\ up' = FALSE /\ job' = "open"
    /\ vs' = NewVersionSet /\ rec' = NoRecover /\ edit' = Clear /\ output' = NoOutput
    /\ mem' = Null /\ imm' = Null /\ logfile' = 0 /\ bgError' = FALSE

MayFail(op) == op \in IoErrors /\ faults < MaxFaults
Fails       == faults' = faults + 1 /\ UNCHANGED <<opens, past>>

(* DB::Open returns an error and deletes the DBImpl.                       *)
OpenFails(why) ==
    /\ Forget
    /\ pc' = "closed" /\ status' = why

-----------------------------------------------------------------------------
(* Tables and their metadata.  An internal key is <<user key, sequence>>,  *)
(* ordered by user key and then by descending sequence number.             *)

IKey(e)       == <<e.key, e.seq>>
IKeyLess(a, b) == a[1] < b[1] \/ (a[1] = b[1] /\ a[2] > b[2])
Smallest(es)  == CHOOSE k \in {IKey(e) : e \in es} : \A e \in es : ~IKeyLess(IKey(e), k)
Largest(es)   == CHOOSE k \in {IKey(e) : e \in es} : \A e \in es : ~IKeyLess(k, IKey(e))
Meta(n, es)   == [number |-> n, size |-> Cardinality(es),
                  smallest |-> Smallest(es), largest |-> Largest(es)]

(* BuildTable creates a file unless there is nothing to write ...          *)
StartTable(f, out) ==
    IF out.entries = {} THEN f ELSE NewWritableFile(f, TableFileName(out.number))

(* ... writes it up to the end: the contents, then Sync, Close.               *)
FinishTable(f, out) ==
    Sync(AppendFlush(f, TableFileName(out.number), <<out.entries>>), TableFileName(out.number))

(* An empty table has no file; WriteLevel0Table adds none.                 *)
TableDone(f, out) == IF out.entries = {} THEN f ELSE FinishTable(f, out)
AddTable(e, level, out) ==
    IF out.entries = {} THEN e ELSE AddFile(e, level, Meta(out.number, out.entries))

Newest(es)  == {e \in es : \A x \in es : x.key = e.key => x.seq <= e.seq}
Entries(n)  == ReadFile(fs, TableFileName(n))[1]
LiveFiles   == {f[2].number : f \in vs.files}      \* VersionSet::AddLiveFiles

MarkFileNumberUsed(n, v) == IF v.next <= n THEN [v EXCEPT !.next = n + 1] ELSE v

-----------------------------------------------------------------------------
(* VersionSet::Builder: Apply collects the deleted and the added files of  *)
(* the edits, SaveTo merges them into a version.                           *)

Added(e)  == {e.added[i] : i \in DOMAIN e.added}
ApplyEdit(b, e) ==
    LET addedNow == {<<f[1], f[2].number>> : f \in Added(e)}
    IN  [pointers |-> FoldLeft(LAMBDA p, x : [p EXCEPT ![x[1]] = x[2]], b.pointers, e.pointers),
         deleted  |-> (b.deleted \cup e.deleted) \ addedNow,
         added    |-> b.added \cup Added(e)]
SaveTo(files, b) ==
    {f \in files \cup b.added : <<f[1], f[2].number>> \notin b.deleted}
NewBuilder(v) == [pointers |-> v.pointers, deleted |-> {}, added |-> {}]

(* VersionSet::Recover: what the records of a MANIFEST say.                *)
Comparator == "leveldb.BytewiseComparator"
Later(old, new) == IF new = Missing THEN old ELSE new
NoManifest == [ok |-> TRUE, b |-> NewBuilder(NewVersionSet), log |-> Missing,
               prev |-> Missing, next |-> Missing, last |-> Missing]
ReadEdit(s, e) ==
    [ok |-> TRUE, b |-> ApplyEdit(s.b, e),
     log  |-> Later(s.log, e.log),   prev |-> Later(s.prev, e.prev),
     next |-> Later(s.next, e.next), last |-> Later(s.last, e.last)]
ReadManifest(records) ==
    LET Step(s, d) == IF s.ok /\ d.ok /\ d.edit.comparator \in {Missing, Comparator}
                      THEN ReadEdit(s, d.edit)
                      ELSE [s EXCEPT !.ok = FALSE]
    IN  FoldLeft(Step, NoManifest, [i \in DOMAIN records |-> DecodeFrom(records[i])])

(* The VersionSet that CURRENT leads to; ok is FALSE when CURRENT or the   *)
(* MANIFEST it names is missing, torn or incomplete.                       *)
Recovered(m) ==
    IF ~m.ok \/ Missing \in {m.next, m.log, m.last}
    THEN [ok |-> FALSE, vs |-> NewVersionSet]
    ELSE [ok |-> TRUE,
          vs |-> [next |-> m.next + 1, manifest |-> m.next, last |-> m.last,
                  log |-> m.log, prev |-> Later(0, m.prev),
                  files |-> SaveTo({}, m.b), pointers |-> m.b.pointers,
                  descriptor |-> 0]]
VersionSetRecover(f) ==
    LET current  == ReadFile(f, CurrentFileName)
        manifest == DescriptorFileName(current[1])
    IN  IF current = <<>> \/ ~FileExists(f, manifest)
        THEN [ok |-> FALSE, vs |-> NewVersionSet]
        ELSE Recovered(ReadManifest(ReadFile(f, manifest)))

-----------------------------------------------------------------------------
(* DB::Open.                                                               *)

(* DBImpl::Recover up to the test of CURRENT.  create_if_missing and       *)
(* error_if_exists are the caller's.                                       *)
Locked == IF FileExists(fs, LockFileName) THEN fs ELSE NewWritableFile(fs, LockFileName)
Open(create, refuse) ==
    /\ pc = "closed" /\ opens < MaxOpens
    /\ opens' = opens + 1
    /\ fs' = Locked
    /\ LET exists == FileExists(fs, CurrentFileName)
       IN  IF (~exists /\ ~create) \/ (exists /\ refuse)
           THEN OpenFails("invalid")
           ELSE /\ Forget
                /\ pc' = (IF exists THEN "versions" ELSE "newdb")
                /\ status' = "none"
    /\ UNCHANGED <<faults, past, ack_vars>>

(* NewDB: the first MANIFEST is closed, not synced.                        *)
NewDB ==
    /\ pc = "newdb"
    /\ LET first == [Clear EXCEPT !.comparator = Comparator, !.log = 0, !.next = 2, !.last = 0]
           f     == NewWritableFile(fs, DescriptorFileName(1))
       IN  fs' = AppendFlush(f, DescriptorFileName(1), <<EncodeTo(first)>>)
    /\ pc' = "tmp" /\ job' = "newdb"
    /\ vs' = [vs EXCEPT !.manifest = 1]
    /\ UNCHANGED <<up, edit, open_vars, db_vars, status, env_vars, ack_vars>>

NewDBFails ==
    /\ pc = "newdb" /\ MayFail("manifest") /\ Fails
    /\ fs' = DeleteFile(fs, DescriptorFileName(1))
    /\ OpenFails("error")
    /\ UNCHANGED ack_vars

(* SetCurrentFile: WriteStringToFileSync to a temporary file ...           *)
SetCurrentTmp ==
    /\ pc = "tmp"
    /\ LET tmp == TempFileName(vs.manifest)
       IN  fs' = Sync(AppendFlush(NewWritableFile(fs, tmp), tmp, <<vs.manifest>>), tmp)
    /\ pc' = "rename"
    /\ UNCHANGED <<job, up, vs, edit, open_vars, db_vars, status, env_vars, ack_vars>>

(* ... and RenameFile over CURRENT.                                        *)
SetCurrentRename ==
    /\ pc = "rename" /\ job # "repair"
    /\ fs' = RenameFile(fs, TempFileName(vs.manifest), CurrentFileName)
    /\ pc' = (IF job = "newdb" THEN "versions" ELSE "install")
    /\ UNCHANGED <<job, up, vs, edit, open_vars, db_vars, status, env_vars, ack_vars>>

(* DBImpl::Recover from VersionSet::Recover to the list of the logs.       *)
Recover ==
    /\ pc = "versions"
    /\ LET r     == VersionSetRecover(fs)
           names == {ParseFileName(f) : f \in GetChildren(fs)}
           live  == {f[2].number : f \in r.vs.files}
           logs  == {n.number : n \in {n \in names : /\ n.type = "kLogFile"
                                                    /\ \/ n.number >= r.vs.log
                                                       \/ n.number = r.vs.prev}}
       IN  IF ~r.ok \/ ~(live \subseteq {n.number : n \in names})
           THEN OpenFails("corruption")
           ELSE /\ vs' = r.vs
                /\ rec' = [NoRecover EXCEPT !.logs = SetToSortSeq(logs, <)]
                /\ pc' = "log" /\ job' = "open" /\ edit' = Clear
                /\ UNCHANGED <<up, output, db_vars, status>>
    /\ UNCHANGED <<fs, env_vars, ack_vars>>

(* RecoverLogFile: one record into the memtable.  Errors of a batch are    *)
(* ignored (paranoid_checks is off) but what was inserted stays.           *)
Log == ReadFile(fs, LogFileName(Head(rec.logs)))
ReadRecord ==
    /\ pc = "log" /\ rec.logs # <<>> /\ rec.pos < Len(Log)
    /\ LET record == Log[rec.pos + 1]
           m      == IF rec.mem = Null THEN {} ELSE rec.mem[1]
           all    == m \cup InsertInto(record).entries
           last   == Sequence(record) + Count(record) - 1
       IN  /\ rec' = [rec EXCEPT !.pos = @ + 1, !.mem = <<all>>, !.max = Max({@, last})]
           /\ pc' = IF Cardinality(all) > WriteBuffer THEN "write" ELSE "log"
    /\ UNCHANGED <<fs, job, up, vs, edit, output, db_vars, status, env_vars, ack_vars>>

(* WriteLevel0Table, called when the memtable is full or the log ends.     *)
RecoverTable ==
    /\ \/ pc = "write"
       \/ pc = "log" /\ rec.logs # <<>> /\ rec.pos = Len(Log) /\ rec.mem # Null
    /\ output' = [number |-> vs.next, entries |-> rec.mem[1]]
    /\ vs' = [vs EXCEPT !.next = @ + 1]
    /\ fs' = StartTable(fs, output')
    /\ pc' = "building"
    /\ UNCHANGED <<job, up, rec, edit, db_vars, status, env_vars, ack_vars>>

RecoverTableDone ==
    /\ pc = "building"
    /\ fs' = TableDone(fs, output)
    /\ edit' = AddTable(edit, 0, output)
    /\ rec' = [rec EXCEPT !.mem = Null]
    /\ output' = NoOutput
    /\ pc' = "log"
    /\ UNCHANGED <<job, up, vs, db_vars, status, env_vars, ack_vars>>

RecoverTableFails ==
    /\ pc = "building" /\ MayFail("table") /\ Fails
    /\ fs' = DeleteFile(fs, TableFileName(output.number))
    /\ rec' = [rec EXCEPT !.pos = Len(Log), !.mem = Null, !.ok = FALSE]
    /\ output' = NoOutput
    /\ pc' = "log"
    /\ UNCHANGED <<job, up, vs, edit, db_vars, status, ack_vars>>

(* The end of a log: its status replaces that of the logs before it.       *)
LogRecovered ==
    /\ pc = "log" /\ rec.logs # <<>> /\ rec.pos = Len(Log) /\ rec.mem = Null
    /\ vs' = MarkFileNumberUsed(Head(rec.logs), vs)
    /\ rec' = [rec EXCEPT !.logs = Tail(@), !.pos = 0,
                          !.ok = IF Len(rec.logs) > 1 THEN TRUE ELSE @]
    /\ past' = [past EXCEPT !.dropped = @ \/ (Len(rec.logs) > 1 /\ ~rec.ok)]
    /\ UNCHANGED <<fs, pc, job, up, edit, output, db_vars, status, opens, faults, ack_vars>>

RecoverFails ==
    /\ pc = "log" /\ rec.logs = <<>> /\ ~rec.ok
    /\ OpenFails("error")
    /\ UNCHANGED <<fs, env_vars, ack_vars>>

(* The rest of DB::Open: a new log, then LogAndApply.                      *)
OpenLogOldSequence ==
    /\ pc = "log" /\ rec.logs = <<>> /\ rec.ok
    /\ fs' = NewWritableFile(fs, LogFileName(vs.next))
    /\ edit' = [edit EXCEPT !.log = vs.next]
    /\ logfile' = vs.next /\ mem' = <<{}>>
    /\ vs' = [vs EXCEPT !.next = @ + 1]
    /\ rec' = NoRecover
    /\ pc' = "apply"
    /\ UNCHANGED <<job, up, output, imm, bgError, status, env_vars, ack_vars>>
OpenLog ==
    /\ pc = "log" /\ rec.logs = <<>> /\ rec.ok
    /\ fs' = NewWritableFile(fs, LogFileName(vs.next))
    /\ edit' = [edit EXCEPT !.log = vs.next]
    /\ logfile' = vs.next /\ mem' = <<{}>>
    /\ vs' = [vs EXCEPT !.last = Max({@, rec.max}), !.next = @ + 1]
    /\ rec' = NoRecover
    /\ pc' = "apply"
    /\ UNCHANGED <<job, up, output, imm, bgError, status, env_vars, ack_vars>>

OpenLogFails ==
    /\ pc = "log" /\ rec.logs = <<>> /\ rec.ok /\ MayFail("log") /\ Fails
    /\ OpenFails("error")
    /\ UNCHANGED <<fs, ack_vars>>

-----------------------------------------------------------------------------
(* VersionSet::LogAndApply, for Open and for the background job.           *)

Manifest == DescriptorFileName(vs.manifest)
Fill(e) ==
    [e EXCEPT !.log  = IF @ = Missing THEN vs.log ELSE @,
              !.prev = IF @ = Missing THEN vs.prev ELSE @,
              !.next = vs.next, !.last = vs.last]

(* WriteSnapshot: the current version, without log and sequence numbers.   *)
SnapshotEditNoFiles(v, pointers) == [Clear EXCEPT !.comparator = Comparator]
SnapshotEdit(v, pointers) ==
    LET set == {l \in DOMAIN pointers : pointers[l] # Missing}
    IN  [Clear EXCEPT !.comparator = Comparator,
                      !.pointers = EachOf(SetToSeq(set), LAMBDA l : << <<l, pointers[l]>> >>),
                      !.added = SetToSeq(v.files)]

(* Up to mu->Unlock(): the edit is completed, and the first call creates   *)
(* the new MANIFEST.                                                       *)
LogAndApply ==
    /\ pc = "apply"
    /\ edit' = Fill(edit)
    /\ LET pointers == ApplyEdit(NewBuilder(vs), edit).pointers
           record   == EncodeTo(SnapshotEdit(vs, pointers))
       IN  /\ fs' = (IF vs.descriptor # 0 THEN fs
                     ELSE AppendFlush(NewWritableFile(fs, Manifest), Manifest, <<record>>))
           /\ vs' = [vs EXCEPT !.pointers = pointers]
    /\ pc' = "append"
    /\ UNCHANGED <<job, up, open_vars, db_vars, status, env_vars, ack_vars>>

AppendEdit ==
    /\ pc = "append"
    /\ fs' = AppendFlush(fs, Manifest, <<EncodeTo(edit)>>)
    /\ pc' = "sync"
    /\ UNCHANGED <<job, up, vs, edit, open_vars, db_vars, status, env_vars, ack_vars>>

SyncManifestSkipped ==
    /\ pc = "sync"
    /\ pc' = (IF vs.descriptor = 0 THEN "tmp" ELSE "install")
    /\ UNCHANGED <<fs, job, up, vs, edit, open_vars, db_vars, status, env_vars, ack_vars>>
SyncManifest ==
    /\ pc = "sync"
    /\ fs' = Sync(fs, Manifest)
    /\ pc' = (IF vs.descriptor = 0 THEN "tmp" ELSE "install")
    /\ UNCHANGED <<job, up, vs, edit, open_vars, db_vars, status, env_vars, ack_vars>>

(* What a background job has made durable when its MANIFEST is synced.  The *)
(* rename of CURRENT at the end of an open is committed no later than that. *)
Flushed == UNION {Entries(n) : n \in LiveFiles} \cup (IF job = "flush" THEN imm[1] ELSE {})

(* AppendVersion, and what the caller does next: CompactMemTable drops     *)
(* imm_, all of them call DeleteObsoleteFiles.                             *)
Install ==
    /\ pc = "install"
    /\ vs' = [vs EXCEPT !.files = SaveTo(@, ApplyEdit(NewBuilder(vs), edit)),
                        !.log = edit.log, !.prev = edit.prev, !.descriptor = vs.manifest]
    /\ imm' = (IF job = "flush" THEN Null ELSE imm)
    /\ synced' = (IF job = "open" THEN synced ELSE Newest(synced \cup Flushed))
    /\ past' = [past EXCEPT !.dropped = @ \/ past.repaired = "begun"]
    /\ edit' = Clear
    /\ pc' = "gc"
    /\ UNCHANGED <<fs, job, up, open_vars, mem, logfile, bgError, status, opens, faults, acked>>

(* An error in the MANIFEST or in CURRENT.  Open removes the new MANIFEST  *)
(* and fails; in the background it becomes bg_error_.                      *)
ApplyFails ==
    /\ \/ pc \in {"append", "sync"} /\ MayFail("manifest")
       \/ pc \in {"tmp", "rename"} /\ MayFail("current")
    /\ Fails
    /\ LET f == IF pc = "rename" THEN DeleteFile(fs, TempFileName(vs.manifest)) ELSE fs
       IN  \/ /\ job \in {"newdb", "repair"}
              /\ fs' = f /\ OpenFails("error")
           \/ /\ job = "open"
              /\ fs' = DeleteFile(f, Manifest) /\ OpenFails("error")
           \/ /\ job \in {"flush", "compact"}
              /\ bgError' = TRUE /\ pc' = "idle" /\ edit' = Clear
              /\ UNCHANGED <<fs, job, up, vs, open_vars, mem, imm, logfile, status>>
    /\ UNCHANGED ack_vars

(* What the database holds; a read returns the newest entry of its key.    *)
Present == (IF mem = Null THEN {} ELSE mem[1]) \cup (IF imm = Null THEN {} ELSE imm[1])
           \cup UNION {Entries(n) : n \in LiveFiles}

(* GetChildren lists the names in readdir's order, which is the file       *)
(* system's business: one order, ReadDir, is looked at.                    *)
Rank(kind) == CHOOSE i \in DOMAIN ReadDir : ReadDir[i] = kind
FirstListed(names) ==
    CHOOSE f \in names : \A g \in names :
        Rank(f[1]) < Rank(g[1]) \/ (f[1] = g[1] /\ f[2] <= g[2])

(* DeleteObsoleteFiles, one file at a time; Open returns at its end.       *)
KeepCurrentLog(name) ==
    CASE name.type = "kLogFile"        -> name.number >= logfile
      [] name.type = "kDescriptorFile" -> name.number >= vs.manifest
      [] name.type \in {"kTableFile", "kTempFile"} -> name.number \in LiveFiles
      [] OTHER -> TRUE
Keep(name) ==
    CASE name.type = "kLogFile"        -> name.number >= vs.log \/ name.number = vs.prev
      [] name.type = "kDescriptorFile" -> name.number >= vs.manifest
      [] name.type \in {"kTableFile", "kTempFile"} -> name.number \in LiveFiles
      [] OTHER -> TRUE
Obsolete == {f \in GetChildren(fs) : ParseFileName(f).ok /\ ~Keep(ParseFileName(f))}
DeleteObsolete ==
    /\ pc = "gc" /\ Obsolete # {}
    /\ fs' = DeleteFile(fs, FirstListed(Obsolete))
    /\ UNCHANGED <<pc, job, up, vs, edit, open_vars, db_vars, status, env_vars, ack_vars>>
DeleteObsoleteEnds ==
    /\ pc = "gc" /\ Obsolete = {}
    /\ pc' = "idle" /\ up' = TRUE
    /\ status' = (IF job = "open" THEN "ok" ELSE status)
    /\ acked' = Newest(acked \cup Present)       \* clients see what was recovered
    /\ UNCHANGED <<fs, job, vs, edit, open_vars, db_vars, env_vars, synced>>

-----------------------------------------------------------------------------
(* The open database, as far as its files are concerned.                   *)

Busy      == up /\ opens <= MaxBusy /\ ~bgError
MutexFree == Busy /\ pc \in {"idle", "flushing", "append", "sync"}

Write(batch, sync) ==
    /\ MutexFree
    /\ vs.last + Count(batch) <= MaxWrites
    /\ LET rep == SetSequence(batch, vs.last + 1)
           f   == AppendFlush(fs, LogFileName(logfile), <<rep>>)
           new == InsertInto(rep).entries
       IN  /\ fs' = (IF sync THEN Sync(f, LogFileName(logfile)) ELSE f)
           /\ mem' = <<mem[1] \cup new>>
           /\ acked' = Newest(acked \cup new)
           /\ synced' = (IF sync THEN Newest(synced \cup new) ELSE synced)
    /\ vs' = [vs EXCEPT !.last = @ + Count(batch)]
    /\ UNCHANGED <<pc, job, up, edit, open_vars, imm, logfile, bgError, status, env_vars>>

(* MakeRoomForWrite: a new log and a new memtable.                         *)
SwitchMemTable ==
    /\ MutexFree /\ imm = Null /\ mem # <<{}>>
    /\ fs' = NewWritableFile(fs, LogFileName(vs.next))
    /\ logfile' = vs.next
    /\ vs' = [vs EXCEPT !.next = @ + 1]
    /\ imm' = mem /\ mem' = <<{}>>
    /\ UNCHANGED <<pc, job, up, edit, open_vars, bgError, status, env_vars, ack_vars>>

(* A number is taken when there is something to write.                     *)
StartOutput(entries) ==
    /\ output' = [number |-> vs.next, entries |-> entries]
    /\ vs' = [vs EXCEPT !.next = IF entries = {} THEN @ ELSE @ + 1]
    /\ fs' = StartTable(fs, output')
    /\ pc' = "flushing"
    /\ UNCHANGED <<up, rec, db_vars, status, env_vars, ack_vars>>

(* CompactMemTable: WriteLevel0Table ...                                   *)
CompactMemTable ==
    /\ Busy /\ pc = "idle" /\ imm # Null
    /\ StartOutput(imm[1])
    /\ job' = "flush" /\ edit' = Clear

(* DoCompactionWork over the whole of levels 0 and 1: hidden entries and   *)
(* deletions with nothing below are dropped, one output at level 1.        *)
CompactionEdit(files) ==
    LET largest == CHOOSE k \in {f[2].largest : f \in files} :
                      \A f \in files : ~IKeyLess(k, f[2].largest)
    IN  SetCompactPointer([Clear EXCEPT !.deleted = {<<f[1], f[2].number>> : f \in files}],
                          0, largest)
DoCompactionWork ==
    /\ Busy /\ pc = "idle" /\ imm = Null
    /\ \E f \in vs.files : f[1] = 0
    /\ LET all == UNION {Entries(n) : n \in LiveFiles}
       IN  StartOutput({e \in Newest(all) : e.type = kTypeValue})
    /\ job' = "compact" /\ edit' = CompactionEdit(vs.files)

(* The edit of CompactMemTable names the log of the memtable in use;       *)
(* InstallCompactionResults adds the outputs at the next level.            *)
OutputDone ==
    /\ pc = "flushing"
    /\ fs' = TableDone(fs, output)
    /\ edit' = (IF job = "flush"
                THEN [AddTable(edit, 0, output) EXCEPT !.prev = 0, !.log = logfile]
                ELSE AddTable(edit, 1, output))
    /\ output' = NoOutput
    /\ pc' = "apply"
    /\ UNCHANGED <<job, up, vs, rec, db_vars, status, env_vars, ack_vars>>

(* BuildTable deletes its file when it fails; a compaction leaves it.      *)
OutputFails ==
    /\ pc = "flushing" /\ MayFail("table") /\ Fails
    /\ fs' = (IF job = "flush" THEN DeleteFile(fs, TableFileName(output.number)) ELSE fs)
    /\ bgError' = TRUE /\ pc' = "idle" /\ edit' = Clear /\ output' = NoOutput
    /\ UNCHANGED <<job, up, vs, rec, mem, imm, logfile, status, ack_vars>>

-----------------------------------------------------------------------------
(* The end: the destructor waits for the background job and writes         *)
(* nothing; a process crash keeps what was flushed, a machine crash what   *)
(* was synced; DestroyDB deletes the files one by one.                     *)

Close ==
    /\ up /\ pc = "idle"
    /\ Forget /\ pc' = "closed"
    /\ UNCHANGED <<fs, status, env_vars, ack_vars>>

(* DestroyDB: every file, in readdir's order, and LOCK last.               *)
Doomed == {f \in GetChildren(fs) : ParseFileName(f).ok /\ f # LockFileName}
DestroyDB ==
    /\ pc = "closed" /\ opens < MaxOpens /\ opens <= MaxBusy /\ Doomed # {}
    /\ opens' = opens + 1
    /\ pc' = "destroy" /\ status' = "none"
    /\ acked' = {} /\ synced' = {}
    /\ UNCHANGED <<fs, job, up, vs, edit, open_vars, db_vars, faults, past>>
DestroyStep ==
    /\ pc = "destroy"
    /\ IF Doomed # {}
       THEN fs' = DeleteFile(fs, FirstListed(Doomed)) /\ pc' = pc
       ELSE fs' = DeleteFile(fs, LockFileName) /\ pc' = "closed"
    /\ UNCHANGED <<job, up, vs, edit, open_vars, db_vars, status, env_vars, ack_vars>>

MayCrash == pc # "closed" /\ opens < MaxOpens     \* or nobody would see it
ProcessCrash ==
    /\ MayCrash
    /\ Forget /\ pc' = "closed" /\ status' = "none"
    /\ UNCHANGED <<fs, env_vars, ack_vars>>

MachineCrash ==
    /\ PowerLoss /\ MayCrash /\ faults < MaxFaults
    /\ faults' = faults + 1
    /\ fs' \in AfterPowerLoss(fs)
    /\ acked' = synced
    /\ Forget /\ pc' = "closed" /\ status' = "none"
    /\ UNCHANGED <<opens, past, synced>>

OpenStep ==
    \/ \E create, refuse \in BOOLEAN : Open(create, refuse)
    \/ NewDB \/ NewDBFails \/ SetCurrentTmp \/ SetCurrentRename \/ Recover
    \/ ReadRecord \/ RecoverTable \/ RecoverTableDone \/ RecoverTableFails
    \/ LogRecovered \/ RecoverFails \/ OpenLog \/ OpenLogFails
    \/ LogAndApply \/ AppendEdit \/ SyncManifest \/ Install \/ ApplyFails
    \/ DeleteObsolete \/ DeleteObsoleteEnds

Next ==
    \/ OpenStep
    \/ \E r \in Requests : Write(r[1], r[2])
    \/ SwitchMemTable \/ CompactMemTable \/ DoCompactionWork \/ OutputDone \/ OutputFails
    \/ Close \/ ProcessCrash \/ MachineCrash \/ DestroyDB \/ DestroyStep

Spec == Init /\ [][Next]_vars

-----------------------------------------------------------------------------
(* What DBImpl::Get finds: the newest entry of the key in the first of the *)
(* memtables, the tables of level 0 by falling number and level 1.         *)
Level(l) == {f[2].number : f \in {f \in vs.files : f[1] = l}}
Sources  == mem \o imm \o [i \in 1..Cardinality(Level(0)) |->
                               Entries(SetToSortSeq(Level(0), >)[i])]
            \o <<UNION {Entries(n) : n \in Level(1)}>>
Get(key) == LET Of(es) == {e \in es : e.key = key}
                hits   == SelectSeq(Sources, LAMBDA es : Of(es) # {})
            IN  IF hits = <<>> THEN {} ELSE Newest(Of(hits[1]))

(* DBImpl::Recover and DeleteObsoleteFiles: an open database returns for   *)
(* every key the newest update that was acknowledged (after a machine      *)
(* crash: of those synced or flushed to a table) or a newer one, whatever  *)
(* crashes it went through; a deletion may be gone together with all it    *)
(* hid.  After RepairDB the update is there, but a table that was obsolete *)
(* may be back and hide it.  Excepted are a log whose error Recover        *)
(* dropped, a log whose table RepairDB failed to build (it archives the    *)
(* log all the same) and an open of what an unfinished repair left: its    *)
(* logs are archived and no MANIFEST names its tables.                     *)
RecoversAcked ==
    up /\ ~past.dropped =>
        \A e \in acked :
            LET repaired == past.repaired = "done"
                got      == IF repaired THEN Present ELSE Get(e.key)
            IN  \/ \E p \in got : p.key = e.key /\ p.seq >= e.seq
                \/ e.type = kTypeDeletion /\ (repaired \/ got = {})

(* VersionSet: the numbers an open database will give out are new: no      *)
(* update it holds has a later sequence number than last_sequence_, and    *)
(* no live file a number that NewFileNumber would return.                  *)
NumbersAreNew ==
    up => /\ \A p \in Present : p.seq <= vs.last
          /\ \A n \in LiveFiles \cup {logfile, vs.manifest} : n < vs.next

(* LogAndApply: CURRENT names a MANIFEST which, were it read now, gives    *)
(* the files of the open version or those of the edit being written, and   *)
(* each of these files is there, complete and with the recorded range.     *)
CurrentIsComplete ==
    up => LET r == VersionSetRecover(fs)
          IN  /\ r.ok
              /\ \/ r.vs.files = vs.files
                 \/ pc \in {"append", "sync", "install"} \/ bgError
              /\ r.vs.manifest > vs.manifest
              /\ \A f \in r.vs.files :
                    /\ FileExists(fs, TableFileName(f[2].number))
                    /\ Entries(f[2].number) # {}
                    /\ f[2] = Meta(f[2].number, Entries(f[2].number))

(* SetCurrentFile: Open reports a damaged database only if nothing was     *)
(* ever acknowledged, or after RepairDB, which like NewDB does not sync    *)
(* its MANIFEST.                                                           *)
DamageOnlyIfEmpty == status = "corruption" => acked = {} \/ past.repaired # "no"
=============================================================================
