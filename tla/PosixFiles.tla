----------------------------- MODULE PosixFiles -----------------------------
(***************************************************************************)
(* The files of one database directory as PosixEnv leaves them to the      *)
(* operating system, and what is left of them after a crash.               *)
(*                                                                         *)
(* A file system is a record [dirs, disk].  dirs is the sequence of the    *)
(* directories since the last commit of the directory: the last one is     *)
(* what readers see, a machine crash may restore any of them (directory    *)
(* operations reach the disk in order).  A directory maps names to inodes; *)
(* disk maps an inode to its contents, a sequence of records, and to the   *)
(* number of records that were synced.                                     *)
(*                                                                         *)
(* A name is a pair <<kind, number>>: LogFileName and its siblings print   *)
(* it, ParseFileName reads it back.                                        *)
(***************************************************************************)
EXTENDS Integers, Sequences, SequencesExt, FiniteSets

LogFileName(n)        == <<"log", n>>
TableFileName(n)      == <<"ldb", n>>
DescriptorFileName(n) == <<"MANIFEST", n>>
CurrentFileName       == <<"CURRENT", 0>>
LockFileName          == <<"LOCK", 0>>
TempFileName(n)       == <<"dbtmp", n>>

(* A name of another form is no file of the database: ok is FALSE.         *)
ParseFileName(f) ==
    LET type == CASE f[1] = "CURRENT"        -> "kCurrentFile"
                  [] f[1] = "LOCK"           -> "kDBLockFile"
                  [] f[1] = "LOG"            -> "kInfoLogFile"
                  [] f[1] = "MANIFEST"       -> "kDescriptorFile"
                  [] f[1] = "log"            -> "kLogFile"
                  [] f[1] \in {"ldb", "sst"} -> "kTableFile"
                  [] f[1] = "dbtmp"          -> "kTempFile"
                  [] OTHER                   -> "none"
    IN  [ok |-> type # "none", number |-> f[2], type |-> type]

NoFiles == [dirs |-> << <<>> >>, disk |-> <<>>]

Dir(fs)           == Last(fs.dirs)
GetChildren(fs)   == DOMAIN Dir(fs)
FileExists(fs, f) == f \in DOMAIN Dir(fs)
ReadFile(fs, f)   == fs.disk[Dir(fs)[f]].data

Linked(dirs) == UNION {Range(dirs[i]) : i \in DOMAIN dirs}

(* The directory becomes dir; inodes without a link are freed.             *)
Relink(fs, dirs, disk) ==
    [dirs |-> dirs, disk |-> Restrict(disk, Linked(dirs) \cap DOMAIN disk)]
Change(fs, dir, disk) == Relink(fs, Append(fs.dirs, dir), disk)

Set(f, x, y) == [z \in DOMAIN f \cup {x} |-> IF z = x THEN y ELSE f[z]]
Unset(f, x)  == [z \in DOMAIN f \ {x} |-> f[z]]

(* fopen(fname, "w"): an existing file is truncated in place.              *)
Empty == [data |-> <<>>, synced |-> 0]
NewWritableFile(fs, f) ==
    IF FileExists(fs, f)
    THEN [fs EXCEPT !.disk[Dir(fs)[f]] = Empty]
    ELSE LET ino == CHOOSE i \in {<<f, g>> : g \in 0..Cardinality(Linked(fs.dirs))} : i \notin Linked(fs.dirs)
         IN  Change(fs, Set(Dir(fs), f, ino), Set(fs.disk, ino, Empty))

(* Append followed by Flush: the bytes are with the operating system.      *)
AppendFlush(fs, f, records) ==
    [fs EXCEPT !.disk[Dir(fs)[f]].data = @ \o records]

(* SyncDirIfManifest, fflush and fdatasync.  The directory is journalled:  *)
(* a sync of any file commits the directory operations before it.          *)
Sync(fs, f) ==
    LET ino == Dir(fs)[f]
    IN  Relink(fs, <<Dir(fs)>>, [fs.disk EXCEPT ![ino].synced = Len(fs.disk[ino].data)])

DeleteFile(fs, f) ==
    IF FileExists(fs, f) THEN Change(fs, Unset(Dir(fs), f), fs.disk) ELSE fs

RenameFile(fs, src, target) ==
    Change(fs, Set(Unset(Dir(fs), src), target, Dir(fs)[src]), fs.disk)

(* The file systems a machine crash may leave: a directory of the past     *)
(* that was not yet superseded on disk, and of every file at least the     *)
(* part that was synced.                                                   *)
Kept(file, n) == LET len == Min({Len(file.data), file.synced + n})
                 IN  [data |-> SubSeq(file.data, 1, len), synced |-> len]
Unsynced(file) == Len(file.data) - file.synced
AfterPowerLoss(fs) ==
    UNION { LET files == Range(fs.dirs[i])
                tails == Max({0} \cup {Unsynced(fs.disk[n]) : n \in files})
                cuts  == [{n \in files : Unsynced(fs.disk[n]) > 0} -> 0..tails]
            IN  {[dirs |-> <<fs.dirs[i]>>,
                  disk |-> [n \in files |->
                              Kept(fs.disk[n], IF n \in DOMAIN c THEN c[n] ELSE 0)]] : c \in cuts}
          : i \in DOMAIN fs.dirs }
=============================================================================
