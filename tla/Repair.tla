------------------------------- MODULE Repair -------------------------------
(***************************************************************************)
(* RepairDB on the directory of Recovery: logs become tables, every table  *)
(* found goes to level 0 of a new MANIFEST, what was read is archived.     *)
(* Nothing stops a crash between two of its steps, after which the         *)
(* database is opened or repaired again.                                   *)
(*                                                                         *)
(* The Repairer keeps its lists in Recovery's variables: logs_ in          *)
(* rec.logs, table_numbers_ in rec.tables, next_file_number_ in vs.next.   *)
(* A file that ArchiveFile moves to lost/ has left the directory.          *)
(***************************************************************************)
EXTENDS Recovery

ArchiveFile(f, name) == DeleteFile(f, name)
Numbers(names, type) == {n.number : n \in {n \in names : n.type = type}}

FindFiles ==
    /\ pc = "closed" /\ opens < MaxOpens /\ opens <= MaxBusy /\ GetChildren(fs) # {}
    /\ opens' = opens + 1
    /\ LET names == {n \in {ParseFileName(f) : f \in GetChildren(fs)} : n.ok}
           used  == {n.number + 1 : n \in {n \in names : n.type # "kDescriptorFile"}}
       IN  /\ vs' = [vs EXCEPT !.next = Max({1} \cup used)]
           /\ rec' = [rec EXCEPT !.logs = SetToSeq(Numbers(names, "kLogFile")),
                                 !.tables = Numbers(names, "kTableFile")]
    /\ pc' = "convert" /\ job' = "repair" /\ status' = "none"
    /\ past' = [past EXCEPT !.repaired = "begun"]
    /\ UNCHANGED <<fs, up, edit, output, db_vars, faults, ack_vars>>

(* ConvertLogToTable, in readdir's order: a record that does not parse is  *)
(* skipped.                                                                *)
ConvertLog(n) ==
    /\ pc = "convert" /\ n \in Range(rec.logs)
    /\ output' = [number  |-> vs.next,
                  entries |-> UNION {InsertInto(r).entries :
                                        r \in Range(ReadFile(fs, LogFileName(n)))}]
    /\ vs' = [vs EXCEPT !.next = @ + 1]
    /\ fs' = StartTable(fs, output')
    /\ rec' = [rec EXCEPT !.logs = <<n>> \o SelectSeq(@, LAMBDA l : l # n)]
    /\ pc' = "converting"
    /\ UNCHANGED <<job, up, edit, db_vars, status, env_vars, ack_vars>>

ConvertDone ==
    /\ pc = "converting"
    /\ fs' = TableDone(fs, output)
    /\ rec' = [rec EXCEPT !.tables = IF output.entries = {} THEN @ ELSE @ \cup {output.number}]
    /\ output' = NoOutput
    /\ pc' = "archive"
    /\ UNCHANGED <<job, up, vs, edit, db_vars, status, env_vars, ack_vars>>

(* A conversion error is logged; the log is archived all the same.         *)
ConvertFails ==
    /\ pc = "converting" /\ MayFail("table")
    /\ faults' = faults + 1
    /\ fs' = DeleteFile(fs, TableFileName(output.number))
    /\ past' = [past EXCEPT !.dropped = TRUE]
    /\ output' = NoOutput
    /\ pc' = "archive"
    /\ UNCHANGED <<job, up, vs, rec, edit, db_vars, status, opens, ack_vars>>

ArchiveLog ==
    /\ pc = "archive"
    /\ fs' = ArchiveFile(fs, LogFileName(Head(rec.logs)))
    /\ rec' = [rec EXCEPT !.logs = Tail(@)]
    /\ pc' = "convert"
    /\ UNCHANGED <<job, up, vs, edit, output, db_vars, status, env_vars, ack_vars>>

(* ScanTable of a table that was never finished: RepairTable finds no      *)
(* entry to copy, archives it and leaves its empty copy behind.            *)
Broken == {n \in rec.tables : ReadFile(fs, TableFileName(n)) = <<>>}
RepairTable ==
    /\ pc = "convert" /\ rec.logs = <<>>
    /\ \E n \in Broken :
          /\ fs' = ArchiveFile(NewWritableFile(fs, TableFileName(vs.next)), TableFileName(n))
          /\ rec' = [rec EXCEPT !.tables = @ \ {n}]
    /\ vs' = [vs EXCEPT !.next = @ + 1]
    /\ UNCHANGED <<pc, job, up, edit, output, db_vars, status, env_vars, ack_vars>>

(* WriteDescriptor: the new MANIFEST under a temporary name, not synced;   *)
(* then the old ones are archived.                                         *)
WriteDescriptor ==
    /\ pc = "convert" /\ rec.logs = <<>> /\ Broken = {}
    /\ LET all   == UNION {Entries(n) : n \in rec.tables}
           base  == [Clear EXCEPT !.comparator = Comparator, !.log = 0, !.next = vs.next,
                                  !.last = Max({0} \cup {e.seq : e \in all})]
           final == FoldLeft(LAMBDA e, n : AddFile(e, 0, Meta(n, Entries(n))),
                             base, SetToSeq(rec.tables))
           tmp   == TempFileName(1)
       IN  fs' = AppendFlush(NewWritableFile(fs, tmp), tmp, <<EncodeTo(final)>>)
    /\ rec' = NoRecover
    /\ pc' = "manifests"
    /\ UNCHANGED <<job, up, vs, edit, output, db_vars, status, env_vars, ack_vars>>

Manifests == {f \in GetChildren(fs) : ParseFileName(f).type = "kDescriptorFile"}
ArchiveManifest ==
    /\ pc = "manifests" /\ Manifests # {}
    /\ fs' = ArchiveFile(fs, FirstListed(Manifests))
    /\ UNCHANGED <<pc, job, up, vs, edit, open_vars, db_vars, status, env_vars, ack_vars>>

InstallManifest ==
    /\ pc = "manifests" /\ Manifests = {}
    /\ fs' = RenameFile(fs, TempFileName(1), DescriptorFileName(1))
    /\ vs' = [vs EXCEPT !.manifest = 1]
    /\ pc' = "tmp"
    /\ UNCHANGED <<job, up, edit, open_vars, db_vars, status, env_vars, ack_vars>>

(* SetCurrentFile, and RepairDB returns.                                   *)
RepairReturns ==
    /\ pc = "rename" /\ job = "repair"
    /\ fs' = RenameFile(fs, TempFileName(1), CurrentFileName)
    /\ past' = [past EXCEPT !.repaired = "done"]
    /\ Forget /\ pc' = "closed" /\ status' = "repaired"
    /\ UNCHANGED <<opens, faults, ack_vars>>

RepairNext ==
    \/ FindFiles \/ \E n \in Range(rec.logs) : ConvertLog(n)
    \/ ConvertDone \/ ConvertFails \/ ArchiveLog \/ RepairTable
    \/ WriteDescriptor \/ ArchiveManifest \/ InstallManifest \/ RepairReturns

RepairSpec == Init /\ [][Next \/ RepairNext]_vars
=============================================================================
