-------------------------------- MODULE Cache --------------------------------
(***************************************************************************)
(* One shard of the LRU cache (HandleTable and LRUCache) and its use by    *)
(* TableCache: threads look tables up, open and insert them, read through  *)
(* handles and iterators and evict the tables of deleted files, with no    *)
(* lock but the shard's mutex_, which each operation of the cache holds    *)
(* from its start to its end.                                              *)
(*                                                                         *)
(* A handle is a number; it and the table it owns are allocated while the  *)
(* number is in the domain of handles.  The table's file comes from one of *)
(* the environments of Env and is closed with the table; names may be      *)
(* deleted, replaced or renamed meanwhile.                                 *)
(***************************************************************************)
EXTENDS Env

CONSTANTS
    Threads,
    Files,          \* the keys: file numbers
    Hash,           \* Hash[f], as FindPointer uses it
    Charge,         \* Charge[f]: 1 for a table, the size for a block
    capacity_,
    kMinLength,     \* smallest length_ of HandleTable (4 in the code)
    MaxInserts,     \* bound: handles created
    Pieces,         \* Pieces[f]: what is appended to a new file
    MaxNames        \* bound: names created, deleted or renamed

ASSUME CacheAssumption ==
    /\ IsFiniteSet(Threads) /\ IsFiniteSet(Files) /\ Files \subseteq Nat \ {0}
    /\ Hash \in [Files -> Nat] /\ Charge \in [Files -> Nat \ {0}]
    /\ Pieces \in [Files -> Seq(Seq(Nat))]
    /\ {capacity_, MaxInserts, MaxNames} \subseteq Nat /\ kMinLength \in Nat \ {0}

VARIABLES
    cache,          \* the shard:
                    \*   handles  the allocated LRUHandles: keys, refs and files
                    \*   lru      the LRU list, oldest first
                    \*   list     HandleTable::list_, bucket by bucket
                    \*   usage    usage_
    inserts,        \* handles created so far
    thread,         \* what each thread is doing
    env,            \* the environment, see Env
    names           \* changes of names so far

vars == <<cache, inserts, thread, env, names>>

NULL == 0
NoFile == [state |-> NULL, mapped |-> FALSE]
Idle == [pc |-> "idle", file |-> NULL, handle |-> NULL, raf |-> NoFile]

-----------------------------------------------------------------------------
(* HandleTable.  The buckets are numbered from 0.  The chain of a bucket   *)
(* is the set of its handles: a lookup compares keys, so that the order of *)
(* a chain shows only if two of its handles have one key.                  *)
InTable(c) == UNION {c.list[b] : b \in DOMAIN c.list}
Length(c)  == Cardinality(DOMAIN c.list)
Elems(c)   == Cardinality(InTable(c))
Bucket(c, f) == Hash[f] % Length(c)

(* FindPointer: the handles of f in its bucket; the first is what a lookup *)
(* returns.                                                                *)
FindPointer(c, f) == {h \in c.list[Bucket(c, f)] : c.handles[h].key = f}
TableLookup(c, f) ==
    IF FindPointer(c, f) = {} THEN NULL ELSE CHOOSE h \in FindPointer(c, f) : TRUE
TableRemove(c, f) == [c EXCEPT !.list[Bucket(c, f)] = @ \ {TableLookup(c, f)}]

(* Resize: new_length after k rounds of its loop, and every handle in its  *)
(* new bucket.                                                             *)
new_length[k \in Nat] == IF k = 0 THEN kMinLength ELSE 2 * new_length[k - 1]
Resize(c) ==
    LET rounds == Min({k \in 0..Elems(c) : new_length[k] >= Elems(c)})
        n      == new_length[rounds]
    IN  [c EXCEPT !.list = [b \in 0..n - 1 |->
                               {h \in InTable(c) : Hash[c.handles[h].key] % n = b}]]

(* Insert puts h where FindPointer points, in the place of an old handle   *)
(* of its key.                                                             *)
Grow(c) == IF Elems(c) > Length(c) THEN Resize(c) ELSE c
TableInsertBehind(c, h) ==
    Grow([c EXCEPT !.list[Bucket(c, c.handles[h].key)] = @ \cup {h}])
TableInsert(c, h) ==
    LET f    == c.handles[h].key
        old  == TableLookup(c, f)
        with == [c EXCEPT !.list[Bucket(c, f)] = (@ \ {old}) \cup {h}]
    IN  IF old = NULL THEN Grow(with) ELSE with

-----------------------------------------------------------------------------
(* LRUCache.                                                               *)
Place(c, h) == CHOOSE i \in DOMAIN c.lru : c.lru[i] = h
LRU_Remove(c, h) == [c EXCEPT !.lru = RemoveAt(@, Place(c, h))]
LRU_Append(c, h) == [c EXCEPT !.lru = Append(@, h)]

(* The last reference calls the deleter and frees the handle.              *)
UnrefHandleKeepsUsage(c, h) ==
    IF c.handles[h].refs > 1 THEN [c EXCEPT !.handles[h].refs = @ - 1]
    ELSE [c EXCEPT !.handles = Restrict(@, DOMAIN @ \ {h})]
UnrefHandle(c, h) ==
    IF c.handles[h].refs > 1 THEN [c EXCEPT !.handles[h].refs = @ - 1]
    ELSE [c EXCEPT !.usage = @ - Charge[c.handles[h].key],
                   !.handles = Restrict(@, DOMAIN @ \ {h})]

LookupHandle(c, h) ==
    LRU_Append(LRU_Remove([c EXCEPT !.handles[h].refs = @ + 1], h), h)

(* Insert, up to its loop.  The handle has a reference from the cache and  *)
(* one from the caller.                                                    *)
InsertHandle(c, h, f, raf) ==
    LET new  == [c EXCEPT !.handles = [x \in DOMAIN @ \cup {h} |->
                                        IF x = h THEN [key |-> f, refs |-> 2, file |-> raf] ELSE @[x]],
                          !.usage = @ + Charge[f]]
        old  == TableLookup(c, f)
        with == TableInsert(LRU_Append(new, h), h)
    IN  IF old = NULL THEN with ELSE UnrefHandle(LRU_Remove(with, old), old)

(* A round of the loop of Insert: the oldest entry goes, in use or not.    *)
Oldest(c) == Head(c.lru)
EvictFrees(c) ==
    LET out == TableRemove(LRU_Remove(c, Oldest(c)), c.handles[Oldest(c)].key)
    IN  UnrefHandle([out EXCEPT !.handles[Oldest(c)].refs = 1], Oldest(c))
EvictHandle(c) ==
    UnrefHandle(TableRemove(LRU_Remove(c, Oldest(c)), c.handles[Oldest(c)].key), Oldest(c))

EraseKey(c, f) ==
    LET h == TableLookup(c, f)
    IN  IF h = NULL THEN c ELSE UnrefHandle(LRU_Remove(TableRemove(c, f), h), h)

-----------------------------------------------------------------------------
(* TableCache.                                                             *)

Init ==
    /\ cache = [handles |-> <<>>, lru |-> <<>>, usage |-> 0,
                list |-> [b \in 0..kMinLength - 1 |-> {}]]
    /\ inserts = 0
    /\ thread = [t \in Threads |-> Idle]
    /\ \E kind \in {"posix", "mem"} :
          env = [kind |-> kind, file_map |-> [f \in Files |-> f], allowed |-> MaxMmaps,
                 states |-> IF kind = "posix" THEN <<>>
                            ELSE [f \in Files |-> WrittenState(Pieces[f])]]
    /\ names = 0

Become(t, pc, h, raf) ==
    thread' = [thread EXCEPT ![t] = [@ EXCEPT !.pc = pc, !.handle = h, !.raf = raf]]

(* The cache becomes c, which has freed one handle at most: DeleteEntry    *)
(* closes its file.                                                        *)
CacheBecomes(c) ==
    LET freed == DOMAIN cache.handles \ DOMAIN c.handles
    IN  /\ cache' = c
        /\ IF freed = {} THEN UNCHANGED env
           ELSE \E h \in freed : env' = CloseFile(env, cache.handles[h].file)

(* mutex_ of the shard is held from one step to the next in the loop of    *)
(* Insert only.                                                            *)
Locked == \E t \in Threads : thread[t].pc = "evict"

(* FindTable, up to the lookup.                                            *)
FindTable(t, f) ==
    /\ thread[t] = Idle /\ ~Locked
    /\ LET h == TableLookup(cache, f)
       IN  IF h # NULL
           THEN /\ cache' = LookupHandle(cache, h)
                /\ thread' = [thread EXCEPT ![t] = [Idle EXCEPT !.pc = "use", !.file = f,
                                                               !.handle = h]]
           ELSE /\ thread' = [thread EXCEPT ![t] = [Idle EXCEPT !.pc = "open", !.file = f]]
                /\ UNCHANGED cache
    /\ UNCHANGED <<inserts, env, names>>

(* NewRandomAccessFile, without the mutex; an error is not cached.         *)
OpenFile(t) ==
    /\ thread[t].pc = "open"
    /\ IF thread[t].file \notin DOMAIN env.file_map
       THEN thread' = [thread EXCEPT ![t] = Idle] /\ UNCHANGED env
       ELSE LET s == env.file_map[thread[t].file]
            IN  /\ Become(t, IF env.kind = "mem" THEN "table" ELSE "acquire", NULL,
                          [NoFile EXCEPT !.state = s])
                /\ env' = (IF env.kind = "mem" THEN Ref(env, s) ELSE env)
    /\ UNCHANGED <<cache, inserts, names>>

(* MmapLimiter::Acquire; without a slot the descriptor is kept.            *)
Acquire(t) ==
    /\ thread[t].pc = "acquire"
    /\ env' = (IF env.allowed > 0 THEN [env EXCEPT !.allowed = @ - 1] ELSE env)
    /\ Become(t, IF env.allowed > 0 THEN "map" ELSE "table", NULL, thread[t].raf)
    /\ UNCHANGED <<cache, inserts, names>>

(* GetFileSize, by name, and mmap; when one fails the slot is given back.  *)
Map(t) ==
    /\ thread[t].pc = "map" /\ thread[t].file \in DOMAIN env.file_map
    /\ Become(t, "table", NULL, [thread[t].raf EXCEPT !.mapped = TRUE])
    /\ UNCHANGED <<cache, inserts, env, names>>
MapFailsKeepsSlot(t) ==
    /\ thread[t].pc = "map"
    /\ thread' = [thread EXCEPT ![t] = Idle]
    /\ UNCHANGED <<cache, inserts, env, names>>
MapFails(t) ==
    /\ thread[t].pc = "map"
    /\ env' = [env EXCEPT !.allowed = @ + 1]
    /\ thread' = [thread EXCEPT ![t] = Idle]
    /\ UNCHANGED <<cache, inserts, names>>

(* Table::Open fails, and the file is closed.                              *)
OpenFails(t) ==
    /\ thread[t].pc = "table"
    /\ env' = CloseFile(env, thread[t].raf)
    /\ thread' = [thread EXCEPT ![t] = Idle]
    /\ UNCHANGED <<cache, inserts, names>>

(* The table is inserted, perhaps over one that another thread inserted.   *)
InsertTable(t) ==
    /\ thread[t].pc = "table" /\ ~Locked /\ inserts < MaxInserts
    /\ inserts' = inserts + 1
    /\ CacheBecomes(InsertHandle(cache, inserts + 1, thread[t].file, thread[t].raf))
    /\ Become(t, "evict", inserts + 1, NoFile)
    /\ UNCHANGED names
EvictOldest(t) ==
    /\ thread[t].pc = "evict"
    /\ cache.usage > capacity_ /\ cache.lru # <<>>
    /\ CacheBecomes(EvictHandle(cache))
    /\ UNCHANGED <<inserts, thread, names>>
EvictEnds(t) ==
    /\ thread[t].pc = "evict"
    /\ cache.usage <= capacity_ \/ cache.lru = <<>>
    /\ Become(t, "use", thread[t].handle, NoFile)
    /\ UNCHANGED <<cache, inserts, env, names>>

(* The end of Get, or the cleanup UnrefEntry of an iterator.               *)
Release(t) ==
    /\ thread[t].pc = "use" /\ ~Locked
    /\ CacheBecomes(UnrefHandle(cache, thread[t].handle))
    /\ thread' = [thread EXCEPT ![t] = Idle]
    /\ UNCHANGED <<inserts, names>>

Evict(t, f) ==
    /\ thread[t] = Idle /\ ~Locked
    /\ CacheBecomes(EraseKey(cache, f))
    /\ UNCHANGED <<inserts, thread, names>>

(* A name is deleted, given to a new file or to that of another name.      *)
ChangeNames(e) ==
    /\ names < MaxNames /\ names' = names + 1
    /\ env' = e
    /\ UNCHANGED <<cache, inserts, thread>>
DeleteFile(f) == f \in DOMAIN env.file_map /\ ChangeNames(DeleteFileInternal(env, f))
NewWritableFile(f) == ChangeNames(WriteFile(env, f, Max(Files) + names + 1, Pieces[f]))
RenameFile(src, target) ==
    src # target /\ src \in DOMAIN env.file_map /\ ChangeNames(RenameTo(env, src, target))

Next ==
    \/ \E t \in Threads :
          \/ \E f \in Files : FindTable(t, f) \/ Evict(t, f)
          \/ OpenFile(t) \/ Acquire(t) \/ Map(t) \/ MapFails(t)
          \/ OpenFails(t) \/ InsertTable(t) \/ EvictOldest(t) \/ EvictEnds(t) \/ Release(t)
    \/ \E f \in Files : DeleteFile(f) \/ NewWritableFile(f) \/ \E g \in Files : RenameFile(f, g)

Spec == Init /\ [][Next]_vars

-----------------------------------------------------------------------------
Allocated == DOMAIN cache.handles
Holders(h) == {t \in Threads : thread[t].handle = h}

(* LRUCache::Unref: a handle that a thread uses is allocated and is one of *)
(* the file the thread asked for, though it was evicted, replaced or       *)
(* erased meanwhile; a handle nobody uses and that is not in the cache is  *)
(* freed.                                                                  *)
HandlesLive ==
    /\ \A t \in Threads : thread[t].handle # NULL =>
          /\ thread[t].handle \in Allocated
          /\ cache.handles[thread[t].handle].key = thread[t].file
    /\ \A h \in Allocated : Holders(h) # {} \/ h \in InTable(cache)

(* HandleTable and LRU list: they hold the same handles, one of each key,  *)
(* all allocated and each where a lookup finds it, also after a Resize.    *)
TableMatchesList ==
    /\ InTable(cache) = Range(cache.lru) /\ Elems(cache) = Len(cache.lru)
    /\ InTable(cache) \subseteq Allocated
    /\ \A h \in InTable(cache) : TableLookup(cache, cache.handles[h].key) = h

(* What handles cost: a pair for every unit of their charges.              *)
Cost(hs) == Cardinality(UNION {{h} \X (1..Charge[cache.handles[h].key]) : h \in hs})

(* LRUCache: usage_ is what the allocated handles cost, and when mutex_ is *)
(* released the cache is over its capacity only by what threads still hold.*)
UsageBounded ==
    /\ cache.usage = Cost(Allocated)
    /\ ~Locked => cache.usage <= capacity_ + Cost({h \in Allocated : Holders(h) # {}})

(* Threads that hold an open file not yet in the cache.                    *)
Opening == {t \in Threads : thread[t].pc = "table"}

(* MmapLimiter: the slots left and the mapped files, with those about to   *)
(* be mapped, always make up all slots: none is lost on a failed open or   *)
(* given back twice.                                                       *)
SlotsConserved ==
    env.kind = "posix" =>
        env.allowed + Cardinality({h \in Allocated : cache.handles[h].file.mapped})
                    + Cardinality({t \in Opening : thread[t].raf.mapped})
                    + Cardinality({t \in Threads : thread[t].pc = "map"}) = MaxMmaps

(* FileState: a table that is open reads what was written to the file it   *)
(* opened, at every offset and length, though its name was deleted, given  *)
(* to another file or renamed; a file without name or reader is freed.     *)
ReadsItsFile ==
    env.kind = "mem" =>
        LET held(s) == Cardinality({h \in Allocated : cache.handles[h].file.state = s})
                       + Cardinality({t \in Opening : thread[t].raf.state = s})
            named   == Range(env.file_map)
        IN  /\ \A h \in Allocated : cache.handles[h].file.state \in DOMAIN env.states
            /\ \A s \in DOMAIN env.states :
                  /\ held(s) > 0 \/ s \in named
                  /\ \A offset \in 0..env.states[s].size, n \in 0..env.states[s].size :
                        StateRead(env.states[s], offset, n)
                           = SubSeq(env.states[s].data, offset + 1,
                                    Min({offset + n, env.states[s].size}))
=============================================================================
