--------------------------------- MODULE Env ---------------------------------
(***************************************************************************)
(* The files of the two environments, as TableCache uses them.  PosixEnv   *)
(* maps up to MaxMmaps files into memory, counted by its MmapLimiter, and  *)
(* reads the others through a descriptor.  InMemoryEnv (helpers/memenv)    *)
(* keeps each file in a reference counted FileState made of blocks.        *)
(*                                                                         *)
(* An environment is a record:                                             *)
(*    kind      "posix" or "mem"                                           *)
(*    file_map  names and the files they stand for (in PosixEnv: inodes)   *)
(*    states    the allocated FileStates of InMemoryEnv                    *)
(*    allowed   allowed_ of the MmapLimiter of PosixEnv                    *)
(* and an open RandomAccessFile is [state, mapped].                        *)
(***************************************************************************)
EXTENDS Integers, Sequences, SequencesExt, FiniteSets, FiniteSetsExt

CONSTANTS
    kBlockSize,     \* bytes of a block of a FileState (8192 in the code)
    MaxMmaps        \* slots of the MmapLimiter (1000 in the code)

ASSUME EnvAssumption == kBlockSize \in Nat \ {0} /\ MaxMmaps \in Nat

With(f, x, v) == [y \in DOMAIN f \cup {x} |-> IF y = x THEN v ELSE f[y]]
Without(f, x) == Restrict(f, DOMAIN f \ {x})

-----------------------------------------------------------------------------
(* FileState.  data, what was appended, is not in the code: it is what     *)
(* reads are compared with.  A byte of a block nobody wrote is Junk.       *)

Junk == 0
NewFileState == [refs |-> 0, blocks |-> <<>>, size |-> 0, data |-> <<>>]

Ref(e, s) == [e EXCEPT !.states[s].refs = @ + 1]
Unref(e, s) ==
    IF e.states[s].refs > 1 THEN [e EXCEPT !.states[s].refs = @ - 1]
    ELSE [e EXCEPT !.states = Without(@, s)]

(* A round of the loop of Append fills the last block or starts a new one. *)
AppendRound(s) ==
    LET offset == s.size % kBlockSize
        room   == IF offset # 0 THEN s.blocks
                  ELSE Append(s.blocks, [i \in 1..kBlockSize |-> Junk])
        avail  == Min({kBlockSize - offset, Len(s.src)})
    IN  [blocks |-> [room EXCEPT ![Len(room)] =
                        [i \in 1..kBlockSize |-> IF i \in offset + 1..offset + avail
                                                 THEN s.src[i - offset] ELSE @[i]]],
         size   |-> s.size + avail,
         src    |-> SubSeq(s.src, avail + 1, Len(s.src))]
AppendLoop(fs, src) ==                      \* after k rounds; the last may do nothing
    LET loop[k \in 0..Len(src)] ==
            IF k = 0 THEN [blocks |-> fs.blocks, size |-> fs.size, src |-> src]
            ELSE IF loop[k - 1].src = <<>> THEN loop[k - 1] ELSE AppendRound(loop[k - 1])
    IN  loop
StateAppend(fs, src) ==
    LET end == AppendLoop(fs, src)[Len(src)]
    IN  [fs EXCEPT !.blocks = end.blocks, !.size = end.size, !.data = @ \o src]

(* A round of the loop of Read copies from one block.                      *)
CopyRound(blocks, s) ==
    LET avail == Min({kBlockSize - s.block_offset, s.left})
    IN  [dst   |-> s.dst \o SubSeq(blocks[s.block + 1], s.block_offset + 1, s.block_offset + avail),
         block |-> s.block + 1, block_offset |-> 0, left |-> s.left - avail]
ReadLoop(fs, offset, want) ==
    LET loop[k \in 0..want] ==
            IF k = 0 THEN [dst |-> <<>>, block |-> offset \div kBlockSize,
                           block_offset |-> offset % kBlockSize, left |-> want]
            ELSE IF loop[k - 1].left = 0 THEN loop[k - 1] ELSE CopyRound(fs.blocks, loop[k - 1])
    IN  loop
StateRead(fs, offset, n) ==
    LET want == Min({n, fs.size - offset}) IN ReadLoop(fs, offset, want)[want].dst

-----------------------------------------------------------------------------
(* The names.  s is the number of a new file.                              *)

DeleteFileInternalFrees(e, f) ==
    IF f \notin DOMAIN e.file_map THEN e
    ELSE [e EXCEPT !.file_map = Without(@, f), !.states = Without(@, e.file_map[f])]
DeleteFileInternal(e, f) ==
    LET unnamed == [e EXCEPT !.file_map = Without(@, f)]
    IN  IF f \notin DOMAIN e.file_map THEN e
        ELSE IF e.kind = "mem" THEN Unref(unnamed, e.file_map[f]) ELSE unnamed

(* A file is created, pieces are appended to it and it is closed.  It is   *)
(* nobody else's until then.                                               *)
Written(pieces) ==
    LET after[k \in 0..Len(pieces)] ==
            IF k = 0 THEN NewFileState ELSE StateAppend(after[k - 1], pieces[k])
    IN  after
WrittenState(pieces) == [Written(pieces)[Len(pieces)] EXCEPT !.refs = 1]
WriteFile(e, f, s, pieces) ==
    LET d    == DeleteFileInternal(e, f)
        full == [d EXCEPT !.file_map = With(@, f, s)]
    IN  IF e.kind = "mem" THEN [full EXCEPT !.states = With(@, s, WrittenState(pieces))]
        ELSE full

(* InMemoryEnv::RenameFile, for a source that is not the target.           *)
RenameTo(e, src, target) ==
    LET d == DeleteFileInternal(e, target)
    IN  [d EXCEPT !.file_map = With(Without(@, src), target, e.file_map[src])]

-----------------------------------------------------------------------------
(* The destructors of the RandomAccessFiles.                               *)

CloseFile(e, raf) ==
    IF e.kind = "mem" THEN Unref(e, raf.state)
    ELSE IF raf.mapped THEN [e EXCEPT !.allowed = @ + 1] ELSE e
=============================================================================
