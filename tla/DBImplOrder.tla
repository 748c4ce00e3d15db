---------------------------- MODULE DBImplOrder -----------------------------
(***************************************************************************)
(* The writer queue, the groups of writers and the sequence numbers of     *)
(* DBImpl::Write, and what readers see of them, for every set of threads   *)
(* and requests, every value of the limits and any number of I/O errors,   *)
(* torn appends included: nothing here depends on the log files.           *)
(***************************************************************************)
EXTENDS DBImplProofs, FiniteSetTheorems

WritePcs == {"log", "sync", "insert", "relock"}
InWritePcs == LeaderPcs \cup {"queued", "signalled"}

(* What the argument compares. *)
OrderTypes ==
    /\ done \in [Writers -> BOOLEAN] /\ ok \in [Writers -> BOOLEAN] /\ logOk \in BOOLEAN
    /\ seqs \in [Writers -> SUBSET Nat]
    /\ lastSequence \in Nat /\ newSequence \in Nat

(* A writer is in the queue at most once, and not after it is done. *)
QueueInv ==
    /\ \A i, j \in 1..Len(writers) : writers[i] = writers[j] => i = j
    /\ \A i \in 1..Len(writers) : pc[writers[i]] \in InWritePcs /\ ~done[writers[i]]

(* The members of the group being written have numbers in it; the others   *)
(* have none yet.                                                          *)
GroupInv ==
    /\ groupLen <= Len(writers)
    /\ groupLen # 0 => pc[Head(writers)] \in WritePcs
    /\ \A t \in Writers : pc[t] \in WritePcs => groupLen # 0
    /\ \A i \in 1..Len(writers) :
         IF i <= groupLen THEN seqs[writers[i]] \subseteq Updates ELSE seqs[writers[i]] = {}

(* Only the group being written has numbers that readers do not see, and   *)
(* only mem_ holds any of them.                                            *)
SequenceInv ==
    /\ lastSequence <= newSequence /\ (groupLen = 0 => newSequence = lastSequence)
    /\ mem \subseteq 1..newSequence /\ tables \subseteq 1..lastSequence
    /\ imm # None => imm \subseteq 1..lastSequence

(* A leader whose group did not fail has put all of it into mem_. *)
LeaderMem ==
    \A t \in Writers :
      /\ pc[t] \in {"log", "sync", "insert"} => logOk
      /\ pc[t] = "relock" /\ logOk => Updates \subseteq mem

(* A flush has a memtable to flush until the end. *)
FlushHasImm == bpc \in FlushPcs => imm # None

(* The numbers of a call that has not returned are its own. *)
OwnInv ==
    /\ acked \cup failed \subseteq 1..lastSequence /\ acked \cap failed = {}
    /\ \A t \in Writers :
         /\ seqs[t] \subseteq 1..newSequence
         /\ done[t] => seqs[t] \subseteq 1..lastSequence
         /\ pc[t] \in InWritePcs => seqs[t] \cap (acked \cup failed) = {}
    /\ \A t, u \in Writers :
         pc[t] \in InWritePcs /\ pc[u] \in InWritePcs /\ t # u => seqs[t] \cap seqs[u] = {}

(* Acknowledged updates, and those about to be, are in the data. *)
AckInv ==
    /\ acked \subseteq Data
    /\ \A t \in Writers : pc[t] = "signalled" /\ done[t] /\ ok[t] => seqs[t] \subseteq Data

(* The inductive invariant. *)
OrderInv ==
    /\ LeaderInv /\ OrderTypes /\ QueueInv /\ HeadAwake /\ GroupInv
    /\ SequenceInv /\ LeaderMem /\ FlushHasImm /\ OwnInv /\ AckInv

USE DEF LeaderPcs, WriterPcs, WritePcs, InWritePcs, FlushPcs, BgPcs

(* What readers can see at all, as a set. *)
LEMMA DataFacts ==
    /\ mem \subseteq Data /\ tables \subseteq Data /\ (imm # None => imm \subseteq Data)
    /\ \A s \in Data : s \in mem \/ s \in tables \/ (imm # None /\ s \in imm)
  BY DEF Data

LEMMA OrderInit == Init => OrderInv
<1> SUFFICES ASSUME Init PROVE OrderInv
  OBVIOUS
<1>1. LeaderInv
  BY LeaderInit
<1>2. OrderTypes /\ QueueInv /\ HeadAwake /\ GroupInv /\ SequenceInv
  BY DEF Init, OrderTypes, QueueInv, HeadAwake, GroupInv, SequenceInv
<1>3. LeaderMem /\ FlushHasImm /\ OwnInv /\ AckInv
  BY DEF Init, LeaderMem, FlushHasImm, OwnInv, AckInv
<1> QED BY <1>1, <1>2, <1>3 DEF OrderInv

(* The types, as the steps need them. *)
LEMMA OrderFacts ==
    ASSUME OrderInv
    PROVE  /\ writers \in Seq(Writers) /\ Len(writers) \in Nat /\ groupLen \in Nat
           /\ pc \in [Writers -> WriterPcs]
           /\ \A i \in 1..Len(writers) : writers[i] \in Writers
           /\ writers # <<>> => Head(writers) = writers[1] /\ Head(writers) \in Writers
           /\ done \in [Writers -> BOOLEAN] /\ ok \in [Writers -> BOOLEAN] /\ logOk \in BOOLEAN
           /\ seqs \in [Writers -> SUBSET Nat] /\ lastSequence \in Nat /\ newSequence \in Nat
           /\ lastSequence <= newSequence
  BY DEF OrderInv, LeaderInv, QueueTypes, OrderTypes, SequenceInv

(* There is one leader. *)
LEMMA OneLeaderOnly ==
    ASSUME OrderInv, NEW t \in Writers, pc[t] \in LeaderPcs
    PROVE  /\ writers # <<>> /\ t = Head(writers) /\ t = writers[1] /\ Len(writers) \in Nat \ {0}
           /\ \A u \in Writers : pc[u] \in LeaderPcs => u = t
           /\ pc[t] \notin WritePcs => groupLen = 0 /\ newSequence = lastSequence
  BY DEF OrderInv, LeaderInv, QueueTypes, OneLeader, Front, GroupInv, SequenceInv

(* A step that leaves the writer queue and the numbers alone, and at most  *)
(* wakes threads that wait on bg_cv_ or moves a writer between two places  *)
(* where it waits, keeps what is known of the writers.                     *)
LEMMA ClientFrame ==
    ASSUME OrderInv, LeaderInv',
           UNCHANGED <<writers, groupLen, newSequence, lastSequence, done, ok, seqs, logOk, mem,
                       acked, failed>>,
           \A u \in Writers :
             \/ pc'[u] = pc[u] \/ {pc[u], pc'[u]} \subseteq LeaderPcs \ WritePcs
             \/ {pc[u], pc'[u]} \subseteq {"idle", "memcheck", "memwait"},
           tables' \subseteq 1..lastSequence, imm' # None => imm' \subseteq 1..lastSequence,
           FlushHasImm', Data' = Data
    PROVE  OrderInv'
<1>1. \A u \in Writers :
        /\ pc[u] \in LeaderPcs <=> pc'[u] \in LeaderPcs
        /\ pc[u] \in InWritePcs <=> pc'[u] \in InWritePcs
        /\ pc[u] \in {"queued", "signalled"} \cup WritePcs => pc'[u] = pc[u]
        /\ pc'[u] \in WritePcs \cup {"signalled"} => pc'[u] = pc[u]
  OBVIOUS
<1>2. OrderTypes' /\ QueueInv'
  BY <1>1, OrderFacts DEF OrderInv, OrderTypes, QueueInv
<1>3. HeadAwake'
  BY <1>1, OrderFacts DEF OrderInv, HeadAwake
<1>4. GroupInv'
  <2>1. groupLen # 0 => writers # <<>>
    BY OrderFacts DEF OrderInv, GroupInv
  <2> QED BY <1>1, <2>1, OrderFacts DEF OrderInv, GroupInv, Updates
<1>5. SequenceInv' /\ LeaderMem'
  BY <1>1 DEF OrderInv, SequenceInv, LeaderMem, Updates
<1>6. OwnInv' /\ AckInv'
  BY <1>1 DEF OrderInv, OwnInv, AckInv
<1> QED BY <1>2, <1>3, <1>4, <1>5, <1>6 DEF OrderInv

(* The queue after a writer has joined it. *)
LEMMA WriteOrder ==
    ASSUME OrderInv, LeaderInv', NEW t \in Writers, NEW r \in Requests, Write(t, r)
    PROVE  OrderInv'
<1> USE DEF groupVars, dataVars, bgVars
<1>1. /\ writers \in Seq(Writers) /\ pc \in [Writers -> WriterPcs] /\ groupLen \in Nat
      /\ done \in [Writers -> BOOLEAN] /\ ok \in [Writers -> BOOLEAN] /\ seqs \in [Writers -> SUBSET Nat]
  BY OrderFacts
<1>2. /\ pc[t] = "idle" /\ pc' = [pc EXCEPT ![t] = IF writers = <<>> THEN "room" ELSE "queued"]
      /\ writers' = Append(writers, t) /\ done' = [done EXCEPT ![t] = FALSE]
      /\ ok' = [ok EXCEPT ![t] = TRUE] /\ seqs' = [seqs EXCEPT ![t] = {}]
      /\ UNCHANGED <<groupLen, newSequence, lastSequence, logOk, mem, imm, tables, bpc, acked,
                     failed>>
  BY DEF Write, EnterQueue
<1>3. /\ Len(writers') = Len(writers) + 1 /\ Len(writers) \in Nat
      /\ \A i \in 1..Len(writers) : writers'[i] = writers[i] /\ writers[i] \in Writers /\ writers[i] # t
      /\ writers'[Len(writers) + 1] = t
  <2>1. \A i \in 1..Len(writers) : writers[i] \in Writers /\ writers[i] # t
    BY <1>1, <1>2 DEF OrderInv, QueueInv
  <2>2. /\ Len(Append(writers, t)) = Len(writers) + 1 /\ Len(writers) \in Nat
        /\ \A i \in 1..Len(writers) : Append(writers, t)[i] = writers[i]
        /\ Append(writers, t)[Len(writers) + 1] = t
    BY <1>1
  <2> QED BY <1>2, <2>1, <2>2
<1>4. OrderTypes' /\ FlushHasImm'
  BY <1>1, <1>2 DEF OrderInv, OrderTypes, FlushHasImm
<1>5. QueueInv'
  BY <1>1, <1>2, <1>3 DEF OrderInv, QueueInv
<1>6. \A u \in Writers : pc'[u] \in WritePcs \cup {"signalled"} => pc[u] = pc'[u] /\ u # t
  BY <1>1, <1>2
<1>7. HeadAwake'
  <2>1. CASE writers = <<>>
    BY <1>1, <1>2, <2>1, HeadOfAppend DEF HeadAwake
  <2>2. CASE writers # <<>>
    <3>1. Head(writers') = Head(writers) /\ Head(writers) \in Writers /\ Head(writers) # t
      BY <1>1, <1>2, <1>3, <2>2, HeadOfAppend
    <3> QED BY <1>1, <1>2, <2>2, <3>1 DEF OrderInv, HeadAwake
  <2> QED BY <2>1, <2>2
<1>8. GroupInv'
  <2>1. groupLen # 0 => Head(writers') = Head(writers) /\ Head(writers) \in Writers
    BY <1>1, <1>2, HeadOfAppend DEF OrderInv, GroupInv
  <2>2. groupLen # 0 => Head(writers) # t
    BY <1>2, <2>1 DEF OrderInv, GroupInv
  <2>3. Updates' = Updates
    BY <1>2 DEF Updates
  <2>4. \A i \in 1..Len(writers') :
          IF i <= groupLen' THEN seqs'[writers'[i]] \subseteq Updates' ELSE seqs'[writers'[i]] = {}
    BY <1>1, <1>2, <1>3, <2>3 DEF OrderInv, GroupInv
  <2> QED BY <1>1, <1>2, <1>3, <1>6, <2>1, <2>2, <2>4 DEF OrderInv, GroupInv
<1>9. SequenceInv' /\ LeaderMem'
  BY <1>2, <1>6 DEF OrderInv, SequenceInv, LeaderMem, Updates
<1>10. OwnInv' /\ AckInv'
  <2>1. \A u \in Writers : u # t => seqs'[u] = seqs[u] /\ pc'[u] = pc[u] /\ done'[u] = done[u]
    BY <1>1, <1>2
  <2>2. seqs'[t] = {} /\ pc'[t] # "signalled"
    BY <1>1, <1>2
  <2>3. OwnInv'
    BY <1>2, <2>1, <2>2 DEF OrderInv, OwnInv
  <2>4. AckInv'
    BY <1>1, <1>2, <1>6, <2>1 DEF OrderInv, AckInv, Data
  <2> QED BY <2>3, <2>4
<1> QED BY <1>4, <1>5, <1>7, <1>8, <1>9, <1>10 DEF OrderInv

(* What acknowledging the numbers of the writer t does. *)
LEMMA AcknowledgeOne ==
    ASSUME NEW t \in Writers, NEW status \in BOOLEAN, Acknowledge({t}, status)
    PROVE  /\ acked' = IF status THEN acked \cup seqs[t] ELSE acked
           /\ failed' = IF status THEN failed ELSE failed \cup seqs[t]
  BY DEF Acknowledge

(* A writer that another one wrote for returns; one at the front leads.    *)
LEMMA WriterWakesOrder ==
    ASSUME OrderInv, LeaderInv', NEW t \in Writers, WriterWakes(t)
    PROVE  OrderInv'
<1> USE DEF groupVars, dataVars, bgVars
<1>1. /\ writers \in Seq(Writers) /\ pc \in [Writers -> WriterPcs] /\ groupLen \in Nat
      /\ \A i \in 1..Len(writers) : writers[i] \in Writers
      /\ done \in [Writers -> BOOLEAN] /\ ok \in [Writers -> BOOLEAN]
  BY OrderFacts
<1>2. /\ pc[t] = "signalled"
      /\ UNCHANGED <<writers, groupLen, newSequence, lastSequence, done, ok, seqs, logOk, mem, imm,
                     tables, bpc>>
  BY DEF WriterWakes
<1>3. PICK p \in {"idle", "memcheck", "room", "queued"} :
        /\ pc' = [pc EXCEPT ![t] = p]
        /\ ~done[t] => p \in {"room", "queued"} /\ UNCHANGED <<acked, failed>>
        /\ ~done[t] /\ Front(t) => p = "room"
        /\ done[t] => /\ p \in {"idle", "memcheck"}
                      /\ acked' = IF ok[t] THEN acked \cup seqs[t] ELSE acked
                      /\ failed' = IF ok[t] THEN failed ELSE failed \cup seqs[t]
  BY AcknowledgeOne, <1>1 DEF WriterWakes, AfterReturn
<1>4. OrderTypes' /\ FlushHasImm'
  BY <1>2 DEF OrderInv, OrderTypes, FlushHasImm
<1>5. QueueInv'
  BY <1>1, <1>2, <1>3 DEF OrderInv, QueueInv
<1>6. \A u \in Writers : pc'[u] \in WritePcs \cup {"signalled"} => pc[u] = pc'[u]
  BY <1>1, <1>3
<1>7. HeadAwake'
  <2> SUFFICES ASSUME writers # <<>> PROVE pc'[Head(writers)] \in LeaderPcs \cup {"signalled"}
    BY <1>2 DEF HeadAwake
  <2>1. Head(writers) = writers[1] /\ 1 \in 1..Len(writers) /\ Head(writers) \in Writers
    BY <1>1
  <2>2. CASE Head(writers) # t
    BY <1>1, <1>3, <2>1, <2>2 DEF OrderInv, HeadAwake
  <2>3. CASE Head(writers) = t
    <3>1. ~done[t] /\ Front(t)
      BY <2>1, <2>3 DEF OrderInv, QueueInv, Front
    <3> QED BY <1>1, <1>3, <2>3, <3>1
  <2> QED BY <2>2, <2>3
<1>8. GroupInv'
  <2>1. groupLen # 0 => Head(writers) \in Writers /\ Head(writers) # t
    BY <1>1, <1>2 DEF OrderInv, GroupInv
  <2> QED BY <1>1, <1>2, <1>3, <1>6, <2>1 DEF OrderInv, GroupInv, Updates
<1>9. SequenceInv' /\ LeaderMem'
  BY <1>2, <1>6 DEF OrderInv, SequenceInv, LeaderMem, Updates
<1>10. OwnInv'
  <2>1. \A u \in Writers : u # t => pc'[u] = pc[u]
    BY <1>1, <1>3
  <2>2. CASE ~done[t]
    <3>1. UNCHANGED <<acked, failed>>
      BY <1>3, <2>2
    <3>2. \A u \in Writers : pc'[u] \in InWritePcs => pc[u] \in InWritePcs
      BY <1>2, <2>1
    <3> QED BY <1>2, <3>1, <3>2 DEF OrderInv, OwnInv
  <2>3. CASE done[t]
    <3>1. /\ acked' \cup failed' = acked \cup failed \cup seqs[t]
          /\ acked' \cap failed' \subseteq (acked \cap failed) \cup (seqs[t] \cap (acked \cup failed))
      BY <1>3, <2>3
    <3>2. \A u \in Writers : pc'[u] \in InWritePcs => pc[u] \in InWritePcs /\ u # t
      BY <1>1, <1>2, <1>3, <2>1, <2>3
    <3>3. seqs[t] \subseteq 1..lastSequence /\ seqs[t] \cap (acked \cup failed) = {}
      BY <1>2, <2>3 DEF OrderInv, OwnInv
    <3>4. \A u \in Writers : pc'[u] \in InWritePcs => seqs[u] \cap seqs[t] = {}
      BY <1>2, <3>2 DEF OrderInv, OwnInv
    <3> QED BY <1>2, <3>1, <3>2, <3>3, <3>4 DEF OrderInv, OwnInv
  <2> QED BY <2>2, <2>3
<1>11. AckInv'
  <2>1. Data' = Data
    BY <1>2 DEF Data
  <2>2. acked' \subseteq Data
    BY <1>1, <1>2, <1>3 DEF OrderInv, AckInv
  <2> QED BY <1>2, <1>6, <2>1, <2>2 DEF OrderInv, AckInv
<1> QED BY <1>4, <1>5, <1>7, <1>8, <1>9, <1>10, <1>11 DEF OrderInv

(* What is left of the queue when its first len writers are popped. *)
LEMMA RestFacts ==
    ASSUME OrderInv, NEW len \in Nat, len <= Len(writers)
    PROVE  /\ Len(Rest(len)) = Len(writers) - len
           /\ \A i \in 1..Len(Rest(len)) :
                /\ Rest(len)[i] = writers[i + len] /\ i + len \in 1..Len(writers)
                /\ Rest(len)[i] \in Writers /\ Rest(len)[i] \notin Group(len)
<1>1. writers \in Seq(Writers) /\ Len(writers) \in Nat
  BY OrderFacts
<1>2. Len(Rest(len)) = Len(writers) - len
  BY <1>1 DEF Rest
<1>3. \A i \in 1..Len(Rest(len)) : Rest(len)[i] = writers[i + len] /\ i + len \in 1..Len(writers)
  BY <1>1, <1>2 DEF Rest
<1>4. \A i \in 1..Len(Rest(len)) : Rest(len)[i] \in Writers /\ Rest(len)[i] \notin Group(len)
  <2> SUFFICES ASSUME NEW i \in 1..Len(Rest(len))
               PROVE  Rest(len)[i] \in Writers /\ Rest(len)[i] \notin Group(len)
    OBVIOUS
  <2>1. Rest(len)[i] = writers[i + len] /\ i + len \in 1..Len(writers) /\ i + len > len
    BY <1>1, <1>2, <1>3
  <2>2. \A j \in 1..len : j \in 1..Len(writers) /\ j # i + len
    BY <1>1, <2>1
  <2>3. \A j \in 1..len : writers[j] # writers[i + len]
    BY <2>1, <2>2 DEF OrderInv, QueueInv
  <2> QED BY <1>1, <2>1, <2>3 DEF Group
<1> QED BY <1>2, <1>3, <1>4

(* The loop at the end of Write, with nothing of the group in doubt: the   *)
(* queue without its first len writers, which are done with status, and    *)
(* with its new front signalled.                                           *)
LEMMA PopOrder ==
    ASSUME OrderInv, NEW t \in Writers, NEW len \in Nat, NEW status \in BOOLEAN,
           pc[t] \in LeaderPcs, len <= Len(writers), len # 0, groupLen <= len,
           status => \A u \in Group(len) : seqs[u] \subseteq Data,
           PopGroup(t, len, status),
           pc' = Popped(t, len, status) \/ pc' = WakeWriters(Popped(t, len, status)),
           LeaderInv', groupLen' = 0, lastSequence' = newSequence, newSequence' = newSequence,
           UNCHANGED <<seqs, logOk, mem, imm, tables, bpc>>
    PROVE  OrderInv'
<1>1. /\ writers \in Seq(Writers) /\ pc \in [Writers -> WriterPcs]
      /\ done \in [Writers -> BOOLEAN] /\ ok \in [Writers -> BOOLEAN]
      /\ groupLen \in Nat /\ Len(writers) \in Nat
      /\ lastSequence \in Nat /\ newSequence \in Nat /\ lastSequence <= newSequence
  BY OrderFacts
<1>2. /\ writers' = Rest(len)
      /\ done' = [u \in Writers |-> done[u] \/ (u \in Group(len) \ {t})]
      /\ ok' = [u \in Writers |-> IF u \in Group(len) THEN status ELSE ok[u]]
      /\ acked' = IF status THEN acked \cup seqs[t] ELSE acked
      /\ failed' = IF status THEN failed ELSE failed \cup seqs[t]
  BY AcknowledgeOne DEF PopGroup
<1>3. t \in Group(len)
  BY OneLeaderOnly DEF Group
<1>4. \A u \in Writers : pc'[u] \notin LeaderPcs
  <2>1. Rest(len) \in Seq(Writers)
    BY <1>1, RestOfQueue
  <2>2. groupLen' \in Nat /\ LeaderInv
    BY DEF OrderInv
  <2> QED BY <1>2, <2>1, <2>2, LeaderPops
<1>5. /\ \A u \in Writers :
           /\ pc[u] \in LeaderPcs => u = t
           /\ pc[u] \in {"queued", "signalled"} => u # t /\ pc'[u] \in {"queued", "signalled"}
           /\ pc'[u] = "signalled" => \/ pc[u] = "signalled" \/ u \in Group(len)
                                      \/ \E i \in 1..Len(Rest(len)) : u = Rest(len)[i]
           /\ pc'[u] \in InWritePcs => pc[u] \in InWritePcs /\ u # t
      /\ Rest(len) # <<>> /\ pc[Head(Rest(len))] \in {"queued", "signalled"} =>
           pc'[Head(Rest(len))] = "signalled"
  <2> DEFINE p == Popped(t, len, status)
  <2>1. \A u \in Writers :
          /\ pc[u] \in {"queued", "signalled"} => u # t /\ p[u] \in {"queued", "signalled"}
          /\ p[u] = "signalled" => \/ pc[u] = "signalled" \/ u \in Group(len)
                                   \/ (Rest(len) # <<>> /\ u = Head(Rest(len)))
          /\ p[u] \in InWritePcs => pc[u] \in InWritePcs /\ u # t
          /\ pc[u] \in {"queued", "signalled"} /\ Rest(len) # <<>> /\ u = Head(Rest(len)) =>
               p[u] = "signalled"
    BY <1>1 DEF Popped, AfterReturn
  <2>2. \A u \in Writers :
          /\ p[u] \in {"queued", "signalled"} => pc'[u] = p[u]
          /\ pc'[u] = "signalled" => p[u] = "signalled"
          /\ pc'[u] \in InWritePcs => p[u] \in InWritePcs
    <3>1. p \in [Writers -> WriterPcs]
      BY <1>1 DEF Popped, AfterReturn
    <3>2. pc' = p \/ pc' = WakeWriters(p)
      OBVIOUS
    <3> HIDE DEF p
    <3> QED BY <3>1, <3>2 DEF WakeWriters
  <2>3. Rest(len) # <<>> =>
          /\ Head(Rest(len)) \in Writers
          /\ \E i \in 1..Len(Rest(len)) : Head(Rest(len)) = Rest(len)[i]
    <3>1. Rest(len) \in Seq(Writers)
      BY <1>1, RestOfQueue
    <3> QED BY <3>1
  <2> HIDE DEF p
  <2> QED BY <2>1, <2>2, <2>3, OneLeaderOnly
<1>6. OrderTypes' /\ FlushHasImm'
  BY <1>1, <1>2 DEF OrderInv, OrderTypes, FlushHasImm
<1>7. \A i \in 1..Len(Rest(len)) :
        /\ Rest(len)[i] \in Writers /\ Rest(len)[i] # t /\ Rest(len)[i] \notin Group(len)
        /\ pc[Rest(len)[i]] \in {"queued", "signalled"} /\ ~done[Rest(len)[i]]
        /\ seqs[Rest(len)[i]] = {}
  <2> SUFFICES ASSUME NEW i \in 1..Len(Rest(len))
               PROVE  /\ Rest(len)[i] \in Writers /\ Rest(len)[i] # t
                      /\ Rest(len)[i] \notin Group(len)
                      /\ pc[Rest(len)[i]] \in {"queued", "signalled"} /\ ~done[Rest(len)[i]]
                      /\ seqs[Rest(len)[i]] = {}
    OBVIOUS
  <2>1. /\ Rest(len)[i] = writers[i + len] /\ i + len \in 1..Len(writers)
        /\ Rest(len)[i] \in Writers /\ Rest(len)[i] \notin Group(len)
    BY RestFacts
  <2>2. Rest(len)[i] # t
    BY <1>3, <2>1
  <2>3. pc[Rest(len)[i]] \in {"queued", "signalled"} /\ ~done[Rest(len)[i]]
    BY <1>5, <2>1, <2>2 DEF OrderInv, QueueInv
  <2>4. i + len > groupLen
    BY <1>1, <2>1
  <2>5. seqs[Rest(len)[i]] = {}
    BY <1>1, <2>1, <2>4 DEF OrderInv, GroupInv
  <2> QED BY <2>1, <2>2, <2>3, <2>5
<1>8. QueueInv'
  <2>1. \A i, j \in 1..Len(Rest(len)) : Rest(len)[i] = Rest(len)[j] => i = j
    <3>1. \A i \in 1..Len(Rest(len)) :
            Rest(len)[i] = writers[i + len] /\ i + len \in 1..Len(writers)
      BY RestFacts
    <3>2. \A i, j \in 1..Len(writers) : writers[i] = writers[j] => i = j
      BY DEF OrderInv, QueueInv
    <3>3. \A i, j \in 1..Len(Rest(len)) : Rest(len)[i] = Rest(len)[j] => i + len = j + len
      BY <3>1, <3>2
    <3> QED BY <3>3
  <2> QED BY <1>2, <1>5, <1>7, <2>1 DEF QueueInv
<1>9. HeadAwake'
  <2>1. Rest(len) # <<>> => \E i \in 1..Len(Rest(len)) : Head(Rest(len)) = Rest(len)[i]
    <3>1. Rest(len) \in Seq(Writers)
      BY <1>1, RestOfQueue
    <3> QED BY <3>1
  <2> QED BY <1>2, <1>5, <1>7, <2>1 DEF HeadAwake
<1>10. GroupInv'
  <2>1. Len(Rest(len)) \in Nat
    BY <1>1, RestFacts
  <2>2. groupLen' <= Len(writers') /\ \A u \in Writers : pc'[u] \notin WritePcs
    BY <1>2, <1>4, <2>1
  <2>3. \A i \in 1..Len(writers') : ~(i <= groupLen') /\ seqs'[writers'[i]] = {}
    BY <1>2, <1>7, <2>1
  <2> QED BY <2>2, <2>3 DEF GroupInv
<1>11. SequenceInv' /\ LeaderMem'
  BY <1>1, <1>4 DEF OrderInv, SequenceInv, LeaderMem
<1>12. OwnInv'
  <2>1. /\ acked' \cup failed' = acked \cup failed \cup seqs[t]
        /\ acked' \cap failed' \subseteq (acked \cap failed) \cup (seqs[t] \cap (acked \cup failed))
    BY <1>2
  <2>2. \A u \in Writers : pc'[u] \in InWritePcs => pc[u] \in InWritePcs /\ u # t
    BY <1>5
  <2>3. \A u \in Writers : seqs[u] \subseteq 1..lastSequence'
    BY DEF OrderInv, OwnInv
  <2>4. acked \cup failed \subseteq 1..lastSequence' /\ acked \cap failed = {}
    BY <1>1 DEF OrderInv, OwnInv
  <2>5. seqs[t] \cap (acked \cup failed) = {}
    BY DEF OrderInv, OwnInv
  <2>6. \A u \in Writers : pc'[u] \in InWritePcs =>
          seqs[u] \cap seqs[t] = {} /\ seqs[u] \cap (acked \cup failed) = {}
    BY <2>2 DEF OrderInv, OwnInv
  <2>7. \A u, v \in Writers :
          pc'[u] \in InWritePcs /\ pc'[v] \in InWritePcs /\ u # v => seqs[u] \cap seqs[v] = {}
    BY <2>2 DEF OrderInv, OwnInv
  <2> QED BY <2>1, <2>3, <2>4, <2>5, <2>6, <2>7 DEF OwnInv
<1>13. AckInv'
  <2>1. Data' = Data
    BY DEF Data
  <2>2. acked' \subseteq Data
    BY <1>2, <1>3 DEF OrderInv, AckInv
  <2>3. ASSUME NEW u \in Writers, pc'[u] = "signalled", done'[u], ok'[u]
        PROVE  seqs[u] \subseteq Data
    <3>1. CASE u \in Group(len)
      BY <1>2, <2>3, <3>1
    <3>2. CASE u \notin Group(len) /\ pc[u] = "signalled"
      BY <1>2, <2>3, <3>2 DEF OrderInv, AckInv
    <3>3. CASE \E i \in 1..Len(Rest(len)) : u = Rest(len)[i]
      BY <1>7, <3>3
    <3> QED BY <1>5, <2>3, <3>1, <3>2, <3>3
  <2> QED BY <2>1, <2>2, <2>3 DEF AckInv
<1> QED BY <1>6, <1>8, <1>9, <1>10, <1>11, <1>12, <1>13 DEF OrderInv

(* MakeRoomForWrite fails, or the batch is NULL: nothing was numbered yet. *)
LEMMA RoomPopsOrder ==
    ASSUME OrderInv, LeaderInv', NEW t \in Writers,
           RoomError(t) \/ RoomSwitchFails(t) \/ RoomNullBatch(t)
    PROVE  OrderInv'
<1> USE DEF roomUnchanged, groupVars, bgVars
<1>1. PICK status \in BOOLEAN :
        /\ pc[t] = "room" /\ PopGroup(t, 1, status) /\ pc' = Popped(t, 1, status)
        /\ UNCHANGED <<groupLen, newSequence, lastSequence, seqs, logOk, mem, imm, tables, bpc>>
  BY DEF RoomError, RoomSwitchFails, RoomNullBatch, CanSwitch
<1>2. /\ groupLen = 0 /\ Len(writers) \in Nat \ {0} /\ t = writers[1]
      /\ newSequence = lastSequence
  BY <1>1, OneLeaderOnly
<1>3. \A u \in Group(1) : seqs[u] \subseteq Data
  <2>1. seqs[writers[1]] = {}
    BY <1>2 DEF OrderInv, GroupInv
  <2> QED BY <2>1 DEF Group
<1>4. /\ groupLen' = 0 /\ groupLen <= 1 /\ 1 <= Len(writers) /\ pc[t] \in LeaderPcs
      /\ lastSequence' = newSequence
  BY <1>1, <1>2
<1> QED BY <1>1, <1>3, <1>4, PopOrder

(* The leader hands the group its status: OK only if all is in mem_.       *)
LEMMA FinishWriteOrder ==
    ASSUME OrderInv, LeaderInv', NEW t \in Writers, FinishWrite(t)
    PROVE  OrderInv'
<1> USE DEF dataVars, bgVars
<1>1. /\ pc[t] = "relock" /\ PopGroup(t, groupLen, logOk)
      /\ \/ pc' = Popped(t, groupLen, logOk) \/ pc' = WakeWriters(Popped(t, groupLen, logOk))
      /\ groupLen' = 0 /\ lastSequence' = newSequence /\ newSequence' = newSequence
      /\ UNCHANGED <<seqs, logOk, mem, imm, tables, bpc>>
  BY DEF FinishWrite, Publish
<1>2. /\ groupLen \in Nat \ {0} /\ groupLen <= Len(writers) /\ Len(writers) \in Nat
      /\ logOk \in BOOLEAN
  BY <1>1, OrderFacts DEF OrderInv, GroupInv
<1>3. logOk => \A u \in Group(groupLen) : seqs[u] \subseteq Data
  <2> SUFFICES ASSUME logOk, NEW i \in 1..groupLen PROVE seqs[writers[i]] \subseteq Data
    BY DEF Group
  <2>1. seqs[writers[i]] \subseteq Updates
    BY <1>2 DEF OrderInv, GroupInv
  <2>2. Updates \subseteq mem
    BY <1>1 DEF OrderInv, LeaderMem
  <2> QED BY <2>1, <2>2, DataFacts
<1>4. /\ pc[t] \in LeaderPcs /\ groupLen \in Nat /\ groupLen # 0 /\ groupLen <= groupLen
  BY <1>1, <1>2
<1> QED BY <1>1, <1>2, <1>3, <1>4, PopOrder

(* The number of updates in the batches of the queue's first writers.      *)
LEMMA CountFacts ==
    ASSUME NEW i \in Nat, NEW j \in Nat, i <= j
    PROVE  Count(i) \in Nat /\ Count(j) \in Nat /\ Count(i) <= Count(j)
<1> DEFINE Slots(k) == {p \in (1..k) \X (1..MaxUpdates) : p[2] <= ByteSize(writers[p[1]])}
<1>1. \A k \in Nat : IsFiniteSet((1..k) \X (1..MaxUpdates))
  <2> TAKE k \in Nat
  <2>1. MaxUpdates \in Nat
    BY BoundsAssumption
  <2>2. IsFiniteSet(1..k) /\ IsFiniteSet(1..MaxUpdates)
    BY <2>1, FS_Interval
  <2> QED BY <2>2, FS_Product
<1>2. \A k \in Nat : IsFiniteSet(Slots(k))
  <2> TAKE k \in Nat
  <2>1. Slots(k) \subseteq (1..k) \X (1..MaxUpdates)
    OBVIOUS
  <2> HIDE DEF Slots
  <2> QED BY <1>1, <2>1, FS_Subset
<1>3. Slots(i) \subseteq Slots(j)
  OBVIOUS
<1>4. IsFiniteSet(Slots(i)) /\ IsFiniteSet(Slots(j))
  BY <1>2
<1>5. Count(i) = Cardinality(Slots(i)) /\ Count(j) = Cardinality(Slots(j))
  BY DEF Count
<1> HIDE DEF Slots
<1>6. Cardinality(Slots(i)) \in Nat /\ Cardinality(Slots(j)) \in Nat
  BY <1>4, FS_CardinalityType
<1>7. Cardinality(Slots(i)) <= Cardinality(Slots(j))
  BY <1>3, <1>4, FS_Subset
<1> QED BY <1>5, <1>6, <1>7

(* BuildBatchGroup numbers the batches of the group, and no others, with   *)
(* numbers of their own above every number given before.                   *)
LEMMA BuildBatchGroupOrder ==
    ASSUME OrderInv, LeaderInv', NEW t \in Writers, BuildBatchGroup(t)
    PROVE  OrderInv'
<1> USE DEF roomUnchanged, bgVars
<1>1. PICK len \in 1..Len(writers) :
        /\ groupLen' = len /\ newSequence' = lastSequence + Count(len)
        /\ seqs' = [u \in Writers |-> IF \E i \in 1..len : writers[i] = u
                                      THEN Numbers(u) ELSE seqs[u]]
  BY DEF BuildBatchGroup, GroupLens
<1>2. /\ pc[t] = "room" /\ pc' = [pc EXCEPT ![t] = "log"] /\ logOk' = TRUE
      /\ UNCHANGED <<writers, lastSequence, done, ok, mem, imm, tables, bpc, acked, failed>>
  BY DEF BuildBatchGroup
<1>3. /\ writers \in Seq(Writers) /\ pc \in [Writers -> WriterPcs] /\ Len(writers) \in Nat
      /\ lastSequence \in Nat /\ seqs \in [Writers -> SUBSET Nat]
      /\ \A i \in 1..Len(writers) : writers[i] \in Writers
  BY OrderFacts
<1>4. /\ groupLen = 0 /\ newSequence = lastSequence /\ t = Head(writers) /\ t = writers[1]
      /\ writers # <<>> /\ \A u \in Writers : pc[u] \in LeaderPcs => u = t
  BY <1>2, OneLeaderOnly
<1>5. newSequence' \in Nat /\ lastSequence <= newSequence' /\ Count(len) \in Nat
  <2>1. len \in Nat /\ len <= len
    BY <1>3
  <2>2. Count(len) \in Nat
    BY <2>1, CountFacts
  <2> QED BY <1>1, <1>3, <2>2
<1>6. Updates' = lastSequence + 1 .. lastSequence + Count(len)
  BY <1>1, <1>2 DEF Updates
<1>7. \A i \in 1..len :
        Numbers(writers[i]) = lastSequence + Count(i-1) + 1 .. lastSequence + Count(i)
  <2> TAKE i \in 1..len
  <2>1. i \in 1..Len(writers)
    BY <1>3
  <2>2. (CHOOSE j \in 1..Len(writers) : writers[j] = writers[i]) = i
    BY <2>1 DEF OrderInv, QueueInv
  <2> QED BY <2>2 DEF Numbers
<1>8. \A i \in 1..len : Numbers(writers[i]) \subseteq Updates'
  <2> TAKE i \in 1..len
  <2>1. Count(i) \in Nat /\ Count(len) \in Nat /\ Count(i) <= Count(len)
    BY CountFacts
  <2>2. Count(i-1) \in Nat
    BY CountFacts
  <2> QED BY <1>3, <1>6, <1>7, <2>1, <2>2
<1>9. \A i, j \in 1..len : i # j => Numbers(writers[i]) \cap Numbers(writers[j]) = {}
  <2>1. ASSUME NEW i \in 1..len, NEW j \in 1..len, i < j
        PROVE  Numbers(writers[i]) \cap Numbers(writers[j]) = {}
    <3>1. i \in Nat /\ j-1 \in Nat /\ i <= j-1
      BY <2>1
    <3>2. Count(i) \in Nat /\ Count(j-1) \in Nat /\ Count(i) <= Count(j-1)
      BY <3>1, CountFacts
    <3>3. Count(j) \in Nat /\ Count(i-1) \in Nat
      BY <2>1, CountFacts
    <3>4. /\ Numbers(writers[i]) = lastSequence + Count(i-1) + 1 .. lastSequence + Count(i)
          /\ Numbers(writers[j]) = lastSequence + Count(j-1) + 1 .. lastSequence + Count(j)
      BY <1>7
    <3> QED BY <1>3, <3>2, <3>3, <3>4
  <2>2. \A i, j \in 1..len : i < j \/ j < i \/ i = j
    OBVIOUS
  <2> QED BY <2>1, <2>2
<1>10. \A i \in 1..Len(writers) :
        IF i <= len THEN seqs'[writers[i]] \subseteq Updates' ELSE seqs'[writers[i]] = {}
  <2>1. \A i \in 1..Len(writers) : seqs[writers[i]] = {}
    BY <1>4 DEF OrderInv, GroupInv
  <2>2. \A i \in 1..Len(writers) : i > len => ~\E j \in 1..len : writers[j] = writers[i]
    BY <1>3 DEF OrderInv, QueueInv
  <2> QED BY <1>1, <1>3, <1>8, <2>1, <2>2
<1>11. \A u \in Writers :
         \/ seqs'[u] = seqs[u]
         \/ \E i \in 1..len : u = writers[i] /\ seqs'[u] = Numbers(writers[i])
  BY <1>1, <1>3
<1>12. \A u \in Writers : seqs'[u] = seqs[u] \/ (seqs'[u] \subseteq Updates' /\ ~done[u])
  <2>1. \A i \in 1..len : ~done[writers[i]]
    BY <1>3 DEF OrderInv, QueueInv
  <2> QED BY <1>8, <1>11, <2>1
<1>13. OrderTypes' /\ FlushHasImm'
  <2>1. Updates' \subseteq Nat
    BY <1>3, <1>6
  <2>2. \A u \in Writers : seqs'[u] \subseteq Nat
    BY <1>3, <1>12, <2>1
  <2>3. seqs' \in [Writers -> SUBSET Nat]
    BY <1>1, <2>2
  <2> QED BY <1>2, <1>5, <2>3 DEF OrderInv, OrderTypes, FlushHasImm
<1>14. QueueInv' /\ HeadAwake'
  BY <1>2, <1>3, <1>4 DEF OrderInv, QueueInv, HeadAwake
<1>15. GroupInv'
  <2>1. pc'[t] = "log" /\ \A u \in Writers : pc'[u] \in WritePcs => u = t
    BY <1>2, <1>3, <1>4
  <2>2. groupLen' <= Len(writers') /\ groupLen' # 0
    BY <1>1, <1>2, <1>3
  <2>3. pc'[Head(writers')] \in WritePcs
    BY <1>2, <1>4, <2>1
  <2> QED BY <1>1, <1>2, <1>10, <2>1, <2>2, <2>3 DEF GroupInv
<1>16. SequenceInv'
  <2>1. groupLen' # 0
    BY <1>1
  <2>2. mem \subseteq 1..newSequence'
    BY <1>3, <1>4, <1>5 DEF OrderInv, SequenceInv
  <2> QED BY <1>2, <1>5, <2>1, <2>2 DEF OrderInv, SequenceInv
<1>17. LeaderMem'
  BY <1>2, <1>3, <1>4 DEF LeaderMem
<1>18. OwnInv'
  <2>1. \A u \in Writers : seqs[u] \subseteq 1..lastSequence
    BY <1>4 DEF OrderInv, OwnInv
  <2>2. \A u \in Writers : seqs'[u] \subseteq 1..newSequence'
    <3>1. Updates' \subseteq 1..newSequence' /\ 1..lastSequence \subseteq 1..newSequence'
      BY <1>1, <1>3, <1>5, <1>6
    <3> QED BY <1>12, <2>1, <3>1
  <2>3. \A u \in Writers : done'[u] => seqs'[u] \subseteq 1..lastSequence'
    BY <1>2, <1>12, <2>1
  <2>4. Updates' \cap 1..lastSequence = {}
    BY <1>3, <1>5, <1>6
  <2>5. \A u \in Writers : pc'[u] \in InWritePcs => pc[u] \in InWritePcs
    BY <1>2, <1>3
  <2>6. \A u \in Writers : pc'[u] \in InWritePcs => seqs'[u] \cap (acked \cup failed) = {}
    BY <1>12, <2>4, <2>5 DEF OrderInv, OwnInv
  <2>7. ASSUME NEW u \in Writers, NEW v \in Writers, pc'[u] \in InWritePcs, pc'[v] \in InWritePcs,
               u # v
        PROVE  seqs'[u] \cap seqs'[v] = {}
    <3>1. CASE seqs'[u] = seqs[u] /\ seqs'[v] = seqs[v]
      BY <2>5, <2>7, <3>1 DEF OrderInv, OwnInv
    <3>2. CASE seqs'[u] = seqs[u] /\ seqs'[v] \subseteq Updates'
      BY <2>1, <2>4, <3>2
    <3>3. CASE seqs'[v] = seqs[v] /\ seqs'[u] \subseteq Updates'
      BY <2>1, <2>4, <3>3
    <3>4. CASE seqs'[u] # seqs[u] /\ seqs'[v] # seqs[v]
      BY <1>9, <1>11, <2>7, <3>4
    <3> QED BY <1>12, <3>1, <3>2, <3>3, <3>4
  <2> QED BY <1>2, <2>2, <2>3, <2>6, <2>7 DEF OrderInv, OwnInv
<1>19. AckInv'
  <2>1. Data' = Data
    BY <1>2 DEF Data
  <2>2. \A u \in Writers : pc'[u] = "signalled" /\ done'[u] => pc[u] = "signalled" /\ seqs'[u] = seqs[u]
    BY <1>2, <1>3, <1>12
  <2> QED BY <1>2, <2>1, <2>2 DEF OrderInv, AckInv
<1> QED BY <1>13, <1>14, <1>15, <1>16, <1>17, <1>18, <1>19 DEF OrderInv

(* The memtable switch: mem_ becomes imm_, and no update is unpublished.   *)
LEMMA RoomSwitchOrder ==
    ASSUME OrderInv, LeaderInv', None \notin SUBSET Nat, NEW t \in Writers, RoomSwitch(t)
    PROVE  OrderInv' /\ Data' = Data
<1> USE DEF roomUnchanged, groupVars, bgVars
<1>1. /\ pc[t] = "room" /\ imm = None /\ imm' = mem /\ mem' = {}
      /\ UNCHANGED <<pc, writers, groupLen, newSequence, lastSequence, done, ok, seqs, logOk,
                     tables, bpc, acked, failed>>
  BY DEF RoomSwitch, CanSwitch
<1>2. mem # None /\ mem \subseteq 1..lastSequence /\ \A u \in Writers : pc[u] \notin WritePcs
  <2>1. newSequence = lastSequence /\ \A u \in Writers : pc[u] \notin WritePcs
    BY <1>1, OneLeaderOnly
  <2>2. mem \subseteq 1..lastSequence /\ lastSequence \in Nat
    BY <2>1, OrderFacts DEF OrderInv, SequenceInv
  <2>3. mem \in SUBSET Nat
    BY <2>2
  <2>4. mem # None
    BY <2>3
  <2> QED BY <2>1, <2>2, <2>4
<1>3. Data' = Data
  BY <1>1, <1>2 DEF Data
<1>4. OrderTypes' /\ QueueInv' /\ HeadAwake' /\ GroupInv'
  BY <1>1 DEF OrderInv, OrderTypes, QueueInv, HeadAwake, GroupInv, Updates
<1>5. SequenceInv' /\ LeaderMem' /\ FlushHasImm'
  BY <1>1, <1>2 DEF OrderInv, SequenceInv, LeaderMem, FlushHasImm
<1>6. OwnInv' /\ AckInv'
  BY <1>1, <1>3 DEF OrderInv, OwnInv, AckInv
<1> QED BY <1>3, <1>4, <1>5, <1>6 DEF OrderInv

(* The leader at work with mutex_ released: it adds to mem_ what has a     *)
(* number of its group, in a group that has not failed.                    *)
LEMMA LogAndInsertOrder ==
    ASSUME OrderInv, LeaderInv', NEW t \in Writers,
           AddRecord(t) \/ AddRecordFails(t) \/ Sync(t) \/ SyncFails(t) \/ InsertInto(t)
    PROVE  OrderInv' /\ Data \subseteq Data' /\ Data' \subseteq Data \cup Updates
<1> USE DEF writeUnchanged, bgVars, ghostVars
<1>1. UNCHANGED <<writers, groupLen, newSequence, lastSequence, done, ok, seqs, imm, tables, bpc,
                  acked, failed>>
  BY DEF AddRecord, AddRecordFails, Sync, SyncFails, InsertInto
<1>2. /\ pc[t] \in WritePcs
      /\ \E p \in WritePcs \ {"log"} : pc' = [pc EXCEPT ![t] = p]
      /\ mem \subseteq mem' /\ mem' \subseteq mem \cup Updates
      /\ logOk' \in BOOLEAN
  <2>1. pc \in [Writers -> WriterPcs] /\ logOk \in BOOLEAN
    BY OrderFacts
  <2> QED BY <2>1 DEF AddRecord, AddRecordFails, Sync, SyncFails, InsertInto
<1>3. /\ pc \in [Writers -> WriterPcs] /\ \A u \in Writers : pc[u] \in LeaderPcs => u = t
      /\ t = Head(writers) /\ \A i \in 1..Len(writers) : writers[i] \in Writers
      /\ \A u \in Writers : u # t => pc'[u] = pc[u]
  BY <1>2, OneLeaderOnly, OrderFacts
<1>4. /\ pc'[t] \in {"sync", "insert"} => logOk'
      /\ pc'[t] = "relock" /\ logOk' => Updates \subseteq mem'
  <2>1. pc[t] \in {"log", "sync", "insert"} => logOk
    BY DEF OrderInv, LeaderMem
  <2>2. CASE AddRecord(t)
    BY <1>3, <2>1, <2>2 DEF AddRecord
  <2>3. CASE AddRecordFails(t)
    BY <1>3, <2>3 DEF AddRecordFails
  <2>4. CASE Sync(t)
    BY <1>3, <2>1, <2>4 DEF Sync
  <2>5. CASE SyncFails(t)
    BY <1>3, <2>5 DEF SyncFails
  <2>6. CASE InsertInto(t)
    BY <1>3, <2>1, <2>6 DEF InsertInto
  <2> QED BY <2>2, <2>3, <2>4, <2>5, <2>6
<1>5. Data \subseteq Data' /\ Data' \subseteq Data \cup Updates
  BY <1>1, <1>2 DEF Data
<1>6. OrderTypes' /\ FlushHasImm' /\ HeadAwake'
  BY <1>1, <1>2, <1>3 DEF OrderInv, OrderTypes, FlushHasImm, HeadAwake
<1>7. QueueInv'
  BY <1>1, <1>2, <1>3 DEF OrderInv, QueueInv
<1>8. GroupInv'
  BY <1>1, <1>2, <1>3 DEF OrderInv, GroupInv, Updates
<1>9. SequenceInv'
  <2>1. Updates \subseteq 1..newSequence
    BY OrderFacts DEF Updates
  <2> QED BY <1>1, <1>2, <2>1 DEF OrderInv, SequenceInv
<1>10. LeaderMem'
  <2>1. \A u \in Writers : pc'[u] \in WritePcs => u = t
    BY <1>3
  <2>2. pc'[t] # "log" /\ Updates' = Updates
    BY <1>1, <1>2, <1>3 DEF Updates
  <2> QED BY <1>4, <2>1, <2>2 DEF LeaderMem
<1>11. OwnInv'
  <2>1. \A u \in Writers : pc'[u] \in InWritePcs => pc[u] \in InWritePcs
    BY <1>2, <1>3
  <2> QED BY <1>1, <2>1 DEF OrderInv, OwnInv
<1>12. AckInv'
  <2>1. \A u \in Writers : pc'[u] = "signalled" => pc[u] = "signalled"
    BY <1>2, <1>3
  <2> QED BY <1>1, <1>5, <2>1 DEF OrderInv, AckInv
<1> QED BY <1>5, <1>6, <1>7, <1>8, <1>9, <1>10, <1>11, <1>12 DEF OrderInv

(* Every step of the background thread: a flush moves imm_ to a table.     *)
LEMMA BackgroundOrder ==
    ASSUME OrderInv, LeaderInv', BackgroundNext
    PROVE  OrderInv' /\ Data' = Data
<1> USE DEF bgFrame, quiet, groupVars, ghostVars
<1>1. UNCHANGED <<writers, groupLen, newSequence, lastSequence, done, ok, seqs, logOk, mem, acked,
                  failed>>
  BY DEF BackgroundNext, BackgroundSkip, BackgroundFlush, ManualDone, PickCompaction,
     BuildTable, FlushApply, FlushAborts, FlushManifest, FlushInstall, FlushFails,
     WorkFlushesImm, WorkEnds, InstallCompactionResults, CompactionManifest,
     CompactionInstall, CompactionFails, ManualLost
<1>2. pc' = pc \/ pc' = WakeWriters(pc)
  BY DEF BackgroundNext, BackgroundSkip, BackgroundFlush, ManualDone, PickCompaction,
     BuildTable, FlushApply, FlushAborts, FlushManifest, FlushInstall, FlushFails,
     WorkFlushesImm, WorkEnds, InstallCompactionResults, CompactionManifest,
     CompactionInstall, CompactionFails, ManualLost, EndCompaction, EndCompactMemTable,
     EndBackgroundCall, SignalAll
<1>3. \A u \in Writers :
        \/ pc'[u] = pc[u] \/ {pc[u], pc'[u]} \subseteq LeaderPcs \ WritePcs
        \/ {pc[u], pc'[u]} \subseteq {"idle", "memcheck", "memwait"}
  BY <1>2 DEF WakeWriters
<1>4. /\ FlushHasImm' /\ Data' = Data
      /\ tables' \subseteq 1..lastSequence /\ (imm' # None => imm' \subseteq 1..lastSequence)
  <2>1. FlushHasImm /\ tables \subseteq 1..lastSequence /\ (imm # None => imm \subseteq 1..lastSequence)
    BY DEF OrderInv, SequenceInv
  <2>2. CASE FlushInstall
    <3>1. tables' = tables \cup imm /\ imm' = None /\ imm # None /\ bpc' \notin FlushPcs
      BY <2>1, <2>2 DEF FlushInstall, FlushHasImm, EndCompactMemTable, EndBackgroundCall
    <3> QED BY <1>1, <2>1, <3>1 DEF Data, FlushHasImm
  <2>3. CASE ~FlushInstall
    <3>1. UNCHANGED <<imm, tables>>
      BY <2>3 DEF BackgroundNext, BackgroundSkip, BackgroundFlush, ManualDone, PickCompaction,
         BuildTable, FlushApply, FlushAborts, FlushManifest, FlushFails,
         WorkFlushesImm, WorkEnds, InstallCompactionResults, CompactionManifest,
         CompactionInstall, CompactionFails, ManualLost
    <3>2. bpc' \in FlushPcs => imm # None
      BY <2>1, <2>3 DEF BackgroundNext, BackgroundSkip, BackgroundFlush, ManualDone, PickCompaction,
         BuildTable, FlushApply, FlushAborts, FlushManifest, FlushFails,
         WorkFlushesImm, WorkEnds, InstallCompactionResults, CompactionManifest,
         CompactionInstall, CompactionFails, ManualLost, FlushHasImm, EndCompaction,
         EndCompactMemTable, EndBackgroundCall
    <3> QED BY <1>1, <2>1, <3>1, <3>2 DEF Data, FlushHasImm
  <2> QED BY <2>2, <2>3
<1> QED BY <1>1, <1>3, <1>4, ClientFrame

(* Every step of every thread keeps the inductive invariant, and changes   *)
(* the data at most by numbers of the group being written.                 *)
LEMMA OrderNext ==
    ASSUME None \notin SUBSET Nat
    PROVE  OrderInv /\ [Next]_vars =>
             OrderInv' /\ Data \subseteq Data' /\ Data' \subseteq Data \cup Updates
<1> SUFFICES ASSUME OrderInv, [Next]_vars
             PROVE  OrderInv' /\ Data \subseteq Data' /\ Data' \subseteq Data \cup Updates
  OBVIOUS
<1>1. LeaderInv'
  BY LeaderNext DEF OrderInv
<1> DEFINE Goal == OrderInv' /\ Data \subseteq Data' /\ Data' \subseteq Data \cup Updates
<1>2. ASSUME UNCHANGED <<mem, imm, tables>>, OrderInv' PROVE Goal
  BY <1>2 DEF Data
<1>3. ASSUME NEW t \in Writers, NEW r \in Requests, Write(t, r) PROVE Goal
  <2>1. UNCHANGED <<mem, imm, tables>>
    BY <1>3 DEF Write, dataVars
  <2> QED BY <1>1, <1>2, <1>3, <2>1, WriteOrder
<1>4. ASSUME NEW t \in Writers, WriterStep(t) PROVE Goal
  <2>1. CASE WriterWakes(t) \/ FinishWrite(t)
    <3>1. UNCHANGED <<mem, imm, tables>>
      BY <2>1 DEF WriterWakes, FinishWrite, dataVars
    <3> QED BY <1>1, <1>2, <2>1, <3>1, WriterWakesOrder, FinishWriteOrder
  <2>2. CASE RoomError(t) \/ RoomSwitchFails(t) \/ RoomNullBatch(t) \/ BuildBatchGroup(t)
    <3>1. UNCHANGED <<mem, imm, tables>>
      BY <2>2 DEF RoomError, RoomSwitchFails, RoomNullBatch, BuildBatchGroup, roomUnchanged
    <3> QED BY <1>1, <1>2, <2>2, <3>1, RoomPopsOrder, BuildBatchGroupOrder
  <2>3. CASE RoomSwitch(t)
    BY <1>1, <2>3, RoomSwitchOrder
  <2>4. CASE AddRecord(t) \/ AddRecordFails(t) \/ Sync(t) \/ SyncFails(t) \/ InsertInto(t)
    BY <1>1, <2>4, LogAndInsertOrder
  <2>5. CASE \/ RoomDelay(t) \/ RoomWait(t) \/ RoomRetry(t) \/ MemTableWait(t) \/ MemTableReturns(t)
    <3>1. /\ \E p : /\ pc' = [pc EXCEPT ![t] = p]
                    /\ \/ {pc[t], p} \subseteq LeaderPcs \ WritePcs
                       \/ {pc[t], p} \subseteq {"idle", "memcheck", "memwait"}
          /\ UNCHANGED <<writers, groupLen, newSequence, lastSequence, done, ok, seqs, logOk, mem,
                         imm, tables, bpc, acked, failed>>
      BY <2>5 DEF RoomDelay, RoomWait, RoomRetry, MemTableWait, MemTableReturns, memWaitUnchanged,
                  roomUnchanged, groupVars, dataVars, bgVars, ghostVars
    <3>2. \A u \in Writers :
            \/ pc'[u] = pc[u] \/ {pc[u], pc'[u]} \subseteq LeaderPcs \ WritePcs
            \/ {pc[u], pc'[u]} \subseteq {"idle", "memcheck", "memwait"}
      BY <3>1, OrderFacts
    <3>3. FlushHasImm' /\ Data' = Data /\ tables' \subseteq 1..lastSequence
          /\ (imm' # None => imm' \subseteq 1..lastSequence)
      BY <3>1 DEF OrderInv, FlushHasImm, Data, SequenceInv
    <3>4. OrderInv'
      BY <1>1, <3>1, <3>2, <3>3, ClientFrame
    <3> QED BY <1>2, <3>1, <3>4
  <2> QED BY <1>4, <2>1, <2>2, <2>3, <2>4, <2>5 DEF WriterStep
<1>5. ASSUME \/ \E m \in Compactors : CompactRange(m) \/ CompactRangeWakes(m)
             \/ UpdateStats \/ Close \/ CloseWakes \/ UNCHANGED vars
      PROVE  Goal
  <2>1. UNCHANGED <<pc, writers, groupLen, newSequence, lastSequence, done, ok, seqs, logOk, mem,
                    imm, tables, bpc, acked, failed>>
    BY <1>5 DEF CompactRange, CompactRangeWakes, UpdateStats, Close, CloseWakes,
                compactRangeUnchanged, closeUnchanged, vars, clientVars, groupVars, dataVars,
                bgVars, ghostVars
  <2>2. FlushHasImm' /\ Data' = Data /\ tables' \subseteq 1..lastSequence
        /\ (imm' # None => imm' \subseteq 1..lastSequence)
    BY <2>1 DEF OrderInv, FlushHasImm, Data, SequenceInv
  <2>3. \A u \in Writers : pc'[u] = pc[u]
    BY <2>1
  <2>4. OrderInv'
    BY <1>1, <2>1, <2>2, <2>3, ClientFrame
  <2> QED BY <1>2, <2>1, <2>4
<1>6. CASE BackgroundNext
  BY <1>1, <1>6, BackgroundOrder
<1> QED BY <1>3, <1>4, <1>5, <1>6 DEF Next

(* No lost wakeup in writers_, whatever groups form, fail or wait: the     *)
(* writer at the front of the queue is at work or has been signalled, by   *)
(* the loop at the end of DBImpl::Write.                                   *)
THEOREM HeadAwakeHolds ==
    ASSUME None \notin SUBSET Nat
    PROVE  Spec => []HeadAwake
<1>1. OrderInv => HeadAwake
  BY DEF OrderInv
<1>2. OrderInv /\ [Next]_vars => OrderInv'
  BY OrderNext
<1> QED BY OrderInit, <1>1, <1>2, PTL DEF Spec

(* No sequence number is given both to an update whose Write succeeded and *)
(* to one whose Write failed, although DBImpl::Write numbers a group       *)
(* before it knows whether its log record can be written.                  *)
THEOREM SequenceUsedOnceHolds ==
    ASSUME None \notin SUBSET Nat
    PROVE  Spec => []SequenceUsedOnce
<1>1. OrderInv => SequenceUsedOnce
  BY DEF OrderInv, OwnInv, SequenceUsedOnce
<1>2. OrderInv /\ [Next]_vars => OrderInv'
  BY OrderNext
<1> QED BY OrderInit, <1>1, <1>2, PTL DEF Spec

(* Every update whose Write has returned OK has a number that readers see  *)
(* and is in mem_, imm_ or a table, through every memtable switch, flush   *)
(* and compaction.                                                         *)
THEOREM AckedReadableHolds ==
    ASSUME None \notin SUBSET Nat
    PROVE  Spec => []AckedReadable
<1>1. OrderInv => AckedReadable
  <2> SUFFICES ASSUME OrderInv, NEW s \in acked PROVE s <= lastSequence /\ s \in Data
    BY DEF AckedReadable
  <2>1. s \in 1..lastSequence
    BY DEF OrderInv, OwnInv
  <2> QED BY <2>1, OrderFacts DEF OrderInv, AckInv
<1>2. OrderInv /\ [Next]_vars => OrderInv'
  BY OrderNext
<1> QED BY OrderInit, <1>1, <1>2, PTL DEF Spec

(* What a snapshot sees never changes: the leader inserts into mem_, with  *)
(* mutex_ released, only numbers above the last one published, and a       *)
(* switch or a flush only moves the data.                                  *)
THEOREM SnapshotStableHolds ==
    ASSUME None \notin SUBSET Nat
    PROVE  Spec => SnapshotStable
<1> DEFINE Stable == \A s \in 1..lastSequence : (s \in Data) <=> (s \in Data')
<1>1. OrderInv /\ [Next]_vars => [Stable]_vars
  <2> SUFFICES ASSUME OrderInv, [Next]_vars PROVE Stable
    OBVIOUS
  <2>1. Data \subseteq Data' /\ Data' \subseteq Data \cup Updates
    BY OrderNext
  <2>2. \A s \in 1..lastSequence : s \notin Updates
    BY OrderFacts DEF Updates
  <2> QED BY <2>1, <2>2
<1>2. OrderInv /\ [Next]_vars => OrderInv'
  BY OrderNext
<1> QED BY OrderInit, <1>1, <1>2, PTL DEF Spec, SnapshotStable
=============================================================================
