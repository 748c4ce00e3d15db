------------------------------- MODULE Format -------------------------------
(***************************************************************************)
(* Keys and their orders: the bytewise comparator of user keys and the     *)
(* internal keys built on it, with the shortened keys that the index       *)
(* blocks of tables hold.  A user key is a sequence of bytes 0..MaxByte;   *)
(* an internal key is a user key followed by one cell for the eight bytes  *)
(* of the packed sequence number and type.                                 *)
(***************************************************************************)
EXTENDS Integers, Sequences, SequencesExt

CONSTANTS
    MaxByte,               \* 0xff
    kMaxSequenceNumber

kDeletion == 0             \* kTypeDeletion
kValue    == 1             \* kTypeValue
kValueTypeForSeek == kValue

(* Length of the common prefix.                                            *)
Shared(a, b) ==
    Max({n \in 0..Min({Len(a), Len(b)}) : \A i \in 1..n : a[i] = b[i]})

(* Slice::compare, as a strict order.                                      *)
Less(a, b) ==
    \E n \in 0..Min({Len(a), Len(b) - 1}) :
        /\ \A i \in 1..n : a[i] = b[i]
        /\ n = Len(a) \/ a[n + 1] < b[n + 1]

(* BytewiseComparatorImpl.                                                 *)
Bump(key, i) == SubSeq(key, 1, i - 1) \o <<key[i] + 1>>
UserShortestSeparator(start, limit) ==
    LET i == Shared(start, limit) + 1
    IN  IF i <= Min({Len(start), Len(limit)}) /\ start[i] < MaxByte /\ start[i] + 1 < limit[i]
        THEN Bump(start, i) ELSE start
UserShortSuccessor(key) ==
    LET low == {i \in DOMAIN key : key[i] # MaxByte}
    IN  IF low = {} THEN key ELSE Bump(key, Min(low))

PackSequenceAndType(seq, type) == seq * 2 + type
InternalKey(user, seq, type)   == Append(user, PackSequenceAndType(seq, type))
ExtractUserKey(ikey)           == Front(ikey)
Tag(ikey)                      == Last(ikey)
ParseInternalKey(ikey) ==
    [user |-> ExtractUserKey(ikey), seq |-> Tag(ikey) \div 2, type |-> Tag(ikey) % 2]
LookupKey(user, seq) == InternalKey(user, seq, kValueTypeForSeek)

(* InternalKeyComparator: increasing user keys, decreasing numbers.        *)
Before(a, b) ==
    \/ Less(ExtractUserKey(a), ExtractUserKey(b))
    \/ ExtractUserKey(a) = ExtractUserKey(b) /\ Tag(a) > Tag(b)

(* A shortened user key gets the number that sorts before all others.      *)
Shortened(ikey, user) ==
    IF Len(user) < Len(ExtractUserKey(ikey)) /\ Less(ExtractUserKey(ikey), user)
    THEN InternalKey(user, kMaxSequenceNumber, kValueTypeForSeek)
    ELSE ikey
FindShortestSeparator(start, limit) ==
    Shortened(start, UserShortestSeparator(ExtractUserKey(start), ExtractUserKey(limit)))
FindShortSuccessor(ikey) ==
    Shortened(ikey, UserShortSuccessor(ExtractUserKey(ikey)))
=============================================================================
