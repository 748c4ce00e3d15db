------------------------------ MODULE MVStore -------------------------------
(***************************************************************************)
(* What the database promises its readers: a map from keys to the values   *)
(* last put to them, which only Put and Delete change, and snapshots of    *)
(* it that nothing changes.  Updates are counted, and the number of a Put  *)
(* stands for the value that it binds its key to.                          *)
(***************************************************************************)
EXTENDS Naturals

CONSTANT Keys

VARIABLES
    last,   \* the number of the last update
    now,    \* what a read without a snapshot returns for each key
    views   \* what a read at each open snapshot returns; snapshots are
            \* named by the last update they see

vars == <<last, now, views>>

NotFound == 0

Init ==
    /\ last = 0
    /\ now = [k \in Keys |-> NotFound]
    /\ views = [s \in {} |-> now]

(* DB::Put *)
Put(k) ==
    /\ last' = last + 1
    /\ now' = [now EXCEPT ![k] = last + 1]
    /\ UNCHANGED views

(* DB::Delete *)
Delete(k) ==
    /\ last' = last + 1
    /\ now' = [now EXCEPT ![k] = NotFound]
    /\ UNCHANGED views

(* DB::GetSnapshot *)
GetSnapshot ==
    /\ last \notin DOMAIN views
    /\ views' = [s \in DOMAIN views \cup {last} |-> IF s = last THEN now ELSE views[s]]
    /\ UNCHANGED <<last, now>>

(* DB::ReleaseSnapshot *)
ReleaseSnapshot(s) ==
    /\ views' = [r \in DOMAIN views \ {s} |-> views[r]]
    /\ UNCHANGED <<last, now>>

Next ==
    \/ \E k \in Keys : Put(k) \/ Delete(k)
    \/ GetSnapshot
    \/ \E s \in DOMAIN views : ReleaseSnapshot(s)

Spec == Init /\ [][Next]_vars
=============================================================================
