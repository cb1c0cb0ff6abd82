----------------------------- MODULE RecordStore -----------------------------
(***************************************************************************)
(* What a StorageBackend of tftpos/db.py promises the tracker: a map from  *)
(* MACs to records that changes one record at a time, or is cleared, each  *)
(* change whole or not at all.  The one thing a backend may do on its own  *)
(* is lose everything, and only when a write fails or the process dies.    *)
(***************************************************************************)
CONSTANTS
    Macs,     \* lower-cased MAC addresses
    Values,   \* what a record may hold
    Nothing   \* no record

VARIABLES
    map,     \* the record of each MAC
    failed   \* whether a write has failed or the process has died

Empty == [m \in Macs |-> Nothing]

Init == map = Empty /\ failed = FALSE

Save(m, v) == map' = [map EXCEPT ![m] = v] /\ UNCHANGED failed
Delete(m)  == map' = [map EXCEPT ![m] = Nothing] /\ UNCHANGED failed
Clear      == map' = Empty /\ UNCHANGED failed
Fail       == map' \in {map, Empty} /\ failed' = TRUE

Next ==
    \/ \E m \in Macs : Delete(m) \/ \E v \in Values : Save(m, v)
    \/ Clear
    \/ Fail

Spec == Init /\ [][Next]_<<map, failed>>

=============================================================================
