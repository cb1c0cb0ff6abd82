----------------------------- MODULE JSONBackend -----------------------------
(***************************************************************************)
(* JSONBackend of tftpos/db.py: all the records in one JSON file, read and *)
(* rewritten by every change under the backend's lock.                     *)
(*                                                                         *)
(* _dump() truncates the file (Open) and writes it (Write).  _load() takes *)
(* a file it cannot parse, or cannot read just now, for an empty one: what *)
(* a crash or a full disk leaves between the two steps reads as no records *)
(* at all, and the next save makes that permanent.                         *)
(***************************************************************************)
CONSTANTS
    Macs,      \* lower-cased MAC addresses
    Values,    \* what a record may hold
    Threads,   \* threads that use the backend
    Nothing,   \* no record
    Torn,      \* the text of a file that was truncated and not written
    None       \* nobody, no data

Records == [Macs -> Values \cup {Nothing}]
Empty == [m \in Macs |-> Nothing]

ASSUME BackendAssumption ==
    /\ Nothing \notin Values
    /\ None \notin Threads
    /\ None \notin Records /\ Torn \notin Records

VARIABLES
    file,    \* the JSON file
    lock,    \* holder of self._lock
    pc,      \* what each thread does next
    base,    \* the records a thread has loaded
    data,    \* the records it is about to write
    failed   \* history variable: a read or write failed or the process died

vars == <<file, lock, pc, base, data, failed>>

TypeOK ==
    /\ file \in Records \cup {Torn}
    /\ lock \in Threads \cup {None}
    /\ pc \in [Threads -> {"idle", "load", "change", "open", "write"}]
    /\ \A t \in Threads : pc[t] # "idle" <=> lock = t
    /\ base \in [Threads -> Records \cup {None}]
    /\ data \in [Threads -> Records \cup {None}]
    /\ \A t \in Threads : pc[t] \in {"change", "open", "write"} => base[t] \in Records
    /\ \A t \in Threads : pc[t] \in {"open", "write"} => data[t] \in Records
    /\ failed \in BOOLEAN

Init ==
    /\ file = Empty
    /\ lock = None
    /\ pc = [t \in Threads |-> "idle"]
    /\ data = [t \in Threads |-> None]
    /\ base = [t \in Threads |-> None]
    /\ failed = FALSE

-----------------------------------------------------------------------------
(* What _load() makes of the text of the file. *)
Loaded(text) == IF text = Torn THEN Empty ELSE text

Return(t) ==
    /\ pc' = [pc EXCEPT ![t] = "idle"]
    /\ data' = [data EXCEPT ![t] = None]
    /\ base' = [base EXCEPT ![t] = None]

(* with self._lock: *)
Acquire(t) ==
    /\ pc[t] = "idle"
    /\ lock = None
    /\ lock' = t
    /\ pc' = [pc EXCEPT ![t] = "load"]
    /\ UNCHANGED <<file, data, base, failed>>

(* _load(): the records of the file ... *)
Load(t) ==
    /\ pc[t] = "load"
    /\ base' = [base EXCEPT ![t] = Loaded(file)]
    /\ pc' = [pc EXCEPT ![t] = "change"]
    /\ UNCHANGED <<file, lock, data, failed>>

(* ... or, when reading raises OSError, none. *)
LoadFail(t) ==
    /\ pc[t] = "load"
    /\ base' = [base EXCEPT ![t] = Empty]
    /\ pc' = [pc EXCEPT ![t] = "change"]
    /\ failed' = TRUE
    /\ UNCHANGED <<file, lock, data>>

(* The records a thread is going to write. *)
Change(t, new) ==
    /\ pc[t] = "change"
    /\ data' = [data EXCEPT ![t] = new]
    /\ pc' = [pc EXCEPT ![t] = "open"]
    /\ UNCHANGED <<file, lock, base, failed>>

(* A slip: the record is written alone. *)
SaveAlone(t, m, v) == Change(t, [Empty EXCEPT ![m] = v])

Save(t, m, v) == Change(t, [base[t] EXCEPT ![m] = v])

(* delete() of a record there is ... *)
Delete(t, m) ==
    /\ base[t] # None /\ base[t][m] # Nothing
    /\ Change(t, [base[t] EXCEPT ![m] = Nothing])

(* ... and of another: it returns False. *)
DeleteMissing(t, m) ==
    /\ pc[t] = "change"
    /\ base[t][m] = Nothing
    /\ Return(t)
    /\ lock' = None
    /\ UNCHANGED <<file, failed>>

(* clear() loads nothing. *)
Clear(t) ==
    /\ pc[t] = "load"
    /\ base' = [base EXCEPT ![t] = Loaded(file)]
    /\ data' = [data EXCEPT ![t] = Empty]
    /\ pc' = [pc EXCEPT ![t] = "open"]
    /\ UNCHANGED <<file, lock, failed>>

(* _dump(), first half ... *)
Open(t) ==
    /\ pc[t] = "open"
    /\ file' = Torn
    /\ pc' = [pc EXCEPT ![t] = "write"]
    /\ UNCHANGED <<lock, data, base, failed>>

(* ... and second half; the lock is released. *)
Write(t) ==
    /\ pc[t] = "write"
    /\ file' = data[t]
    /\ Return(t)
    /\ lock' = None
    /\ UNCHANGED failed

(* A slip: an error keeps the lock. *)
WriteFailLocked(t) ==
    /\ pc[t] \in {"open", "write"}
    /\ Return(t)
    /\ failed' = TRUE
    /\ UNCHANGED <<file, lock>>

(* Opening the file raises, or writing it (a full disk): the with          *)
(* statement releases the lock.                                            *)
WriteFail(t) ==
    /\ pc[t] \in {"open", "write"}
    /\ Return(t)
    /\ lock' = None
    /\ failed' = TRUE
    /\ UNCHANGED file

(* The process dies and is started again. *)
Crash ==
    /\ lock # None
    /\ lock' = None
    /\ pc' = [t \in Threads |-> "idle"]
    /\ data' = [t \in Threads |-> None]
    /\ base' = [t \in Threads |-> None]
    /\ failed' = TRUE
    /\ UNCHANGED file

Step(t) ==
    \/ Load(t)
    \/ LoadFail(t)
    \/ \E m \in Macs : Delete(t, m) \/ DeleteMissing(t, m)
    \/ \E m \in Macs, v \in Values : Save(t, m, v)
    \/ Clear(t)
    \/ Open(t)
    \/ Write(t)
    \/ WriteFail(t)

Next == (\E t \in Threads : Acquire(t) \/ Step(t)) \/ Crash

(* Fairness: a thread that has the lock goes on. *)
Spec == Init /\ [][Next]_vars /\ \A t \in Threads : WF_vars(Step(t))

-----------------------------------------------------------------------------
(***************************************************************************)
(* Properties                                                              *)
(***************************************************************************)

(* The records as a caller sees them: while the file is being rewritten,   *)
(* those the rewrite started from.                                         *)
Writing == lock # None /\ pc[lock] = "write"
Visible == IF Writing THEN base[lock] ELSE Loaded(file)

(* The backend is a RecordStore (db.py, StorageBackend): whatever threads  *)
(* and failures do, records change one at a time, and nothing is lost      *)
(* without a failure.                                                      *)
Store == INSTANCE RecordStore WITH map <- Visible
ImplementsRecordStore == Store!Spec

(* A file that cannot be parsed is being written, or a failure left it so. *)
(* _load() relies on it when it takes such a file for an empty one         *)
(* (db.py:413-418).                                                        *)
TornIsExplained == file = Torn => Writing \/ failed

(* The lock is released on every path, so a caller that waits for it is    *)
(* kept waiting by the others only (db.py:372, 391, 400).                  *)
LockIsReleased == lock # None ~> lock = None

=============================================================================
