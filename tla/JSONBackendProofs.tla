-------------------------- MODULE JSONBackendProofs --------------------------
(***************************************************************************)
(* JSONBackend implements RecordStore, for any set of MACs, records and    *)
(* threads: every step of the code is a step of the store or invisible.    *)
(* A caller holds its lock for four steps at most, and the migration that  *)
(* reads its file puts all it found into the table.                        *)
(***************************************************************************)
EXTENDS Migration, FiniteSetTheorems, TLAPS

(* What one call does to the records. *)
OneChange(old, new) ==
    \/ \E m \in Macs, v \in Values : new = [old EXCEPT ![m] = v]
    \/ \E m \in Macs : new = [old EXCEPT ![m] = Nothing]
    \/ new = Empty

(* Until Open the file is what was loaded, unless the load failed; after   *)
(* it, it is torn; and what will be written is one change away from what   *)
(* was loaded.                                                             *)
CallInv ==
    \A t \in Threads :
      /\ pc[t] \in {"change", "open"} =>
           base[t] = Loaded(file) \/ (base[t] = Empty /\ failed = TRUE)
      /\ pc[t] = "write" => file = Torn
      /\ pc[t] \in {"open", "write"} => OneChange(base[t], data[t])

IInv == TypeOK /\ CallInv

-----------------------------------------------------------------------------
LEMMA LoadedType == ASSUME TypeOK PROVE Empty \in Records /\ Loaded(file) \in Records
BY DEF TypeOK, Loaded, Records, Empty

LEMMA InitEstablishes == Init => IInv /\ Visible = Store!Empty
<1> SUFFICES ASSUME Init PROVE IInv /\ Visible = Store!Empty
  OBVIOUS
<1>1. file # Torn
  BY BackendAssumption DEF Init, Records, Empty
<1>2. IInv
  BY BackendAssumption DEF Init, IInv, TypeOK, CallInv, Records, Empty
<1>3. Visible = Store!Empty
  BY <1>1 DEF Init, Visible, Writing, Loaded, Store!Empty, Empty
<1>4. QED
  BY <1>2, <1>3

(* What holds once the thread that has the lock is done. *)
LEMMA ReturnReleases ==
    ASSUME IInv, NEW t \in Threads, pc[t] # "idle", Return(t), lock' = None,
           file' \in Records \cup {Torn}, failed' \in BOOLEAN
    PROVE  IInv' /\ Visible' = Loaded(file')
<1>1. \A u \in Threads : u # t => pc[u] = "idle"
  BY DEF IInv, TypeOK
<1>2. \A u \in Threads : pc'[u] = "idle"
  BY <1>1 DEF Return, IInv, TypeOK
<1>3. TypeOK'
  BY <1>2, BackendAssumption DEF Return, IInv, TypeOK
<1>4. CallInv'
  BY <1>2 DEF CallInv
<1>5. Visible' = Loaded(file')
  BY DEF Visible, Writing, Loaded
<1>6. QED
  BY <1>3, <1>4, <1>5 DEF IInv

LEMMA AcquireStep ==
    ASSUME IInv, NEW t \in Threads, Acquire(t)
    PROVE  IInv' /\ Visible' = Visible
<1>1. /\ pc' = [pc EXCEPT ![t] = "load"] /\ lock = None /\ lock' = t
      /\ UNCHANGED <<file, data, base, failed>>
  BY DEF Acquire
<1>2. \A u \in Threads : pc[u] = "idle"
  BY <1>1, BackendAssumption DEF IInv, TypeOK
<1>3. IInv'
  BY <1>1, <1>2 DEF IInv, TypeOK, CallInv, Loaded
<1>4. Visible' = Visible
  BY <1>1 DEF Visible, Writing, Loaded, IInv, TypeOK
<1>5. QED
  BY <1>3, <1>4

(* What a step of the holder of the lock that leaves the file alone keeps. *)
LEMMA QuietStep ==
    ASSUME IInv, NEW t \in Threads, pc[t] \in {"load", "change"},
           NEW p \in {"change", "open"}, NEW b \in Records, NEW d \in Records \cup {None},
           pc' = [pc EXCEPT ![t] = p],
           base' = [base EXCEPT ![t] = b], data' = [data EXCEPT ![t] = d],
           p = "open" => d \in Records /\ OneChange(b, d),
           b = Loaded(file) \/ (b = Empty /\ failed' = TRUE),
           failed' \in {failed, TRUE}, UNCHANGED <<file, lock>>
    PROVE  IInv' /\ Visible' = Visible
<1>1. lock = t /\ \A u \in Threads : u # t => pc[u] = "idle"
  BY DEF IInv, TypeOK
<1>2. TypeOK'
  BY <1>1 DEF IInv, TypeOK
<1>3. CallInv'
  <2>1. pc'[t] = p /\ base'[t] = b /\ data'[t] = d /\ Loaded(file') = Loaded(file)
    BY DEF IInv, TypeOK
  <2>2. \A u \in Threads : u # t => pc'[u] = "idle"
    BY <1>1 DEF IInv, TypeOK
  <2>3. p = "open" => OneChange(base'[t], data'[t])
    BY <2>1
  <2>4. ASSUME NEW u \in Threads
        PROVE  /\ pc'[u] \in {"change", "open"} =>
                    base'[u] = Loaded(file') \/ (base'[u] = Empty /\ failed' = TRUE)
               /\ pc'[u] = "write" => file' = Torn
               /\ pc'[u] \in {"open", "write"} => OneChange(base'[u], data'[u])
    BY <2>1, <2>2, <2>3
  <2>5. QED
    BY <2>4 DEF CallInv, OneChange, Loaded, Empty
<1>4. Visible' = Visible
  BY <1>1 DEF Visible, Writing, Loaded, IInv, TypeOK
<1>5. QED
  BY <1>2, <1>3, <1>4 DEF IInv

LEMMA LoadStep ==
    ASSUME IInv, NEW t \in Threads, Load(t)
    PROVE  IInv' /\ Visible' = Visible /\ UNCHANGED failed
<1>1. Loaded(file) \in Records
  BY LoadedType DEF IInv
<1>2. data[t] \in Records \cup {None} /\ data' = [data EXCEPT ![t] = data[t]]
  BY DEF Load, IInv, TypeOK
<1>3. QED
  BY <1>1, <1>2, QuietStep DEF Load

LEMMA LoadFailStep ==
    ASSUME IInv, NEW t \in Threads, LoadFail(t)
    PROVE  IInv' /\ Visible' = Visible /\ failed' = TRUE
<1>1. Empty \in Records
  BY LoadedType DEF IInv
<1>2. data[t] \in Records \cup {None} /\ data' = [data EXCEPT ![t] = data[t]]
  BY DEF LoadFail, IInv, TypeOK
<1>3. QED
  BY <1>1, <1>2, QuietStep DEF LoadFail

LEMMA ChangeStep ==
    ASSUME IInv, NEW t \in Threads, NEW new \in Records, Change(t, new),
           OneChange(base[t], new)
    PROVE  IInv' /\ Visible' = Visible /\ UNCHANGED failed
<1>1. base[t] \in Records /\ base' = [base EXCEPT ![t] = base[t]]
  BY DEF Change, IInv, TypeOK
<1>2. base[t] = Loaded(file) \/ (base[t] = Empty /\ failed = TRUE)
  BY DEF Change, IInv, CallInv
<1>3. QED
  BY <1>1, <1>2, QuietStep DEF Change

LEMMA ClearStep ==
    ASSUME IInv, NEW t \in Threads, Clear(t)
    PROVE  IInv' /\ Visible' = Visible /\ UNCHANGED failed
<1>1. Loaded(file) \in Records /\ Empty \in Records
  BY LoadedType DEF IInv
<1>2. OneChange(Loaded(file), Empty)
  BY DEF OneChange
<1>3. QED
  BY <1>1, <1>2, QuietStep DEF Clear

LEMMA OpenStep ==
    ASSUME IInv, NEW t \in Threads, Open(t)
    PROVE  IInv' /\ UNCHANGED failed /\ (Visible' = Visible \/ Store!Fail)
<1>1. /\ pc[t] = "open" /\ pc' = [pc EXCEPT ![t] = "write"] /\ file' = Torn
      /\ UNCHANGED <<lock, data, base, failed>>
  BY DEF Open
<1>2. lock = t /\ \A u \in Threads : u # t => pc[u] = "idle"
  BY <1>1 DEF IInv, TypeOK
<1>3. IInv'
  BY <1>1, <1>2 DEF IInv, TypeOK, CallInv, OneChange, Empty
<1>4. Visible = Loaded(file) /\ Visible' = base[t]
  BY <1>1, <1>2, BackendAssumption DEF Visible, Writing, IInv, TypeOK
<1>5. base[t] = Loaded(file) \/ (base[t] = Empty /\ failed = TRUE)
  BY <1>1 DEF IInv, CallInv
<1>6. QED
  BY <1>1, <1>3, <1>4, <1>5 DEF Store!Fail, Store!Empty, Empty

LEMMA WriteStep ==
    ASSUME IInv, NEW t \in Threads, Write(t)
    PROVE  IInv' /\ OneChange(Visible, Visible') /\ UNCHANGED failed
<1>1. pc[t] = "write" /\ file' = data[t] /\ lock' = None /\ Return(t) /\ UNCHANGED failed
  BY DEF Write
<1>2. lock = t /\ data[t] \in Records /\ data[t] # Torn /\ OneChange(base[t], data[t])
  BY <1>1, BackendAssumption DEF IInv, TypeOK, CallInv
<1>3. IInv' /\ Visible' = Loaded(file')
  BY <1>1, <1>2, ReturnReleases DEF IInv, TypeOK
<1>4. Visible = base[t] /\ Visible' = data[t]
  BY <1>1, <1>2, <1>3, BackendAssumption DEF Visible, Writing, Loaded
<1>5. QED
  BY <1>1, <1>2, <1>3, <1>4

LEMMA WriteFailStep ==
    ASSUME IInv, NEW t \in Threads, WriteFail(t)
    PROVE  IInv' /\ Store!Fail
<1>1. /\ pc[t] \in {"open", "write"} /\ file' = file /\ lock' = None
      /\ Return(t) /\ failed' = TRUE
  BY DEF WriteFail
<1>2. IInv' /\ Visible' = Loaded(file')
  BY <1>1, ReturnReleases DEF IInv, TypeOK
<1>3. CASE pc[t] = "open"
  <2>1. Visible = Loaded(file)
    BY <1>3 DEF Visible, Writing, IInv, TypeOK
  <2>2. QED
    BY <1>1, <1>2, <2>1 DEF Store!Fail
<1>4. CASE pc[t] = "write"
  <2>1. file = Torn
    BY <1>4 DEF IInv, CallInv
  <2>2. Visible' = Store!Empty
    BY <1>1, <1>2, <2>1 DEF Loaded, Store!Empty, Empty
  <2>3. QED
    BY <1>1, <1>2, <2>2 DEF Store!Fail
<1>5. QED
  BY <1>1, <1>3, <1>4

LEMMA CrashStep ==
    ASSUME IInv, Crash
    PROVE  IInv' /\ Store!Fail
<1>1. /\ lock' = None /\ failed' = TRUE /\ file' = file
      /\ pc' = [t \in Threads |-> "idle"]
  BY DEF Crash
<1>2. IInv'
  BY <1>1, BackendAssumption DEF Crash, IInv, TypeOK, CallInv
<1>3. Visible' = Loaded(file)
  BY <1>1 DEF Visible, Writing, Loaded
<1>4. CASE Writing
  <2>1. file = Torn
    BY <1>4, BackendAssumption DEF Writing, IInv, TypeOK, CallInv
  <2>2. QED
    BY <1>1, <1>2, <1>3, <2>1 DEF Store!Fail, Store!Empty, Loaded, Empty
<1>5. CASE ~Writing
  BY <1>1, <1>2, <1>3, <1>5 DEF Store!Fail, Visible
<1>6. QED
  BY <1>4, <1>5

LEMMA NextSimulates ==
    ASSUME IInv, [Next]_vars
    PROVE  IInv' /\ [Store!Next]_<<Visible, failed>>
<1> DEFINE Simulated == IInv' /\ [Store!Next]_<<Visible, failed>>
<1>0. IInv' /\ Visible' = Visible /\ failed' = failed => Simulated
  OBVIOUS
<1>1. ASSUME NEW t \in Threads, Acquire(t) PROVE Simulated
  BY <1>0, <1>1, AcquireStep DEF Acquire
<1>2. ASSUME NEW t \in Threads, NEW m \in Macs, NEW v \in Values, Save(t, m, v)
      PROVE  Simulated
  <2>1. base[t] \in Records /\ [base[t] EXCEPT ![m] = v] \in Records
    BY <1>2 DEF Save, Change, IInv, TypeOK, Records
  <2>2. OneChange(base[t], [base[t] EXCEPT ![m] = v])
    BY DEF OneChange
  <2>3. QED
    BY <1>0, <1>2, <2>1, <2>2, ChangeStep DEF Save
<1>3. ASSUME NEW t \in Threads, NEW m \in Macs, Delete(t, m) PROVE Simulated
  <2>1. base[t] \in Records /\ [base[t] EXCEPT ![m] = Nothing] \in Records
    BY <1>3 DEF Delete, Change, IInv, TypeOK, Records
  <2>2. OneChange(base[t], [base[t] EXCEPT ![m] = Nothing])
    BY DEF OneChange
  <2>3. QED
    BY <1>0, <1>3, <2>1, <2>2, ChangeStep DEF Delete
<1>4. ASSUME NEW t \in Threads, NEW m \in Macs, DeleteMissing(t, m) PROVE Simulated
  <2>1. pc[t] = "change" /\ Return(t) /\ lock' = None /\ UNCHANGED <<file, failed>>
    BY <1>4 DEF DeleteMissing
  <2>2. IInv' /\ Visible' = Loaded(file')
    BY <2>1, ReturnReleases DEF IInv, TypeOK
  <2>3. Visible = Loaded(file) /\ Loaded(file') = Loaded(file)
    BY <2>1 DEF Visible, Writing, IInv, TypeOK, Loaded
  <2>4. QED
    BY <1>0, <2>1, <2>2, <2>3
<1>5. ASSUME NEW t \in Threads, Clear(t) PROVE Simulated
  BY <1>0, <1>5, ClearStep
<1>6. ASSUME NEW t \in Threads, Load(t) PROVE Simulated
  BY <1>0, <1>6, LoadStep
<1>7. ASSUME NEW t \in Threads, LoadFail(t) PROVE Simulated
  BY <1>7, LoadFailStep DEF Store!Next, Store!Fail
<1>8. ASSUME NEW t \in Threads, Open(t) PROVE Simulated
  BY <1>8, OpenStep DEF Store!Next
<1>9. ASSUME NEW t \in Threads, Write(t) PROVE Simulated
  <2>1. IInv' /\ OneChange(Visible, Visible') /\ UNCHANGED failed
    BY <1>9, WriteStep
  <2>2. Store!Next
    BY <2>1 DEF OneChange, Store!Next, Store!Save, Store!Delete, Store!Clear, Store!Empty, Empty
  <2>3. QED
    BY <2>1, <2>2
<1>10. ASSUME NEW t \in Threads, WriteFail(t) PROVE Simulated
  BY <1>10, WriteFailStep DEF Store!Next
<1>11. ASSUME Crash PROVE Simulated
  BY <1>11, CrashStep DEF Store!Next
<1>12. ASSUME UNCHANGED vars PROVE Simulated
  <2>1. IInv'
    BY <1>12 DEF vars, IInv, TypeOK, CallInv, OneChange, Loaded, Empty
  <2>2. Visible' = Visible /\ failed' = failed
    BY <1>12 DEF vars, Visible, Writing, Loaded
  <2>3. QED
    BY <1>0, <2>1, <2>2
<1>13. QED
  BY <1>1, <1>2, <1>3, <1>4, <1>5, <1>6, <1>7, <1>8, <1>9, <1>10, <1>11, <1>12
     DEF Next, Step

LEMMA SpecInvariant == Spec => []IInv
<1>1. Init => IInv
  BY InitEstablishes
<1>2. IInv /\ [Next]_vars => IInv'
  BY NextSimulates
<1>3. QED
  BY <1>1, <1>2, PTL DEF Spec

(* The lock, the threads and the file keep their shapes: exactly the       *)
(* holder of the lock is inside a call (db.py:371-401).                    *)
THEOREM BackendTypeCorrect == Spec => []TypeOK
<1>1. IInv => TypeOK
  BY DEF IInv
<1>2. QED
  BY <1>1, SpecInvariant, PTL

(* _load() takes an unreadable file for an empty one; outside a write that *)
(* happens only after a failure (db.py:413-421).                           *)
THEOREM BackendTornExplained == Spec => []TornIsExplained
<1> DEFINE Torn2 == IInv /\ TornIsExplained
<1>1. Init => Torn2
  BY InitEstablishes, BackendAssumption DEF Init, TornIsExplained, Records, Empty
<1>2. Torn2 /\ [Next]_vars => Torn2'
  <2> SUFFICES ASSUME IInv, TornIsExplained, [Next]_vars
               PROVE  TornIsExplained'
    BY NextSimulates
  <2>1. ASSUME file' = file, failed' = failed, Writing => Writing'
        PROVE  TornIsExplained'
    BY <2>1 DEF TornIsExplained, Writing
  <2>2. ASSUME NEW t \in Threads, pc[t] # "idle", pc[t] # "write" PROVE ~Writing
    BY <2>2 DEF Writing, IInv, TypeOK
  <2>3. ASSUME lock = None PROVE ~Writing
    BY <2>3 DEF Writing
  <2>4. ASSUME NEW t \in Threads, Acquire(t) PROVE TornIsExplained'
    BY <2>1, <2>3, <2>4 DEF Acquire
  <2>5. ASSUME NEW t \in Threads, pc[t] \in {"load", "change"}, UNCHANGED <<file, failed>>
        PROVE  TornIsExplained'
    BY <2>1, <2>2, <2>5
  <2>6. ASSUME NEW t \in Threads,
               \/ Load(t) \/ Clear(t)
               \/ \E m \in Macs : Delete(t, m) \/ DeleteMissing(t, m)
               \/ \E m \in Macs, v \in Values : Save(t, m, v)
        PROVE  TornIsExplained'
    BY <2>5, <2>6 DEF Load, Clear, Delete, DeleteMissing, Save, Change
  <2>7. ASSUME NEW t \in Threads, Open(t) PROVE TornIsExplained'
    BY <2>7, BackendAssumption DEF Open, TornIsExplained, Writing, IInv, TypeOK
  <2>8. ASSUME NEW t \in Threads, Write(t) PROVE TornIsExplained'
    BY <2>8, BackendAssumption DEF Write, TornIsExplained, IInv, TypeOK
  <2>9. CASE failed' = TRUE
    BY <2>9 DEF TornIsExplained
  <2>10. CASE UNCHANGED vars
    BY <2>1, <2>10 DEF vars, Writing
  <2>11. QED
    BY <2>4, <2>5, <2>6, <2>7, <2>8, <2>9, <2>10
       DEF Next, Step, LoadFail, WriteFail, Crash
<1>3. QED
  BY <1>1, <1>2, PTL DEF Spec

(* The backend is a RecordStore: under its lock, and in spite of failures, *)
(* records change one at a time, and are lost only all at once by a        *)
(* failure (db.py:358-421).                                                *)
THEOREM BackendImplements == Spec => ImplementsRecordStore
<1>1. Init => Store!Init
  BY InitEstablishes DEF Init, Store!Init
<1>2. IInv /\ [Next]_vars => [Store!Next]_<<Visible, failed>>
  BY NextSimulates
<1>3. QED
  BY <1>1, <1>2, SpecInvariant, PTL DEF Spec, ImplementsRecordStore, Store!Spec

-----------------------------------------------------------------------------
(***************************************************************************)
(* How long the lock can be held                                           *)
(***************************************************************************)

(* The steps the holder of the lock has left at most. *)
Left(p) == CASE p = "load" -> 4
             [] p = "change" -> 3
             [] p = "open" -> 2
             [] p = "write" -> 1
             [] OTHER -> 0

LEMMA LeftIs ==
    /\ Left("load") = 4 /\ Left("change") = 3 /\ Left("open") = 2 /\ Left("write") = 1
    /\ \A p : Left(p) \in 0 .. 4
BY DEF Left

(* The lock is released, or its holder has less to do than before. *)
NearerRelease == lock' = None \/ (lock' = lock /\ Left(pc'[lock]) < Left(pc[lock]))

LEMMA HolderMoves ==
    ASSUME TypeOK, NEW t \in Threads, pc[t] # "idle", UNCHANGED lock,
           NEW p, pc' = [pc EXCEPT ![t] = p], NEW q, pc[t] = q, Left(p) < Left(q)
    PROVE  NearerRelease
<1>1. lock = t /\ pc'[t] = p
  BY DEF TypeOK
<1>2. QED
  BY <1>1 DEF NearerRelease

LEMMA LockStep == TypeOK /\ [Next]_vars => (lock # None => NearerRelease \/ UNCHANGED vars)
<1> SUFFICES ASSUME TypeOK, [Next]_vars, lock # None PROVE NearerRelease \/ UNCHANGED vars
  OBVIOUS
<1>1. ASSUME NEW t \in Threads, Acquire(t) PROVE FALSE
  BY <1>1 DEF Acquire
<1>2. ASSUME NEW t \in Threads, Load(t) \/ LoadFail(t) \/ Clear(t) PROVE NearerRelease
  <2>1. /\ pc[t] = "load" /\ UNCHANGED lock
        /\ \E p \in {"change", "open"} : pc' = [pc EXCEPT ![t] = p]
    BY <1>2 DEF Load, LoadFail, Clear
  <2>2. PICK p \in {"change", "open"} : pc' = [pc EXCEPT ![t] = p]
    BY <2>1
  <2>3. Left(p) < Left("load")
    BY LeftIs
  <2>4. QED
    BY <2>1, <2>2, <2>3, HolderMoves
<1>3. ASSUME NEW t \in Threads, NEW new, Change(t, new) PROVE NearerRelease
  <2>1. Left("open") < Left("change")
    BY LeftIs
  <2>2. QED
    BY <1>3, <2>1, HolderMoves DEF Change
<1>4. ASSUME NEW t \in Threads, Open(t) PROVE NearerRelease
  <2>1. Left("write") < Left("open")
    BY LeftIs
  <2>2. QED
    BY <1>4, <2>1, HolderMoves DEF Open
<1>5. ASSUME NEW t \in Threads, NEW m \in Macs, Delete(t, m) \/ DeleteMissing(t, m)
      PROVE  NearerRelease
  BY <1>3, <1>5 DEF Delete, DeleteMissing, NearerRelease
<1>6. ASSUME NEW t \in Threads, NEW m \in Macs, NEW v \in Values, Save(t, m, v)
      PROVE  NearerRelease
  BY <1>3, <1>6 DEF Save
<1>7. ASSUME NEW t \in Threads, Write(t) \/ WriteFail(t) PROVE NearerRelease
  BY <1>7 DEF Write, WriteFail, NearerRelease
<1>8. Crash => NearerRelease
  BY DEF Crash, NearerRelease
<1>9. QED
  BY <1>1, <1>2, <1>4, <1>5, <1>6, <1>7, <1>8 DEF Next, Step

(* Whoever waits for the lock waits four steps of its holder at most: each *)
(* step there can be while it is held brings its release nearer, whatever  *)
(* fails on the way (db.py:371-401).                                       *)
THEOREM BackendLockIsBrief ==
    Spec => [][lock # None =>
                 \/ lock' = None
                 \/ lock' = lock /\ Left(pc'[lock]) < Left(pc[lock])]_vars
<1>1. TypeOK /\ [Next]_vars =>
        [lock # None =>
           \/ lock' = None
           \/ lock' = lock /\ Left(pc'[lock]) < Left(pc[lock])]_vars
  BY LockStep DEF NearerRelease
<1>2. QED
  BY <1>1, BackendTypeCorrect, PTL DEF Spec

-----------------------------------------------------------------------------
(***************************************************************************)
(* The migration beside the backend.                                       *)
(***************************************************************************)
MigrationTypes ==
    /\ table \in Records
    /\ stage \in {"idle", "copy", "done"}
    /\ text \in Records
    /\ left \subseteq Macs
    /\ count \in Nat
    /\ source \in Records
    /\ blind \in BOOLEAN

(* An attempt under way, or one that returned: it has read the records of  *)
(* the backend, those it has taken are in the table, and it has counted    *)
(* what it has taken.                                                      *)
Underway ==
    /\ ~blind => text = source
    /\ left \subseteq Found(text)
    /\ \A m \in Found(text) \ left : table[m] = text[m]
    /\ count + Cardinality(left) = Cardinality(Found(text))
    /\ stage = "done" => left = {}

MigrationInv == IInv /\ MigrationTypes /\ (stage # "idle" => Underway)

LEMMA FoundFinite ==
    ASSUME NEW recs
    PROVE  /\ Found(recs) \subseteq Macs
           /\ IsFiniteSet(Found(recs))
           /\ Cardinality(Found(recs)) \in Nat
<1>1. Found(recs) \subseteq Macs
  BY DEF Found
<1>2. IsFiniteSet(Found(recs))
  BY <1>1, MigrationAssumption, FS_Subset
<1>3. QED
  BY <1>1, <1>2, FS_CardinalityType

LEMMA MigrationInitEstablishes == MigrationInit => MigrationInv
<1>1. MigrationInit => IInv
  BY InitEstablishes DEF MigrationInit
<1>2. Empty \in Records
  BY DEF Records, Empty
<1>3. MigrationInit => MigrationTypes /\ stage = "idle"
  <2> SUFFICES ASSUME MigrationInit PROVE MigrationTypes /\ stage = "idle"
    OBVIOUS
  <2>1. /\ table = Empty /\ text = Empty /\ source = Empty /\ stage = "idle"
        /\ left = {} /\ count = 0 /\ blind = FALSE
    BY DEF MigrationInit
  <2>2. QED
    BY <1>2, <2>1 DEF MigrationTypes
<1>4. QED
  BY <1>1, <1>3 DEF MigrationInv

(* The backend's records are records, also while they are rewritten. *)
LEMMA VisibleType == IInv => Loaded(file) \in Records /\ Visible \in Records
<1> SUFFICES ASSUME IInv PROVE Loaded(file) \in Records /\ Visible \in Records
  OBVIOUS
<1>1. Loaded(file) \in Records
  BY LoadedType DEF IInv
<1>2. Writing => base[lock] \in Records
  BY DEF Writing, IInv, TypeOK
<1>3. QED
  BY <1>1, <1>2 DEF Visible

LEMMA ReadTextPreserves ==
    ASSUME MigrationInv, IInv', ReadText
    PROVE  MigrationInv'
<1>1. /\ text' = Loaded(file) /\ left' = Found(text') /\ stage' = "copy"
      /\ count' = 0 /\ source' = Visible /\ blind' = Writing /\ table' = table
  BY DEF ReadText
<1>2. Loaded(file) \in Records /\ Visible \in Records /\ Writing \in BOOLEAN
  BY VisibleType DEF MigrationInv, Writing
<1>3. left' \subseteq Macs /\ Cardinality(left') \in Nat
  BY <1>1, FoundFinite
<1>4. MigrationTypes'
  BY <1>1, <1>2, <1>3 DEF MigrationInv, MigrationTypes
<1>5. ~blind' => text' = source'
  BY <1>1 DEF Visible
<1>6. count' + Cardinality(left') = Cardinality(Found(text'))
  BY <1>1, <1>3
<1>7. Underway'
  BY <1>1, <1>5, <1>6 DEF Underway, Found
<1>8. QED
  BY <1>4, <1>7 DEF MigrationInv

LEMMA CopyPreserves ==
    ASSUME MigrationInv, IInv', NEW m \in Macs, CopyRecord(m)
    PROVE  MigrationInv'
<1>1. /\ stage = "copy" /\ m \in left /\ table' = [table EXCEPT ![m] = text[m]]
      /\ left' = left \ {m} /\ count' = count + 1
      /\ UNCHANGED <<stage, text, source, blind>>
  BY DEF CopyRecord
<1>2. Underway /\ MigrationTypes
  BY <1>1 DEF MigrationInv
<1>3. /\ table \in [Macs -> Values \cup {Nothing}]
      /\ text \in [Macs -> Values \cup {Nothing}]
      /\ left \subseteq Macs /\ count \in Nat
  BY <1>2 DEF MigrationTypes, Records
<1>4. table' \in [Macs -> Values \cup {Nothing}]
  BY <1>1, <1>3
<1>5. MigrationTypes'
  BY <1>1, <1>2, <1>3, <1>4 DEF MigrationTypes, Records
<1>6. IsFiniteSet(left)
  BY <1>3, MigrationAssumption, FS_Subset
<1>7. Cardinality(left') = Cardinality(left) - 1 /\ Cardinality(left) \in Nat
  BY <1>1, <1>6, FS_RemoveElement, FS_CardinalityType
<1>8. count' + Cardinality(left') = Cardinality(Found(text'))
  <2>1. count + Cardinality(left) = Cardinality(Found(text))
    BY <1>2 DEF Underway
  <2>2. Found(text') = Found(text)
    BY <1>1 DEF Found
  <2>3. QED
    BY <1>1, <1>3, <1>7, <2>1, <2>2
<1>9. \A n \in Found(text') \ left' : table'[n] = text'[n]
  <2>1. Found(text) \subseteq Macs
    BY FoundFinite
  <2>2. \A n \in Found(text) \ left : table[n] = text[n]
    BY <1>2 DEF Underway
  <2>3. Found(text') = Found(text)
    BY <1>1 DEF Found
  <2>4. QED
    BY <1>1, <1>3, <2>1, <2>2, <2>3
<1>10. left' \subseteq Found(text') /\ (~blind' => text' = source')
  BY <1>1, <1>2 DEF Underway, Found
<1>11. Underway'
  BY <1>1, <1>8, <1>9, <1>10 DEF Underway
<1>12. QED
  BY <1>1, <1>5, <1>11 DEF MigrationInv

(* The steps that leave the table and what was read alone: the migration   *)
(* ends, or the backend moves on.                                          *)
LEMMA MigrationRests ==
    ASSUME MigrationInv, IInv', stage' \in {stage, "idle", "done"},
           stage' = "done" => stage # "idle" /\ left = {},
           UNCHANGED <<table, text, left, count, source, blind>>
    PROVE  MigrationInv'
<1>1. MigrationTypes'
  BY DEF MigrationInv, MigrationTypes
<1>2. stage' # "idle" => Underway'
  BY DEF MigrationInv, Underway, Found, MigrationTypes
<1>3. QED
  BY <1>1, <1>2 DEF MigrationInv

LEMMA MigratingPreserves ==
    ASSUME MigrationInv, [MigratingNext]_<<vars, migrationVars>>
    PROVE  MigrationInv' /\ [Next]_vars
<1>1. [Next]_vars
  BY DEF MigratingNext, vars
<1>2. IInv'
  BY <1>1, NextSimulates DEF MigrationInv
<1>3. ASSUME UNCHANGED migrationVars PROVE MigrationInv'
  <2>1. stage' = stage /\ UNCHANGED <<table, text, left, count, source, blind>>
    BY <1>3 DEF migrationVars
  <2>2. stage' = "done" => stage # "idle" /\ left = {}
    BY <2>1 DEF MigrationInv, Underway
  <2>3. QED
    BY <1>2, <2>1, <2>2, MigrationRests
<1>4. ASSUME ReadText PROVE MigrationInv'
  BY <1>2, <1>4, ReadTextPreserves
<1>5. ASSUME NEW m \in Macs, CopyRecord(m) PROVE MigrationInv'
  BY <1>2, <1>5, CopyPreserves
<1>6. ASSUME NEW m \in Macs, CopyFails(m) PROVE MigrationInv'
  BY <1>2, <1>6, MigrationRests DEF CopyFails
<1>7. ASSUME MigrationReturns PROVE MigrationInv'
  BY <1>2, <1>7, MigrationRests DEF MigrationReturns
<1>8. QED
  BY <1>1, <1>3, <1>4, <1>5, <1>6, <1>7 DEF MigratingNext, Migrate

(* The migration reads and never disturbs the backend: whatever holds of   *)
(* the backend alone holds beside it (db.py:463-480).                      *)
THEOREM MigrationOnlyReads == MigratingSpec => Spec
<1>1. MigrationInit => Init
  BY DEF MigrationInit
<1>2. [MigratingNext]_<<vars, migrationVars>> => [Next]_vars
  BY DEF MigratingNext, vars
<1>3. QED
  BY <1>1, <1>2, PTL DEF MigratingSpec, Spec

(* A migration that returns has put every record it found at its one read  *)
(* into the table and returns their number, whatever attempts have failed  *)
(* before it and whatever the backend did meanwhile (db.py:468-493).       *)
THEOREM MigrationIsWhole == MigratingSpec => []MigratedIsWhole
<1>1. MigrationInv => MigratedIsWhole
  <2> SUFFICES ASSUME MigrationInv, stage = "done", ~blind
               PROVE  /\ \A m \in Found(source) : table[m] = source[m]
                      /\ count = Cardinality(Found(source))
    BY DEF MigratedIsWhole
  <2>1. Underway /\ left = {} /\ text = source /\ count \in Nat
    BY DEF MigrationInv, Underway, MigrationTypes
  <2>2. Cardinality(left) = 0
    BY <2>1, FS_EmptySet
  <2>3. count + Cardinality(left) = Cardinality(Found(text))
    BY <2>1 DEF Underway
  <2>4. \A m \in Found(text) : table[m] = text[m]
    BY <2>1 DEF Underway
  <2>5. QED
    BY <2>1, <2>2, <2>3, <2>4
<1>2. QED
  BY <1>1, MigrationInitEstablishes, MigratingPreserves, PTL DEF MigratingSpec

=============================================================================
