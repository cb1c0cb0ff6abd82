-------------------------- MODULE ProvisionTracker --------------------------
(***************************************************************************)
(* The provisioning tracker of tftpos/state.py over the SQLAlchemy backend *)
(* of tftpos/db.py, driven by the threads of an application and by         *)
(* FirmwareEngine.ensure_tracked (tftpos/engine.py).                       *)
(*                                                                         *)
(* The tracker has no lock.  A call reads self._records once, keeps the    *)
(* reference to the ProvisionRecord object it found, changes the object's  *)
(* fields one by one, saves the object, and runs the callbacks; only the   *)
(* save holds the backend's lock.  Calls of several threads interleave     *)
(* between those steps, and the process may die at any of them.            *)
(*                                                                         *)
(* A mac is the lower-cased key of the code's dict and table.  Timestamps, *)
(* profile and OS names are left out; completed_at and error_message are   *)
(* kept as "has been set".                                                 *)
(***************************************************************************)
EXTENDS Naturals, Sequences, FiniteSets

CONSTANTS
    Macs,        \* lower-cased MAC addresses
    Threads,     \* threads of the application that call the tracker
    Objects,     \* identities of the ProvisionRecord objects of one MAC
    Targets,     \* the states transition() is called with
    MaxHistory,  \* bound: entries in the history of a record
    MaxCrashes,  \* bound: restarts of the process
    None         \* Python's None

ProvisionState ==
    {"registered", "booting", "installing", "post_install", "complete", "failed"}

(* What the backend stores of a record, and what the object holds. *)
Record == [state: ProvisionState, history: Seq(ProvisionState),
           completed: BOOLEAN, error: BOOLEAN, netboot: BOOLEAN]

ASSUME TrackerAssumption ==
    /\ Targets \subseteq ProvisionState
    /\ MaxHistory \in Nat
    /\ MaxCrashes \in Nat
    /\ None \notin Objects
    /\ None \notin Threads
    /\ None \notin Record

ASSUME ThreadsAssumption == IsFiniteSet(Threads) /\ Threads # {}

NewRecord == [state |-> "registered", history |-> <<"registered">>,
              completed |-> FALSE, error |-> FALSE, netboot |-> TRUE]

(* A call in progress: which object it holds and what it was asked to do.  *)
(* "enable" and "disable" are the two netboot calls.                       *)
Request == [mac: Macs, obj: Objects,
            to: ProvisionState \cup {"enable", "disable"}]

VARIABLES
    records,   \* self._records: the current object of each MAC, or None
    heap,      \* the fields of every ProvisionRecord object
    disk,      \* the rows of the provisions table, or None
    lock,      \* holder of the backend's lock, or None
    pc,        \* what each thread does next
    call,      \* the Request of each thread that is inside a call; the MAC, while
               \* ensure_tracked is between its test and register()
    snap,      \* the history a save has read before it reads the other fields
    crashes,   \* restarts so far
    dirty      \* history variable: MACs whose row a stale or failed save,
               \* or a late clear, left different from memory

vars == <<records, heap, disk, lock, pc, call, snap, crashes, dirty>>

Steps == {"idle", "ensure", "set", "append", "flag", "save", "write", "fire", "wipe"}

TypeOK ==
    /\ records \in [Macs -> Objects \cup {None}]
    /\ heap \in [Macs -> [Objects -> Record]]
    /\ disk \in [Macs -> Record \cup {None}]
    /\ lock \in Threads \cup {None}
    /\ pc \in [Threads -> Steps]
    /\ call \in [Threads -> Request \cup Macs \cup {None}]
    /\ \A t \in Threads : pc[t] \notin {"idle", "ensure", "wipe"} => call[t] \in Request
    /\ \A t \in Threads : pc[t] = "ensure" => call[t] \in Macs
    /\ \A t \in Threads : pc[t] \in {"set", "append", "fire"} => call[t].to \in ProvisionState
    /\ \A t \in Threads : pc[t] = "flag" => call[t].to \in {"enable", "disable"}
    /\ snap \in [Threads -> Seq(ProvisionState)]
    /\ crashes \in Nat
    /\ dirty \subseteq Macs

-----------------------------------------------------------------------------
(* Thread t holds object o of mac m and has still to change or save it. *)
Pending(t, m, o) ==
    /\ pc[t] \in {"set", "append", "flag", "save", "write"}
    /\ call[t].mac = m
    /\ call[t].obj = o

(* The object is referenced by self._records or by the call of a thread. *)
Reachable(recs, calls, m, o) ==
    \/ recs[m] = o
    \/ \E t \in Threads :
         calls[t] \in Request /\ calls[t].mac = m /\ calls[t].obj = o

(* Python reclaims an object nothing refers to; its identity may be reused. *)
Collect(h, recs, calls) ==
    [m \in Macs |-> [o \in Objects |->
       IF Reachable(recs, calls, m, o) THEN h[m][o] ELSE NewRecord]]

(* Bound: entries the pending transitions will still append fit. *)
Room(m, o) ==
    Len(heap[m][o].history)
      + Cardinality({t \in Threads : Pending(t, m, o) /\ pc[t] \in {"set", "append"}})
    < MaxHistory

(* A thread returns to its caller: locals are dropped. *)
Return(t) ==
    /\ pc' = [pc EXCEPT ![t] = "idle"]
    /\ call' = [call EXCEPT ![t] = None]
    /\ snap' = [snap EXCEPT ![t] = <<>>]
    /\ heap' = Collect(heap, records, call')

-----------------------------------------------------------------------------
Init ==
    /\ records = [m \in Macs |-> None]
    /\ heap = [m \in Macs |-> [o \in Objects |-> NewRecord]]
    /\ disk = [m \in Macs |-> None]
    /\ lock = None
    /\ pc = [t \in Threads |-> "idle"]
    /\ call = [t \in Threads |-> None]
    /\ snap = [t \in Threads |-> <<>>]
    /\ crashes = 0
    /\ dirty = {}

(* register(), up to the assignment to self._records: a new object takes   *)
(* the place of whatever object the MAC had.                               *)
BindNew(t, m) ==
    \E o \in Objects :
      /\ ~Reachable(records, call, m, o)
      /\ records' = [records EXCEPT ![m] = o]
      /\ call' = [call EXCEPT ![t] = [mac |-> m, obj |-> o, to |-> "registered"]]
      /\ heap' = Collect([heap EXCEPT ![m][o] = NewRecord], records', call')
      /\ pc' = [pc EXCEPT ![t] = "save"]
      /\ UNCHANGED <<disk, lock, snap, crashes, dirty>>

Register(t, m) == pc[t] = "idle" /\ BindNew(t, m)

(* ensure_tracked(): the test, which returns at once for a known MAC ... *)
EnsureCheck(t, m) ==
    /\ pc[t] = "idle"
    /\ records[m] = None
    /\ pc' = [pc EXCEPT ![t] = "ensure"]
    /\ call' = [call EXCEPT ![t] = m]
    /\ UNCHANGED <<records, heap, disk, lock, snap, crashes, dirty>>

(* ... and the register() it calls afterwards. *)
EnsureRegister(t) == pc[t] = "ensure" /\ BindNew(t, call[t])

(* A slip: the missing record is not refused. *)
LookupUnchecked(t, m, to, next) ==
    /\ pc[t] = "idle"
    /\ pc' = [pc EXCEPT ![t] = next]
    /\ call' = [call EXCEPT ![t] = [mac |-> m, obj |-> records[m], to |-> to]]
    /\ UNCHANGED <<records, heap, disk, lock, snap, crashes, dirty>>

(* The lookup transition(), disable_netboot() and enable_netboot() start   *)
(* with; for an unknown MAC they raise ValueError and change nothing.      *)
Lookup(t, m, to, next) ==
    /\ pc[t] = "idle"
    /\ records[m] # None
    /\ pc' = [pc EXCEPT ![t] = next]
    /\ call' = [call EXCEPT ![t] = [mac |-> m, obj |-> records[m], to |-> to]]
    /\ UNCHANGED <<records, heap, disk, lock, snap, crashes, dirty>>

(* A slip: the history is appended to and the state is not assigned. *)
TransitionUnassigned(t, m, s) ==
    /\ records[m] # None
    /\ Room(m, records[m])
    /\ Lookup(t, m, s, "append")

Transition(t, m, s) ==
    /\ records[m] # None
    /\ Room(m, records[m])
    /\ Lookup(t, m, s, "set")

SetNetboot(t, m, to) == Lookup(t, m, to, "flag")

(* transition(): record.state = new_state; nothing checks the old state. *)
AssignState(t) ==
    /\ pc[t] = "set"
    /\ heap' = [heap EXCEPT ![call[t].mac][call[t].obj].state = call[t].to]
    /\ pc' = [pc EXCEPT ![t] = "append"]
    /\ UNCHANGED <<records, disk, lock, call, snap, crashes, dirty>>

(* The fields transition() changes after the state. *)
Advanced(r, s) ==
    [r EXCEPT !.history = Append(r.history, s),
              !.completed = r.completed \/ s = "complete",
              !.error = r.error \/ s = "failed"]

(* transition(): history.append, completed_at, error_message.  Callers     *)
(* give an error message with "failed"; it is never taken back.            *)
AppendHistory(t) ==
    /\ pc[t] = "append"
    /\ heap' = [heap EXCEPT ![call[t].mac][call[t].obj] =
                 Advanced(@, call[t].to)]
    /\ pc' = [pc EXCEPT ![t] = "save"]
    /\ UNCHANGED <<records, disk, lock, call, snap, crashes, dirty>>

(* disable_netboot() and enable_netboot(): the assignment. *)
AssignNetboot(t) ==
    /\ pc[t] = "flag"
    /\ heap' = [heap EXCEPT ![call[t].mac][call[t].obj].netboot =
                 (call[t].to = "enable")]
    /\ pc' = [pc EXCEPT ![t] = "save"]
    /\ UNCHANGED <<records, disk, lock, call, snap, crashes, dirty>>

-----------------------------------------------------------------------------
(* A slip: the record is read without the lock. *)
SaveBeginUnlocked(t) ==
    /\ pc[t] = "save"
    /\ lock' = t
    /\ snap' = [snap EXCEPT ![t] = heap[call[t].mac][call[t].obj].history]
    /\ pc' = [pc EXCEPT ![t] = "write"]
    /\ UNCHANGED <<records, heap, disk, call, crashes, dirty>>

(* SQLAlchemyBackend.save takes the lock and reads the history first ... *)
SaveBegin(t) ==
    /\ pc[t] = "save"
    /\ lock = None
    /\ lock' = t
    /\ snap' = [snap EXCEPT ![t] = heap[call[t].mac][call[t].obj].history]
    /\ pc' = [pc EXCEPT ![t] = "write"]
    /\ UNCHANGED <<records, heap, disk, call, crashes, dirty>>

(* The row made of the history read first and the fields read after it. *)
Row(r, h) == [r EXCEPT !.history = h]

(* A slip: a row that exists is left as it is. *)
SaveCommitInsertOnly(t) ==
    LET m == call[t].mac
        o == call[t].obj
    IN  /\ pc[t] = "write"
        /\ disk' = [disk EXCEPT ![m] =
                     IF @ # None THEN @ ELSE Row(heap[m][o], snap[t])]
        /\ lock' = None
        /\ dirty' = IF records[m] = o THEN dirty \ {m} ELSE dirty \cup {m}
        /\ IF call[t].to \in {"enable", "disable"}
           THEN Return(t)
           ELSE /\ pc' = [pc EXCEPT ![t] = "fire"]
                /\ snap' = [snap EXCEPT ![t] = <<>>]
                /\ UNCHANGED <<call, heap>>
        /\ UNCHANGED <<records, crashes>>

(* ... then the other fields, of an object other threads may be changing,  *)
(* and commits the row in one transaction.                                 *)
SaveCommit(t) ==
    LET m == call[t].mac
        o == call[t].obj
    IN  /\ pc[t] = "write"
        /\ disk' = [disk EXCEPT ![m] = Row(heap[m][o], snap[t])]
        /\ lock' = None
        /\ dirty' = IF records[m] = o THEN dirty \ {m} ELSE dirty \cup {m}
        /\ IF call[t].to \in {"enable", "disable"}
           THEN Return(t)
           ELSE /\ pc' = [pc EXCEPT ![t] = "fire"]
                /\ snap' = [snap EXCEPT ![t] = <<>>]
                /\ UNCHANGED <<call, heap>>
        /\ UNCHANGED <<records, crashes>>

(* The commit raises: the with statement releases the lock, the exception  *)
(* leaves transition() before its callbacks, and memory keeps the change.  *)
SaveFail(t) ==
    /\ pc[t] = "write"
    /\ lock' = None
    /\ dirty' = dirty \cup {call[t].mac}
    /\ Return(t)
    /\ UNCHANGED <<records, disk, crashes>>

(* _fire_callbacks(): they return, or one raises and the rest are skipped; *)
(* either way the call is over and the tracker's state is what it was.     *)
FireCallbacks(t) ==
    /\ pc[t] = "fire"
    /\ Return(t)
    /\ UNCHANGED <<records, disk, lock, crashes, dirty>>

(* clear(): memory first ... *)
ClearMemory(t) ==
    /\ pc[t] = "idle"
    /\ records' = [m \in Macs |-> None]
    /\ heap' = Collect(heap, records', call)
    /\ pc' = [pc EXCEPT ![t] = "wipe"]
    /\ UNCHANGED <<disk, lock, call, snap, crashes, dirty>>

(* ... then the table, which may hold rows saved since. *)
ClearDisk(t) ==
    /\ pc[t] = "wipe"
    /\ lock = None
    /\ disk' = [m \in Macs |-> None]
    /\ dirty' = {m \in Macs : records[m] # None}
    /\ Return(t)
    /\ UNCHANGED <<records, lock, crashes>>

ClearFail(t) ==
    /\ pc[t] = "wipe"
    /\ lock = None
    /\ dirty' = Macs
    /\ Return(t)
    /\ UNCHANGED <<records, disk, lock, crashes>>

(* The process dies, and a new tracker loads every row into new objects. *)
Restart ==
    /\ crashes < MaxCrashes
    /\ crashes' = crashes + 1
    /\ \E o \in Objects :
         /\ records' = [m \in Macs |-> IF disk[m] = None THEN None ELSE o]
         /\ heap' = [m \in Macs |->
                      [p \in Objects |->
                         IF p = o /\ disk[m] # None THEN disk[m] ELSE NewRecord]]
    /\ lock' = None
    /\ pc' = [t \in Threads |-> "idle"]
    /\ call' = [t \in Threads |-> None]
    /\ snap' = [t \in Threads |-> <<>>]
    /\ dirty' = {}
    /\ UNCHANGED disk

-----------------------------------------------------------------------------
Next ==
    \/ \E t \in Threads, m \in Macs :
         \/ Register(t, m)
         \/ EnsureCheck(t, m)
         \/ \E s \in Targets : Transition(t, m, s)
         \/ \E to \in {"enable", "disable"} : SetNetboot(t, m, to)
    \/ \E t \in Threads :
         \/ EnsureRegister(t)
         \/ AssignState(t)
         \/ AppendHistory(t)
         \/ AssignNetboot(t)
         \/ SaveBegin(t)
         \/ SaveCommit(t)
         \/ SaveFail(t)
         \/ FireCallbacks(t)
         \/ ClearMemory(t)
         \/ ClearDisk(t)
         \/ ClearFail(t)
    \/ Restart

Spec == Init /\ [][Next]_vars

-----------------------------------------------------------------------------
(***************************************************************************)
(* Properties                                                              *)
(***************************************************************************)

(* "Pass a StorageBackend to persist every state change" (state.py:61),    *)
(* under threads and failures: once no call still has to save the object a *)
(* MAC has now, its row is that object, whole, and a cleared MAC has no    *)
(* row.  It holds because every call saves after its last change and reads *)
(* the object under the lock; the only exceptions are the MACs whose row   *)
(* was written from an object register() or clear() had replaced, wiped    *)
(* after a newer registration, or left behind by a failed save.            *)
Converged(m) ==
    IF records[m] = None
    THEN (\A t \in Threads : pc[t] # "wipe") => disk[m] = None
    ELSE (\A t \in Threads : ~Pending(t, m, records[m]))
           => disk[m] = heap[m][records[m]]

PersistedUnlessPending == \A m \in Macs \ dirty : Converged(m)

(* When the callbacks of a state run, or the caller gets the record back,  *)
(* the transition is already in the database, whatever other threads did   *)
(* to the same record meanwhile (state.py:122-124).                        *)
NotifiedIsDurable ==
    \A t \in Threads :
      /\ pc[t] = "fire"
      /\ call[t].mac \notin dirty
      /\ records[call[t].mac] = call[t].obj
      => /\ disk[call[t].mac] # None
         /\ \E i \in DOMAIN disk[call[t].mac].history :
               disk[call[t].mac].history[i] = call[t].to

(* state and history are assigned in two steps without a lock, so the last *)
(* entry need not be the state.  But when nobody is between the two steps, *)
(* the state is one of the last |Threads| entries: with one thread it is   *)
(* the last (state.py:115-117).  A restart may load a row that a save read *)
(* between another call's two steps, so this is about one process life.    *)
StateIsRecent ==
    \A m \in Macs, o \in Objects :
      LET r == heap[m][o]
          n == Len(r.history)
      IN  /\ crashes = 0
          /\ \A t \in Threads : ~(Pending(t, m, o) /\ pc[t] \in {"set", "append"})
          => \E i \in 1..n : i + Cardinality(Threads) > n /\ r.history[i] = r.state

(* CONTRACT.md:61-69 draws REGISTERED -> BOOTING -> INSTALLING ->          *)
(* POST_INSTALL -> COMPLETE, with FAILED reached from the middle three,    *)
(* and says "State transitions are enforced by                             *)
(* ProvisionTracker.transition()": no record ever takes another step.      *)
Lifecycle ==
    {<<"registered", "booting">>, <<"booting", "installing">>,
     <<"installing", "post_install">>, <<"post_install", "complete">>,
     <<"booting", "failed">>, <<"installing", "failed">>, <<"post_install", "failed">>}

TransitionsAreEnforced ==
    [][\A m \in Macs :
         records[m] # None /\ records'[m] = records[m] =>
           LET s == heap[m][records[m]].state
               n == heap'[m][records[m]].state
           IN  s = n \/ <<s, n>> \in Lifecycle]_<<records, heap>>

=============================================================================
