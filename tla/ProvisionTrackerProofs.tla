----------------------- MODULE ProvisionTrackerProofs -----------------------
(***************************************************************************)
(* What every interleaving of calls, failures and restarts keeps true of   *)
(* the tracker's memory and its table, for any number of threads and MACs, *)
(* and what a restart finds of it.                                         *)
(***************************************************************************)
EXTENDS ProvisionTracker, FiniteSetTheorems, TLAPS

InCall == {"set", "append", "flag", "save", "write", "fire"}

Has(s, x) == \E i \in DOMAIN s : s[i] = x

(* The history of the object thread t holds. *)
Held(t) == heap[call[t].mac][call[t].obj].history

(* The backend's lock is held exactly between SaveBegin and SaveCommit. *)
LockInv == \A t \in Threads : pc[t] = "write" <=> lock = t

(* The history a save has read is still the object's, or another call that *)
(* will save the same object afterwards has appended to it meanwhile.      *)
SnapInv ==
    \A t \in Threads : pc[t] = "write" =>
      \/ snap[t] = Held(t)
      \/ \E u \in Threads \ {t} : Pending(u, call[t].mac, call[t].obj)

(* A transition that reaches its save is in the history of its object, in  *)
(* the history its save has read, and in what any later save reads.        *)
HistoryInv ==
    \A t \in Threads :
      /\ pc[t] \in {"save", "write", "fire"} /\ call[t].to \in ProvisionState =>
           Has(Held(t), call[t].to)
      /\ pc[t] = "write" /\ call[t].to \in ProvisionState => Has(snap[t], call[t].to)
      /\ pc[t] = "fire" =>
           \A u \in Threads :
             /\ pc[u] = "write"
             /\ call[u].mac = call[t].mac
             /\ call[u].obj = call[t].obj
             => Has(snap[u], call[t].to)

IInv ==
    /\ TypeOK
    /\ LockInv
    /\ SnapInv
    /\ HistoryInv
    /\ PersistedUnlessPending
    /\ NotifiedIsDurable

-----------------------------------------------------------------------------
LEMMA NewRecordType == NewRecord \in Record
BY DEF NewRecord, Record, ProvisionState

LEMMA CollectType ==
    ASSUME NEW h \in [Macs -> [Objects -> Record]], NEW recs, NEW calls
    PROVE  Collect(h, recs, calls) \in [Macs -> [Objects -> Record]]
BY NewRecordType DEF Collect

LEMMA CollectKeeps ==
    ASSUME NEW h, NEW recs, NEW calls, NEW m \in Macs, NEW o \in Objects,
           Reachable(recs, calls, m, o)
    PROVE  Collect(h, recs, calls)[m][o] = h[m][o]
BY DEF Collect

(* Appending keeps what a history has and adds the new entry. *)
LEMMA AppendHas ==
    ASSUME NEW s \in Seq(ProvisionState), NEW x \in ProvisionState
    PROVE  /\ Append(s, x) \in Seq(ProvisionState)
           /\ Has(Append(s, x), x)
           /\ \A y : Has(s, y) => Has(Append(s, x), y)
<1>1. /\ Append(s, x) \in Seq(ProvisionState)
      /\ DOMAIN s = 1..Len(s)
      /\ Len(s) \in Nat
      /\ DOMAIN Append(s, x) = 1..(Len(s) + 1)
      /\ Append(s, x)[Len(s) + 1] = x
      /\ \A i \in 1..Len(s) : Append(s, x)[i] = s[i]
  OBVIOUS
<1>2. Has(Append(s, x), x)
  BY <1>1 DEF Has
<1>3. ASSUME NEW y, Has(s, y) PROVE Has(Append(s, x), y)
  BY <1>1, <1>3 DEF Has
<1>4. QED
  BY <1>1, <1>2, <1>3

(* The updates of a record. *)
LEMMA RowUpdates ==
    ASSUME NEW r \in Record, NEW h \in Seq(ProvisionState)
    PROVE  /\ Row(r, h) \in Record
           /\ Row(r, h).history = h
           /\ r.history = h => Row(r, h) = r
BY DEF Row, Record

LEMMA AdvancedUpdates ==
    ASSUME NEW r \in Record, NEW x \in ProvisionState
    PROVE  /\ Advanced(r, x) \in Record
           /\ Advanced(r, x).history = Append(r.history, x)
<1>1. r.history \in Seq(ProvisionState) /\ r.completed \in BOOLEAN /\ r.error \in BOOLEAN
  BY DEF Record
<1>2. Append(r.history, x) \in Seq(ProvisionState)
  BY <1>1, AppendHas
<1>3. QED
  BY <1>1, <1>2 DEF Advanced, Record

LEMMA TrackerInit == Init => IInv
<1> SUFFICES ASSUME Init PROVE IInv
  OBVIOUS
<1>1. TypeOK
  BY NewRecordType DEF Init, TypeOK, Steps
<1>2. LockInv /\ SnapInv /\ HistoryInv
  BY TrackerAssumption DEF Init, LockInv, SnapInv, HistoryInv
<1>3. PersistedUnlessPending /\ NotifiedIsDurable
  BY DEF Init, PersistedUnlessPending, Converged, NotifiedIsDurable
<1>4. QED
  BY <1>1, <1>2, <1>3 DEF IInv

(* A call holds a request, and the fields of the object it names. *)
LEMMA CallType ==
    ASSUME TypeOK, NEW t \in Threads, pc[t] \in InCall
    PROVE  /\ call[t] \in Request
           /\ call[t].mac \in Macs
           /\ call[t].obj \in Objects
           /\ call[t].obj # None
           /\ heap[call[t].mac][call[t].obj] \in Record
           /\ Held(t) \in Seq(ProvisionState)
           /\ Reachable(records, call, call[t].mac, call[t].obj)
<1>1. call[t] \in Request
  BY DEF TypeOK, InCall
<1>2. call[t].mac \in Macs /\ call[t].obj \in Objects
  BY <1>1 DEF Request
<1>3. heap[call[t].mac][call[t].obj] \in Record
  BY <1>2 DEF TypeOK
<1>4. QED
  BY <1>1, <1>2, <1>3, TrackerAssumption DEF Record, Held, Reachable

(* Every step keeps the state well typed. *)
LEMMA TypeNext == TypeOK /\ [Next]_vars => TypeOK'
<1> SUFFICES ASSUME TypeOK, [Next]_vars PROVE TypeOK'
  OBVIOUS
<1> USE DEF TypeOK, Steps
<1>0. \A calls, recs : Collect(heap, recs, calls) \in [Macs -> [Objects -> Record]]
  BY CollectType
<1>1. ASSUME NEW t \in Threads, NEW m \in Macs, BindNew(t, m), pc[t] \in {"idle", "ensure"}
      PROVE  TypeOK'
  <2>1. PICK o \in Objects :
          /\ records' = [records EXCEPT ![m] = o]
          /\ call' = [call EXCEPT ![t] = [mac |-> m, obj |-> o, to |-> "registered"]]
          /\ heap' = Collect([heap EXCEPT ![m][o] = NewRecord], records', call')
    BY <1>1 DEF BindNew
  <2>2. heap' \in [Macs -> [Objects -> Record]]
    <3>1. [heap EXCEPT ![m][o] = NewRecord] \in [Macs -> [Objects -> Record]]
      BY NewRecordType
    <3>2. QED
      BY <2>1, <3>1, CollectType
  <2>3. [mac |-> m, obj |-> o, to |-> "registered"] \in Request
    BY DEF Request, ProvisionState
  <2>4. /\ pc' = [pc EXCEPT ![t] = "save"]
        /\ UNCHANGED <<disk, lock, snap, crashes, dirty>>
    BY <1>1 DEF BindNew
  <2>5. records' \in [Macs -> Objects \cup {None}] /\ pc' \in [Threads -> Steps]
    BY <2>1, <2>4
  <2>6. call' \in [Threads -> Request \cup Macs \cup {None}]
    BY <2>1, <2>3
  <2>7. /\ pc'[t] = "save" /\ call'[t] \in Request
        /\ \A u \in Threads \ {t} : pc'[u] = pc[u] /\ call'[u] = call[u]
    BY <2>1, <2>3, <2>4
  <2>8. QED
    BY <2>2, <2>4, <2>5, <2>6, <2>7
<1>2. ASSUME NEW t \in Threads, Return(t) PROVE
        /\ heap' \in [Macs -> [Objects -> Record]]
        /\ pc' \in [Threads -> Steps]
        /\ call' \in [Threads -> Request \cup Macs \cup {None}]
        /\ \A u \in Threads : pc'[u] \notin {"idle", "ensure", "wipe"} => call'[u] \in Request
        /\ \A u \in Threads : pc'[u] = "ensure" => call'[u] \in Macs
        /\ \A u \in Threads : pc'[u] \in {"set", "append", "fire"} => call'[u].to \in ProvisionState
        /\ \A u \in Threads : pc'[u] = "flag" => call'[u].to \in {"enable", "disable"}
        /\ snap' \in [Threads -> Seq(ProvisionState)]
  BY <1>0, <1>2 DEF Return
<1>3. ASSUME NEW t \in Threads, NEW m \in Macs, Register(t, m) PROVE TypeOK'
  BY <1>1, <1>3 DEF Register
<1>4. ASSUME NEW t \in Threads, NEW m \in Macs, EnsureCheck(t, m) PROVE TypeOK'
  BY <1>4 DEF EnsureCheck
<1>5. ASSUME NEW t \in Threads, NEW m \in Macs,
             NEW to \in ProvisionState \cup {"enable", "disable"},
             NEW next \in {"set", "flag"}, Lookup(t, m, to, next),
             next = "set" => to \in ProvisionState,
             next = "flag" => to \in {"enable", "disable"}
      PROVE  TypeOK'
  <2>1. [mac |-> m, obj |-> records[m], to |-> to] \in Request
    BY <1>5 DEF Lookup, Request
  <2>2. QED
    BY <1>5, <2>1 DEF Lookup
<1>6. ASSUME NEW t \in Threads, NEW m \in Macs, NEW s \in Targets, Transition(t, m, s)
      PROVE  TypeOK'
  BY <1>5, <1>6, TrackerAssumption DEF Transition
<1>7. ASSUME NEW t \in Threads, NEW m \in Macs, NEW to \in {"enable", "disable"},
             SetNetboot(t, m, to)
      PROVE  TypeOK'
  BY <1>5, <1>7 DEF SetNetboot
<1>8. ASSUME NEW t \in Threads, EnsureRegister(t) PROVE TypeOK'
  <2>1. call[t] \in Macs
    BY <1>8 DEF EnsureRegister
  <2>2. QED
    BY <1>1, <1>8, <2>1 DEF EnsureRegister
<1>9. ASSUME NEW t \in Threads, AssignState(t) PROVE TypeOK'
  <2>1. call[t] \in Request /\ call[t].to \in ProvisionState
    BY <1>9 DEF AssignState
  <2> DEFINE r == [heap[call[t].mac][call[t].obj] EXCEPT !.state = call[t].to]
  <2>2. call[t].mac \in Macs /\ call[t].obj \in Objects /\ r \in Record
    <3>1. heap[call[t].mac][call[t].obj] \in Record
      BY <2>1 DEF Request
    <3>2. QED
      BY <2>1, <3>1 DEF Request, Record
  <2>4. heap' = [heap EXCEPT ![call[t].mac][call[t].obj] = r]
    BY <1>9 DEF AssignState
  <2> HIDE DEF r
  <2>5. heap' \in [Macs -> [Objects -> Record]]
    BY <2>2, <2>4
  <2>3. QED
    BY <1>9, <2>1, <2>5 DEF AssignState
<1>10. ASSUME NEW t \in Threads, AppendHistory(t) PROVE TypeOK'
  <2>1. call[t] \in Request /\ call[t].to \in ProvisionState
    BY <1>10 DEF AppendHistory
  <2>2. /\ call[t].mac \in Macs /\ call[t].obj \in Objects
        /\ heap[call[t].mac][call[t].obj] \in Record
        /\ heap[call[t].mac][call[t].obj].history \in Seq(ProvisionState)
    BY <2>1 DEF Request, Record
  <2>3. Advanced(heap[call[t].mac][call[t].obj], call[t].to) \in Record
    BY <2>1, <2>2, AdvancedUpdates
  <2>4. heap' \in [Macs -> [Objects -> Record]]
    BY <1>10, <2>2, <2>3 DEF AppendHistory
  <2>5. QED
    BY <1>10, <2>1, <2>4 DEF AppendHistory
<1>11. ASSUME NEW t \in Threads, AssignNetboot(t) PROVE TypeOK'
  <2>1. call[t] \in Request
    BY <1>11 DEF AssignNetboot
  <2> DEFINE r == [heap[call[t].mac][call[t].obj] EXCEPT !.netboot = (call[t].to = "enable")]
  <2>2. call[t].mac \in Macs /\ call[t].obj \in Objects /\ r \in Record
    <3>1. heap[call[t].mac][call[t].obj] \in Record
      BY <2>1 DEF Request
    <3>2. QED
      BY <2>1, <3>1 DEF Request, Record
  <2>4. heap' = [heap EXCEPT ![call[t].mac][call[t].obj] = r]
    BY <1>11 DEF AssignNetboot
  <2> HIDE DEF r
  <2>5. heap' \in [Macs -> [Objects -> Record]]
    BY <2>2, <2>4
  <2>3. QED
    BY <1>11, <2>1, <2>5 DEF AssignNetboot
<1>12. ASSUME NEW t \in Threads, SaveBegin(t) PROVE TypeOK'
  <2>1. Held(t) \in Seq(ProvisionState) /\ call[t] \in Request
    BY <1>12, CallType DEF SaveBegin, InCall
  <2>2. QED
    BY <1>12, <2>1 DEF SaveBegin, Held
<1>13. ASSUME NEW t \in Threads, SaveCommit(t) PROVE TypeOK'
  <2>1. call[t] \in Request /\ call[t].mac \in Macs /\ heap[call[t].mac][call[t].obj] \in Record
    BY <1>13, CallType DEF SaveCommit, InCall
  <2>2. Row(heap[call[t].mac][call[t].obj], snap[t]) \in Record
    BY <2>1, RowUpdates
  <2>3. disk' \in [Macs -> Record \cup {None}] /\ lock' \in Threads \cup {None}
        /\ dirty' \subseteq Macs /\ UNCHANGED <<records, crashes>>
    BY <1>13, <2>1, <2>2 DEF SaveCommit
  <2>4. CASE call[t].to \in {"enable", "disable"}
    BY <1>2, <1>13, <2>3, <2>4 DEF SaveCommit
  <2>5. CASE call[t].to \notin {"enable", "disable"}
    <3>1. call[t].to \in ProvisionState
      BY <2>1, <2>5 DEF Request
    <3>2. /\ pc' = [pc EXCEPT ![t] = "fire"]
          /\ snap' = [snap EXCEPT ![t] = <<>>]
          /\ UNCHANGED <<call, heap>>
      BY <1>13, <2>5 DEF SaveCommit
    <3>3. snap' \in [Threads -> Seq(ProvisionState)] /\ pc' \in [Threads -> Steps]
      BY <3>2
    <3>4. QED
      BY <2>1, <2>3, <3>1, <3>2, <3>3
  <2>6. QED
    BY <2>4, <2>5
<1>14. ASSUME NEW t \in Threads, SaveFail(t) PROVE TypeOK'
  <2>1. call[t].mac \in Macs
    BY <1>14, CallType DEF SaveFail, InCall
  <2>2. QED
    BY <1>2, <1>14, <2>1 DEF SaveFail
<1>15. ASSUME NEW t \in Threads, FireCallbacks(t) PROVE TypeOK'
  BY <1>2, <1>15 DEF FireCallbacks
<1>16. ASSUME NEW t \in Threads, ClearMemory(t) PROVE TypeOK'
  BY <1>0, <1>16 DEF ClearMemory
<1>17. ASSUME NEW t \in Threads, ClearDisk(t) PROVE TypeOK'
  BY <1>2, <1>17 DEF ClearDisk
<1>18. ASSUME NEW t \in Threads, ClearFail(t) PROVE TypeOK'
  BY <1>2, <1>18 DEF ClearFail
<1>19. CASE Restart
  <2>1. PICK o \in Objects :
          /\ records' = [m \in Macs |-> IF disk[m] = None THEN None ELSE o]
          /\ heap' = [m \in Macs |-> [p \in Objects |->
               IF p = o /\ disk[m] # None THEN disk[m] ELSE NewRecord]]
    BY <1>19 DEF Restart
  <2>2. heap' \in [Macs -> [Objects -> Record]]
    BY <2>1, NewRecordType
  <2>3. QED
    BY <1>19, <2>1, <2>2 DEF Restart
<1>20. CASE UNCHANGED vars
  BY <1>20 DEF vars
<1>21. QED
  BY <1>3, <1>4, <1>6, <1>7, <1>8, <1>9, <1>10, <1>11, <1>12, <1>13, <1>14, <1>15,
     <1>16, <1>17, <1>18, <1>19, <1>20 DEF Next

(* What a step of thread t leaves alone: the other threads, and every      *)
(* object that is still referenced afterwards.                             *)
Frame(t) ==
    /\ \A u \in Threads \ {t} : pc'[u] = pc[u] /\ call'[u] = call[u] /\ snap'[u] = snap[u]
    /\ \A m \in Macs, o \in Objects :
         Reachable(records, call, m, o) /\ Reachable(records', call', m, o)
           => heap'[m][o] = heap[m][o]

(* Thread t returns without having touched the table's lock: nothing the   *)
(* other threads rely on changes.                                          *)
LEMMA ReturnFrame ==
    ASSUME TypeOK, TypeOK', NEW t \in Threads, Return(t), UNCHANGED records
    PROVE  Frame(t) /\ pc'[t] = "idle" /\ UNCHANGED records
<1>1. /\ pc' = [pc EXCEPT ![t] = "idle"]
      /\ call' = [call EXCEPT ![t] = None]
      /\ snap' = [snap EXCEPT ![t] = <<>>]
      /\ heap' = Collect(heap, records, call')
  BY DEF Return
<1>2. \A u \in Threads \ {t} : pc'[u] = pc[u] /\ call'[u] = call[u] /\ snap'[u] = snap[u]
  BY <1>1 DEF TypeOK
<1>3. ASSUME NEW m \in Macs, NEW o \in Objects, Reachable(records', call', m, o)
      PROVE  heap'[m][o] = heap[m][o]
  <2>1. Reachable(records, call', m, o)
    BY <1>3
  <2>2. QED
    BY <1>1, <2>1, CollectKeeps
<1>4. pc'[t] = "idle"
  BY <1>1 DEF TypeOK
<1>5. QED
  BY <1>2, <1>3, <1>4 DEF Frame

(* The parts of the invariant about threads survive a step of t that moves *)
(* t neither into the lock nor out of it, nor into its callbacks.          *)
LEMMA ThreadsFrame ==
    ASSUME IInv, TypeOK', NEW t \in Threads, Frame(t), UNCHANGED lock,
           pc[t] \notin {"set", "append", "flag", "save", "write"},
           pc'[t] \notin {"write", "fire"},
           pc'[t] = "save" => Has(Held(t)', call'[t].to)
    PROVE  LockInv' /\ SnapInv' /\ HistoryInv'
<1>1. ASSUME NEW u \in Threads \ {t}, pc[u] \in InCall
      PROVE  /\ call'[u] = call[u] /\ call[u].mac \in Macs /\ call[u].obj \in Objects
             /\ Held(u)' = Held(u)
  <2>1. /\ pc'[u] = pc[u] /\ call'[u] = call[u]
        /\ call[u].mac \in Macs /\ call[u].obj \in Objects
        /\ Reachable(records, call, call[u].mac, call[u].obj)
    BY <1>1, CallType DEF IInv, Frame
  <2>2. Reachable(records', call', call[u].mac, call[u].obj)
    <3>1. call[u] \in Request
      BY <1>1, CallType DEF IInv
    <3>2. QED
      BY <2>1, <3>1 DEF Reachable
  <2>3. QED
    BY <2>1, <2>2 DEF Frame, Held
<1>2. LockInv'
  BY DEF IInv, LockInv, Frame
<1>3. SnapInv'
  <2> SUFFICES ASSUME NEW w \in Threads, pc'[w] = "write"
               PROVE  \/ snap'[w] = Held(w)'
                      \/ \E u \in Threads \ {w} : Pending(u, call[w].mac, call[w].obj)'
    BY DEF SnapInv
  <2>1. w # t
    OBVIOUS
  <2>2. pc[w] = "write" /\ snap'[w] = snap[w] /\ call'[w] = call[w] /\ Held(w)' = Held(w)
    BY <1>1, <2>1 DEF Frame, InCall
  <2>3. CASE snap[w] = Held(w)
    BY <2>2, <2>3
  <2>4. CASE \E u \in Threads \ {w} : Pending(u, call[w].mac, call[w].obj)
    <3>1. PICK u \in Threads \ {w} : Pending(u, call[w].mac, call[w].obj)
      BY <2>4
    <3>2. u # t
      BY <3>1 DEF Pending
    <3>3. pc'[u] = pc[u] /\ call'[u] = call[u]
      BY <3>2 DEF Frame
    <3>4. Pending(u, call[w].mac, call[w].obj)'
      BY <2>2, <3>1, <3>3 DEF Pending
    <3>5. QED
      BY <3>4
  <2>5. QED
    BY <2>2, <2>3, <2>4 DEF IInv, SnapInv
<1>4. HistoryInv'
  <2> SUFFICES ASSUME NEW u \in Threads
               PROVE  (/\ pc[u] \in {"save", "write", "fire"} /\ call[u].to \in ProvisionState =>
                            Has(Held(u), call[u].to)
                       /\ pc[u] = "write" /\ call[u].to \in ProvisionState =>
                            Has(snap[u], call[u].to)
                       /\ pc[u] = "fire" =>
                            \A w \in Threads :
                              /\ pc[w] = "write"
                              /\ call[w].mac = call[u].mac
                              /\ call[w].obj = call[u].obj
                              => Has(snap[w], call[u].to))'
    BY DEF HistoryInv
  <2>1. CASE u = t
    BY <2>1 DEF Has, Held
  <2>2. CASE u # t
    <3>1. pc'[u] = pc[u] /\ call'[u] = call[u] /\ snap'[u] = snap[u]
      BY <2>2 DEF Frame
    <3>2. \A w \in Threads : pc'[w] = "write" =>
             pc[w] = "write" /\ call'[w] = call[w] /\ snap'[w] = snap[w]
      BY DEF Frame
    <3>3. pc[u] \in InCall => Held(u)' = Held(u)
      BY <1>1, <2>2
    <3>4. QED
      BY <3>1, <3>2, <3>3 DEF IInv, HistoryInv, InCall, Has
  <2>3. QED
    BY <2>1, <2>2
<1>5. QED
  BY <1>2, <1>3, <1>4

(* The rows keep matching memory when the table, the current objects and   *)
(* what is still to be saved stay the same.                                *)
LEMMA RowsFrame ==
    ASSUME IInv, TypeOK', NEW t \in Threads, Frame(t), UNCHANGED <<records, disk>>,
           dirty \subseteq dirty',
           pc[t] \notin {"set", "append", "flag", "save", "write", "wipe"},
           pc'[t] # "fire"
    PROVE  PersistedUnlessPending' /\ NotifiedIsDurable'
<1>1. ASSUME NEW m \in Macs, m \notin dirty' PROVE Converged(m)'
  <2>0. Converged(m)
    BY <1>1 DEF IInv, PersistedUnlessPending
  <2>1. CASE records[m] = None
    <3>1. (\E u \in Threads : pc[u] = "wipe") => (\E u \in Threads : pc'[u] = "wipe")
      BY DEF Frame
    <3>2. QED
      BY <2>0, <2>1, <3>1 DEF Converged
  <2>2. CASE records[m] # None
    <3>1. \A u \in Threads : Pending(u, m, records[m]) => Pending(u, m, records[m])'
      BY DEF Pending, Frame
    <3>2. records[m] \in Objects
      BY <2>2 DEF IInv, TypeOK
    <3>3. heap'[m][records[m]] = heap[m][records[m]]
      BY <3>2 DEF Frame, Reachable
    <3>4. QED
      BY <2>0, <2>2, <3>1, <3>3 DEF Converged
  <2>3. QED
    BY <2>1, <2>2
<1>2. PersistedUnlessPending'
  BY <1>1 DEF PersistedUnlessPending
<1>3. NotifiedIsDurable'
  <2>1. \A u \in Threads : pc'[u] = "fire" => pc[u] = "fire" /\ call'[u] = call[u]
    BY DEF Frame
  <2>2. QED
    BY <2>1 DEF IInv, NotifiedIsDurable
<1>4. QED
  BY <1>2, <1>3

-----------------------------------------------------------------------------
LEMMA FirePreserves ==
    ASSUME IInv, TypeOK', NEW t \in Threads, FireCallbacks(t)
    PROVE  IInv'
<1>1. /\ pc[t] = "fire" /\ pc'[t] = "idle" /\ Frame(t)
      /\ UNCHANGED <<records, disk, lock, dirty>>
  BY ReturnFrame DEF FireCallbacks, IInv
<1>2. QED
  BY <1>1, ThreadsFrame, RowsFrame DEF IInv

LEMMA EnsureCheckPreserves ==
    ASSUME IInv, TypeOK', NEW t \in Threads, NEW m \in Macs, EnsureCheck(t, m)
    PROVE  IInv'
<1>1. /\ pc[t] = "idle" /\ pc'[t] = "ensure" /\ Frame(t)
      /\ UNCHANGED <<records, disk, lock, dirty>>
  BY DEF EnsureCheck, Frame, IInv, TypeOK
<1>2. QED
  BY <1>1, ThreadsFrame, RowsFrame DEF IInv

LEMMA LookupPreserves ==
    ASSUME IInv, TypeOK', NEW t \in Threads, NEW m \in Macs, NEW to,
           NEW next \in {"set", "flag"}, Lookup(t, m, to, next)
    PROVE  IInv'
<1>1. /\ pc[t] = "idle" /\ pc'[t] = next /\ Frame(t)
      /\ UNCHANGED <<records, disk, lock, dirty>>
  BY DEF Lookup, Frame, IInv, TypeOK
<1>2. QED
  BY <1>1, ThreadsFrame, RowsFrame DEF IInv

LEMMA ClearMemoryPreserves ==
    ASSUME IInv, TypeOK', NEW t \in Threads, ClearMemory(t)
    PROVE  IInv'
<1>1. /\ pc[t] = "idle" /\ pc'[t] = "wipe" /\ UNCHANGED <<disk, lock, dirty, call, snap>>
      /\ records' = [m \in Macs |-> None]
      /\ heap' = Collect(heap, records', call)
      /\ pc' = [pc EXCEPT ![t] = "wipe"]
  BY DEF ClearMemory, IInv, TypeOK
<1>2. Frame(t)
  <2>1. ASSUME NEW m \in Macs, NEW o \in Objects, Reachable(records', call', m, o)
        PROVE  heap'[m][o] = heap[m][o]
    <3>1. Reachable(records', call, m, o)
      BY <1>1, <2>1
    <3>2. QED
      BY <1>1, <3>1, CollectKeeps
  <2>2. QED
    BY <1>1, <2>1 DEF Frame, IInv, TypeOK
<1>3. LockInv' /\ SnapInv' /\ HistoryInv'
  BY <1>1, <1>2, ThreadsFrame
<1>4. PersistedUnlessPending'
  BY <1>1 DEF PersistedUnlessPending, Converged, IInv, TypeOK
<1>5. NotifiedIsDurable'
  <2> SUFFICES ASSUME NEW u \in Threads, pc'[u] = "fire"
               PROVE  records'[call'[u].mac] # call'[u].obj
    BY DEF NotifiedIsDurable
  <2>1. call'[u] \in Request
    BY DEF TypeOK
  <2>2. QED
    BY <1>1, <2>1, TrackerAssumption DEF Request
<1>6. QED
  BY <1>3, <1>4, <1>5 DEF IInv

LEMMA ClearDiskPreserves ==
    ASSUME IInv, TypeOK', NEW t \in Threads, ClearDisk(t) \/ ClearFail(t)
    PROVE  IInv'
<1>1. /\ pc[t] = "wipe" /\ pc'[t] = "idle" /\ Frame(t) /\ UNCHANGED <<records, lock>>
  BY ReturnFrame DEF ClearDisk, ClearFail, IInv
<1>2. LockInv' /\ SnapInv' /\ HistoryInv'
  BY <1>1, ThreadsFrame
<1>3. ASSUME NEW m \in Macs \ dirty' PROVE records'[m] = None /\ disk'[m] = None
  BY <1>1, <1>3 DEF ClearDisk, ClearFail
<1>4. PersistedUnlessPending'
  BY <1>3 DEF PersistedUnlessPending, Converged
<1>5. NotifiedIsDurable'
  <2> SUFFICES ASSUME NEW u \in Threads, pc'[u] = "fire", call'[u].mac \notin dirty'
               PROVE  records'[call'[u].mac] # call'[u].obj
    BY DEF NotifiedIsDurable
  <2>1. call'[u] \in Request
    BY DEF TypeOK
  <2>2. QED
    BY <1>3, <2>1, TrackerAssumption DEF Request
<1>6. QED
  BY <1>2, <1>4, <1>5 DEF IInv

LEMMA RestartPreserves ==
    ASSUME IInv, TypeOK', Restart
    PROVE  IInv'
<1>1. PICK o \in Objects :
        /\ records' = [m \in Macs |-> IF disk[m] = None THEN None ELSE o]
        /\ heap' = [m \in Macs |-> [p \in Objects |->
             IF p = o /\ disk[m] # None THEN disk[m] ELSE NewRecord]]
  BY DEF Restart
<1>2. \A t \in Threads : pc'[t] = "idle"
  BY DEF Restart
<1>3. LockInv' /\ SnapInv' /\ HistoryInv' /\ NotifiedIsDurable'
  BY <1>2, TrackerAssumption
     DEF Restart, LockInv, SnapInv, HistoryInv, NotifiedIsDurable
<1>4. ASSUME NEW m \in Macs PROVE Converged(m)'
  <2>1. disk'[m] = disk[m]
    BY DEF Restart
  <2>2. CASE disk[m] = None
    BY <1>1, <2>1, <2>2 DEF Converged
  <2>3. CASE disk[m] # None
    BY <1>1, <2>1, <2>3, TrackerAssumption DEF Converged
  <2>4. QED
    BY <2>2, <2>3
<1>5. QED
  BY <1>3, <1>4 DEF IInv, PersistedUnlessPending

(* A step of t that changes fields of the object t holds, and leaves t     *)
(* with that object still to be saved.  The new history has every entry of *)
(* the old one, and the state t is bringing in if t goes on to its save.   *)
LEMMA MutationPreserves ==
    ASSUME IInv, TypeOK', NEW t \in Threads,
           pc[t] \in {"set", "append", "flag"}, pc'[t] \in {"append", "save"},
           UNCHANGED <<records, disk, lock, call, snap, dirty>>,
           \A u \in Threads \ {t} : pc'[u] = pc[u],
           \A m \in Macs, o \in Objects :
             m # call[t].mac \/ o # call[t].obj => heap'[m][o] = heap[m][o],
           \A x : Has(Held(t), x) => Has(Held(t)', x),
           pc'[t] = "save" /\ call[t].to \in ProvisionState => Has(Held(t)', call[t].to)
    PROVE  IInv'
<1>0. call[t] \in Request /\ call[t].mac \in Macs /\ call[t].obj \in Objects
  BY CallType DEF IInv, InCall
<1>1. LockInv'
  BY DEF IInv, LockInv
<1>2. Pending(t, call[t].mac, call[t].obj)'
  BY DEF Pending
<1>3. SnapInv'
  <2> SUFFICES ASSUME NEW w \in Threads, pc'[w] = "write"
               PROVE  \/ snap[w] = Held(w)'
                      \/ \E u \in Threads \ {w} : Pending(u, call[w].mac, call[w].obj)'
    BY DEF SnapInv
  <2>1. w # t /\ pc[w] = "write" /\ call[w].mac \in Macs /\ call[w].obj \in Objects
    BY CallType DEF IInv, InCall
  <2>2. CASE call[w].mac = call[t].mac /\ call[w].obj = call[t].obj
    BY <1>2, <2>1, <2>2
  <2>3. CASE ~(call[w].mac = call[t].mac /\ call[w].obj = call[t].obj)
    <3>1. Held(w)' = Held(w)
      BY <2>1, <2>3 DEF Held
    <3>2. \A u \in Threads : Pending(u, call[w].mac, call[w].obj)
                              => Pending(u, call[w].mac, call[w].obj)'
      BY <2>3 DEF Pending
    <3>3. QED
      BY <2>1, <3>1, <3>2 DEF IInv, SnapInv
  <2>4. QED
    BY <2>2, <2>3
<1>4. HistoryInv'
  <2>1. ASSUME NEW u \in Threads, pc[u] \in InCall, NEW x, Has(Held(u), x)
        PROVE  Has(Held(u)', x)
    <3>1. call[u].mac \in Macs /\ call[u].obj \in Objects
      BY <2>1, CallType DEF IInv
    <3>2. CASE call[u].mac = call[t].mac /\ call[u].obj = call[t].obj
      BY <2>1, <3>2 DEF Held
    <3>3. CASE ~(call[u].mac = call[t].mac /\ call[u].obj = call[t].obj)
      BY <2>1, <3>1, <3>3 DEF Held
    <3>4. QED
      BY <3>2, <3>3
  <2> SUFFICES ASSUME NEW u \in Threads
               PROVE  (/\ pc[u] \in {"save", "write", "fire"} /\ call[u].to \in ProvisionState =>
                            Has(Held(u), call[u].to)
                       /\ pc[u] = "write" /\ call[u].to \in ProvisionState =>
                            Has(snap[u], call[u].to)
                       /\ pc[u] = "fire" =>
                            \A w \in Threads :
                              /\ pc[w] = "write"
                              /\ call[w].mac = call[u].mac
                              /\ call[w].obj = call[u].obj
                              => Has(snap[w], call[u].to))'
    BY DEF HistoryInv
  <2>2. CASE u = t
    BY <2>2 DEF Has, Held
  <2>3. CASE u # t
    <3>1. pc'[u] = pc[u] /\ call'[u] = call[u] /\ snap'[u] = snap[u]
      BY <2>3
    <3>2. \A w \in Threads : pc'[w] = "write" => pc[w] = "write"
      OBVIOUS
    <3>3. pc[u] \in {"save", "write", "fire"} /\ call[u].to \in ProvisionState =>
            Has(Held(u)', call[u].to)
      BY <2>1 DEF IInv, HistoryInv, InCall
    <3>4. QED
      BY <3>1, <3>2, <3>3 DEF IInv, HistoryInv, Has
  <2>4. QED
    BY <2>2, <2>3
<1>5. ASSUME NEW m \in Macs \ dirty' PROVE Converged(m)'
  <2>0. Converged(m)
    BY <1>5 DEF IInv, PersistedUnlessPending
  <2>1. CASE records[m] = None
    BY <2>0, <2>1 DEF Converged
  <2>2. CASE m = call[t].mac /\ records[m] = call[t].obj
    BY <1>0, <1>2, <2>2, TrackerAssumption DEF Converged
  <2>3. CASE records[m] # None /\ ~(m = call[t].mac /\ records[m] = call[t].obj)
    <3>1. records[m] \in Objects
      BY <2>3 DEF IInv, TypeOK
    <3>2. heap'[m][records[m]] = heap[m][records[m]]
      BY <2>3, <3>1
    <3>3. \A u \in Threads : Pending(u, m, records[m]) => Pending(u, m, records[m])'
      BY <2>3 DEF Pending
    <3>4. QED
      BY <2>0, <2>3, <3>2, <3>3 DEF Converged
  <2>4. QED
    BY <2>1, <2>2, <2>3
<1>6. NotifiedIsDurable'
  BY DEF IInv, NotifiedIsDurable
<1>7. QED
  BY <1>1, <1>3, <1>4, <1>5, <1>6 DEF IInv, PersistedUnlessPending

LEMMA AssignStatePreserves ==
    ASSUME IInv, TypeOK', NEW t \in Threads, AssignState(t)
    PROVE  IInv'
<1> DEFINE r == [heap[call[t].mac][call[t].obj] EXCEPT !.state = call[t].to]
<1>1. call[t].mac \in Macs /\ call[t].obj \in Objects
      /\ heap[call[t].mac][call[t].obj] \in Record
  BY CallType DEF IInv, InCall, AssignState
<1>2. r.history = Held(t)
  BY <1>1 DEF Record, Held
<1>3. heap' = [heap EXCEPT ![call[t].mac][call[t].obj] = r] /\ call' = call
  BY DEF AssignState
<1> HIDE DEF r
<1>4. /\ Held(t)' = Held(t)
      /\ \A m \in Macs, o \in Objects :
           m # call[t].mac \/ o # call[t].obj => heap'[m][o] = heap[m][o]
  BY <1>1, <1>2, <1>3 DEF IInv, TypeOK, Held
<1>5. pc[t] = "set" /\ pc'[t] = "append" /\ \A u \in Threads \ {t} : pc'[u] = pc[u]
  BY DEF AssignState, IInv, TypeOK
<1>6. UNCHANGED <<records, disk, lock, call, snap, dirty>>
  BY DEF AssignState
<1>7. QED
  BY <1>4, <1>5, <1>6, MutationPreserves DEF Has

LEMMA AssignNetbootPreserves ==
    ASSUME IInv, TypeOK', NEW t \in Threads, AssignNetboot(t)
    PROVE  IInv'
<1> DEFINE r == [heap[call[t].mac][call[t].obj] EXCEPT !.netboot = (call[t].to = "enable")]
<1>1. call[t].mac \in Macs /\ call[t].obj \in Objects
      /\ heap[call[t].mac][call[t].obj] \in Record
  BY CallType DEF IInv, InCall, AssignNetboot
<1>2. r.history = Held(t)
  BY <1>1 DEF Record, Held
<1>3. heap' = [heap EXCEPT ![call[t].mac][call[t].obj] = r] /\ call' = call
  BY DEF AssignNetboot
<1> HIDE DEF r
<1>4. /\ Held(t)' = Held(t)
      /\ \A m \in Macs, o \in Objects :
           m # call[t].mac \/ o # call[t].obj => heap'[m][o] = heap[m][o]
  BY <1>1, <1>2, <1>3 DEF IInv, TypeOK, Held
<1>5. /\ pc[t] = "flag" /\ pc'[t] = "save" /\ \A u \in Threads \ {t} : pc'[u] = pc[u]
      /\ call[t].to \notin ProvisionState
  BY DEF AssignNetboot, IInv, TypeOK, ProvisionState
<1>6. UNCHANGED <<records, disk, lock, call, snap, dirty>>
  BY DEF AssignNetboot
<1>7. QED
  BY <1>4, <1>5, <1>6, MutationPreserves DEF Has

LEMMA AppendHistoryPreserves ==
    ASSUME IInv, TypeOK', NEW t \in Threads, AppendHistory(t)
    PROVE  IInv'
<1> DEFINE r == Advanced(heap[call[t].mac][call[t].obj], call[t].to)
<1>1. call[t].mac \in Macs /\ call[t].obj \in Objects
      /\ heap[call[t].mac][call[t].obj] \in Record
      /\ Held(t) \in Seq(ProvisionState) /\ call[t].to \in ProvisionState
  BY CallType DEF IInv, TypeOK, InCall, AppendHistory
<1>2. r.history = Append(Held(t), call[t].to)
  BY <1>1, AdvancedUpdates DEF Held
<1>3. heap' = [heap EXCEPT ![call[t].mac][call[t].obj] = r] /\ call' = call
  BY DEF AppendHistory
<1> HIDE DEF r
<1>4. /\ Held(t)' = Append(Held(t), call[t].to)
      /\ \A m \in Macs, o \in Objects :
           m # call[t].mac \/ o # call[t].obj => heap'[m][o] = heap[m][o]
  BY <1>1, <1>2, <1>3 DEF IInv, TypeOK, Held
<1>5. pc[t] = "append" /\ pc'[t] = "save" /\ \A u \in Threads \ {t} : pc'[u] = pc[u]
  BY DEF AppendHistory, IInv, TypeOK
<1>6. UNCHANGED <<records, disk, lock, call, snap, dirty>>
  BY DEF AppendHistory
<1>7. /\ \A x : Has(Held(t), x) => Has(Held(t)', x)
      /\ Has(Held(t)', call[t].to)
  <2>1. /\ \A x : Has(Held(t), x) => Has(Append(Held(t), call[t].to), x)
        /\ Has(Append(Held(t), call[t].to), call[t].to)
    BY <1>1, AppendHas
  <2>2. QED
    BY <1>4, <2>1 DEF Has
<1>8. QED
  BY <1>4, <1>5, <1>6, <1>7, MutationPreserves

(* A new object takes the place of the one the MAC had: it is still to be  *)
(* saved, and no call in progress holds it.                                *)
LEMMA BindNewPreserves ==
    ASSUME IInv, TypeOK', NEW t \in Threads, NEW m \in Macs,
           BindNew(t, m), pc[t] \in {"idle", "ensure"}
    PROVE  IInv'
<1>1. PICK o \in Objects :
        /\ ~Reachable(records, call, m, o)
        /\ records' = [records EXCEPT ![m] = o]
        /\ call' = [call EXCEPT ![t] = [mac |-> m, obj |-> o, to |-> "registered"]]
        /\ heap' = Collect([heap EXCEPT ![m][o] = NewRecord], records', call')
  BY DEF BindNew
<1>2. pc' = [pc EXCEPT ![t] = "save"] /\ UNCHANGED <<disk, lock, snap, dirty>>
  BY DEF BindNew
<1>3. /\ pc'[t] = "save" /\ call'[t] = [mac |-> m, obj |-> o, to |-> "registered"]
      /\ call'[t].mac = m /\ call'[t].obj = o /\ call'[t].to = "registered"
      /\ records'[m] = o
      /\ \A n \in Macs \ {m} : records'[n] = records[n]
      /\ \A u \in Threads \ {t} : pc'[u] = pc[u] /\ call'[u] = call[u] /\ snap'[u] = snap[u]
  BY <1>1, <1>2 DEF IInv, TypeOK
<1> DEFINE bound == [heap EXCEPT ![m][o] = NewRecord]
<1>h. heap' = Collect(bound, records', call')
  BY <1>1
<1>b. /\ bound[m][o] = NewRecord
      /\ \A n \in Macs, p \in Objects : ~(n = m /\ p = o) => bound[n][p] = heap[n][p]
  BY DEF IInv, TypeOK
<1> HIDE DEF bound
<1>4. heap'[m][o] = NewRecord
  <2>1. Reachable(records', call', m, o)
    BY <1>3 DEF Reachable
  <2>2. QED
    BY <1>h, <1>b, <2>1, CollectKeeps
<1>5. Frame(t)
  <2>1. ASSUME NEW n \in Macs, NEW p \in Objects,
               Reachable(records, call, n, p), Reachable(records', call', n, p)
        PROVE  heap'[n][p] = heap[n][p]
    <3>1. ~(n = m /\ p = o)
      BY <1>1, <2>1
    <3>2. QED
      BY <1>h, <1>b, <2>1, <3>1, CollectKeeps
  <2>2. QED
    BY <1>3, <2>1 DEF Frame
<1>6. LockInv' /\ SnapInv' /\ HistoryInv'
  <2>1. Has(NewRecord.history, "registered")
    BY DEF Has, NewRecord
  <2>2. Held(t)' = NewRecord.history
    BY <1>3, <1>4 DEF Held
  <2>3. Has(Held(t)', call'[t].to)
    BY <1>3, <2>1, <2>2
  <2>4. QED
    BY <1>2, <1>3, <1>5, <2>3, ThreadsFrame
<1>7. ASSUME NEW n \in Macs \ dirty' PROVE Converged(n)'
  <2>0. Converged(n)
    BY <1>2, <1>7 DEF IInv, PersistedUnlessPending
  <2>1. CASE n = m
    BY <1>3, <2>1, TrackerAssumption DEF Converged, Pending
  <2>2. CASE n # m /\ records[n] = None
    <3>1. (\E u \in Threads : pc[u] = "wipe") => (\E u \in Threads : pc'[u] = "wipe")
      BY <1>3
    <3>2. QED
      BY <1>2, <1>3, <2>0, <2>2, <3>1 DEF Converged
  <2>3. CASE n # m /\ records[n] # None
    <3>1. \A u \in Threads : Pending(u, n, records[n]) => Pending(u, n, records[n])'
      BY <1>3, <2>3 DEF Pending
    <3>2. records[n] \in Objects /\ records'[n] = records[n]
      BY <1>3, <2>3 DEF IInv, TypeOK
    <3>3. heap'[n][records[n]] = heap[n][records[n]]
      BY <1>5, <3>2 DEF Frame, Reachable
    <3>4. QED
      BY <1>2, <2>0, <2>3, <3>1, <3>2, <3>3 DEF Converged
  <2>4. QED
    BY <2>1, <2>2, <2>3
<1>8. NotifiedIsDurable'
  <2> SUFFICES ASSUME NEW u \in Threads, pc'[u] = "fire",
                      call'[u].mac \notin dirty', records'[call'[u].mac] = call'[u].obj
               PROVE  /\ disk'[call'[u].mac] # None
                      /\ \E i \in DOMAIN disk'[call'[u].mac].history :
                            disk'[call'[u].mac].history[i] = call'[u].to
    BY DEF NotifiedIsDurable
  <2>1. u # t /\ pc[u] = "fire" /\ call'[u] = call[u]
    BY <1>3
  <2>2. call[u] \in Request /\ call[u].mac \in Macs
    BY <2>1, CallType DEF IInv, InCall
  <2>3. call[u].mac # m
    BY <1>1, <1>3, <2>1, <2>2 DEF Reachable
  <2>4. QED
    BY <1>2, <1>3, <2>1, <2>2, <2>3 DEF IInv, NotifiedIsDurable
<1>9. QED
  BY <1>6, <1>7, <1>8 DEF IInv, PersistedUnlessPending

LEMMA SaveBeginPreserves ==
    ASSUME IInv, TypeOK', NEW t \in Threads, SaveBegin(t)
    PROVE  IInv'
<1>1. /\ pc[t] = "save" /\ lock = None /\ lock' = t
      /\ pc' = [pc EXCEPT ![t] = "write"]
      /\ snap' = [snap EXCEPT ![t] = Held(t)]
      /\ UNCHANGED <<records, heap, disk, call, dirty>>
  BY DEF SaveBegin, Held
<1>2. /\ pc'[t] = "write" /\ snap'[t] = Held(t)
      /\ \A u \in Threads \ {t} : pc'[u] = pc[u] /\ snap'[u] = snap[u]
      /\ \A u \in Threads : Held(u)' = Held(u)
  BY <1>1 DEF IInv, TypeOK, Held
<1>3. \A u \in Threads : pc[u] # "write"
  BY <1>1, TrackerAssumption DEF IInv, LockInv
<1>4. LockInv' /\ SnapInv'
  BY <1>1, <1>2, <1>3 DEF LockInv, SnapInv
<1>5. HistoryInv'
  <2> SUFFICES ASSUME NEW u \in Threads
               PROVE  (/\ pc[u] \in {"save", "write", "fire"} /\ call[u].to \in ProvisionState =>
                            Has(Held(u), call[u].to)
                       /\ pc[u] = "write" /\ call[u].to \in ProvisionState =>
                            Has(snap[u], call[u].to)
                       /\ pc[u] = "fire" =>
                            \A w \in Threads :
                              /\ pc[w] = "write"
                              /\ call[w].mac = call[u].mac
                              /\ call[w].obj = call[u].obj
                              => Has(snap[w], call[u].to))'
    BY DEF HistoryInv
  <2>1. pc[u] \in {"save", "write", "fire"} /\ call[u].to \in ProvisionState =>
          Has(Held(u), call[u].to)
    BY DEF IInv, HistoryInv
  <2>2. pc'[u] \in {"save", "write", "fire"} => pc[u] \in {"save", "write", "fire"}
    BY <1>1, <1>2
  <2>3. pc[u] = "fire" => call[u].to \in ProvisionState
    BY DEF IInv, TypeOK
  <2>4. ASSUME NEW w \in Threads, pc'[w] = "write" PROVE w = t
    BY <1>2, <1>3, <2>4
  <2>5. ASSUME call[t].mac = call[u].mac, call[t].obj = call[u].obj
        PROVE  Held(t) = Held(u)
    BY <2>5 DEF Held
  <2>6. pc'[u] = "fire" => pc[u] = "fire"
    BY <1>2
  <2>7. (pc[u] \in {"save", "write", "fire"} /\ call[u].to \in ProvisionState =>
           Has(Held(u), call[u].to))'
    BY <1>1, <1>2, <2>1, <2>2 DEF Has
  <2>8. (pc[u] = "write" /\ call[u].to \in ProvisionState => Has(snap[u], call[u].to))'
    BY <1>1, <1>2, <2>1, <2>4 DEF Has
  <2>9. ASSUME pc'[u] = "fire", NEW w \in Threads, pc'[w] = "write",
               call'[w].mac = call'[u].mac, call'[w].obj = call'[u].obj
        PROVE  Has(snap'[w], call'[u].to)
    BY <1>1, <1>2, <2>1, <2>3, <2>4, <2>5, <2>6, <2>9
  <2>10. QED
    BY <2>7, <2>8, <2>9 DEF Has
<1>6. PersistedUnlessPending'
  <2>1. \A m \in Macs, o \in Objects, u \in Threads :
          Pending(u, m, o) => Pending(u, m, o)'
    BY <1>1, <1>2 DEF Pending
  <2>2. \A u \in Threads : pc[u] = "wipe" => pc'[u] = "wipe"
    BY <1>1, <1>2
  <2>3. ASSUME NEW m \in Macs \ dirty' PROVE Converged(m)'
    <3>1. Converged(m)
      BY <1>1 DEF IInv, PersistedUnlessPending
    <3>2. CASE records[m] = None
      BY <1>1, <2>2, <3>1, <3>2 DEF Converged
    <3>3. CASE records[m] # None
      BY <1>1, <2>1, <3>1, <3>3 DEF Converged, IInv, TypeOK
    <3>4. QED
      BY <3>2, <3>3
  <2>4. QED
    BY <2>3 DEF PersistedUnlessPending
<1>7. NotifiedIsDurable'
  <2>1. \A u \in Threads : pc'[u] = "fire" => pc[u] = "fire"
    BY <1>2
  <2>2. QED
    BY <1>1, <2>1 DEF IInv, NotifiedIsDurable
<1>8. QED
  BY <1>4, <1>5, <1>6, <1>7 DEF IInv

(* A save of t ends: what is true of the other threads and MACs whatever   *)
(* the table's transaction did.                                            *)
LEMMA SaveEnds ==
    ASSUME IInv, TypeOK', NEW t \in Threads, Frame(t), UNCHANGED records,
           pc[t] = "write", lock' = None,
           pc'[t] = "idle" \/ (pc'[t] = "fire" /\ call'[t] = call[t]),
           \A n \in Macs \ {call[t].mac} : disk'[n] = disk[n],
           \A n \in Macs \ {call[t].mac} : n \in dirty => n \in dirty'
    PROVE  /\ LockInv' /\ SnapInv' /\ HistoryInv'
           /\ \A n \in Macs \ dirty' : n # call[t].mac => Converged(n)'
           /\ \A u \in Threads :
                /\ pc'[u] = "fire"
                /\ call'[u].mac \notin dirty'
                /\ call'[u].mac # call[t].mac
                /\ records'[call'[u].mac] = call'[u].obj
                => /\ disk'[call'[u].mac] # None
                   /\ \E i \in DOMAIN disk'[call'[u].mac].history :
                         disk'[call'[u].mac].history[i] = call'[u].to
<1>1. /\ \A u \in Threads \ {t} : pc[u] # "write"
      /\ \A u \in Threads : pc'[u] # "write"
  <2>1. lock = t
    BY DEF IInv, LockInv
  <2>2. \A u \in Threads \ {t} : pc[u] # "write"
    BY <2>1 DEF IInv, LockInv
  <2>3. QED
    BY <2>2 DEF Frame
<1>2. LockInv' /\ SnapInv'
  BY <1>1, TrackerAssumption DEF LockInv, SnapInv
<1>3. ASSUME NEW u \in Threads, pc'[u] \in InCall
      PROVE  pc[u] \in InCall /\ call'[u] = call[u] /\ Held(u)' = Held(u)
             /\ call[u] \in Request /\ call[u].mac \in Macs
  <2>1. pc[u] \in InCall /\ call'[u] = call[u]
    BY <1>3 DEF Frame, InCall
  <2>2. /\ call[u] \in Request /\ call[u].mac \in Macs /\ call[u].obj \in Objects
        /\ Reachable(records, call, call[u].mac, call[u].obj)
    BY <2>1, CallType DEF IInv
  <2>3. Reachable(records', call', call[u].mac, call[u].obj)
    BY <2>1, <2>2 DEF Reachable
  <2>4. QED
    BY <2>1, <2>2, <2>3 DEF Frame, Held
<1>4. HistoryInv'
  <2>1. ASSUME NEW u \in Threads, pc'[u] \in {"save", "write", "fire"},
               call'[u].to \in ProvisionState
        PROVE  Has(Held(u)', call'[u].to)
    <3>1. pc[u] \in {"save", "write", "fire"} /\ call'[u] = call[u] /\ Held(u)' = Held(u)
      BY <1>3, <2>1 DEF Frame, InCall
    <3>2. Has(Held(u), call[u].to)
      BY <2>1, <3>1 DEF IInv, HistoryInv
    <3>3. QED
      BY <3>1, <3>2
  <2>2. QED
    BY <1>1, <2>1 DEF HistoryInv, Has
<1>5. ASSUME NEW n \in Macs \ dirty', n # call[t].mac PROVE Converged(n)'
  <2>0. Converged(n) /\ disk'[n] = disk[n]
    BY <1>5 DEF IInv, PersistedUnlessPending
  <2>1. CASE records[n] = None
    <3>1. (\E u \in Threads : pc[u] = "wipe") => (\E u \in Threads : pc'[u] = "wipe")
      BY DEF Frame
    <3>2. QED
      BY <2>0, <2>1, <3>1 DEF Converged
  <2>2. CASE records[n] # None
    <3>1. \A u \in Threads : Pending(u, n, records[n]) => Pending(u, n, records[n])'
      BY <1>5 DEF Pending, Frame
    <3>2. records[n] \in Objects
      BY <2>2 DEF IInv, TypeOK
    <3>3. heap'[n][records[n]] = heap[n][records[n]]
      BY <3>2 DEF Frame, Reachable
    <3>4. QED
      BY <2>0, <2>2, <3>1, <3>3 DEF Converged
  <2>3. QED
    BY <2>1, <2>2
<1>6. ASSUME NEW u \in Threads, pc'[u] = "fire", call'[u].mac \notin dirty',
             call'[u].mac # call[t].mac, records'[call'[u].mac] = call'[u].obj
      PROVE  /\ disk'[call'[u].mac] # None
             /\ \E i \in DOMAIN disk'[call'[u].mac].history :
                   disk'[call'[u].mac].history[i] = call'[u].to
  <2>1. call'[u] = call[u] /\ call[u].mac \in Macs
    BY <1>3, <1>6 DEF InCall
  <2>2. u # t
    BY <1>6, <2>1
  <2>3. pc[u] = "fire"
    BY <1>6, <2>2 DEF Frame
  <2>4. QED
    BY <1>6, <2>1, <2>3 DEF IInv, NotifiedIsDurable
<1>7. QED
  BY <1>2, <1>4, <1>5, <1>6

LEMMA SaveFailPreserves ==
    ASSUME IInv, TypeOK', NEW t \in Threads, SaveFail(t)
    PROVE  IInv'
<1>1. /\ pc[t] = "write" /\ pc'[t] = "idle" /\ Frame(t) /\ lock' = None
      /\ UNCHANGED <<records, disk>>
      /\ dirty' = dirty \cup {call[t].mac}
  BY ReturnFrame DEF SaveFail, IInv
<1>2. /\ LockInv' /\ SnapInv' /\ HistoryInv'
      /\ \A n \in Macs \ dirty' : n # call[t].mac => Converged(n)'
      /\ \A u \in Threads :
           /\ pc'[u] = "fire"
           /\ call'[u].mac \notin dirty'
           /\ call'[u].mac # call[t].mac
           /\ records'[call'[u].mac] = call'[u].obj
           => /\ disk'[call'[u].mac] # None
              /\ \E i \in DOMAIN disk'[call'[u].mac].history :
                    disk'[call'[u].mac].history[i] = call'[u].to
  BY <1>1, SaveEnds
<1>3. PersistedUnlessPending' /\ NotifiedIsDurable'
  BY <1>1, <1>2 DEF PersistedUnlessPending, NotifiedIsDurable
<1>4. QED
  BY <1>2, <1>3 DEF IInv

LEMMA SaveCommitPreserves ==
    ASSUME IInv, TypeOK', NEW t \in Threads, SaveCommit(t)
    PROVE  IInv'
<1>a. PICK m \in Macs, o \in Objects : m = call[t].mac /\ o = call[t].obj
  BY CallType DEF IInv, InCall, SaveCommit
<1> DEFINE row == Row(heap[m][o], snap[t])
<1>0. /\ call[t] \in Request /\ o # None
      /\ heap[m][o] \in Record /\ snap[t] \in Seq(ProvisionState)
      /\ Reachable(records, call, m, o)
  BY <1>a, CallType DEF IInv, TypeOK, InCall, SaveCommit
<1>1. /\ row \in Record
      /\ row.history = snap[t]
      /\ snap[t] = Held(t) => row = heap[m][o]
  BY <1>a, <1>0, RowUpdates DEF Held
<1> HIDE DEF row
<1>2. /\ pc[t] = "write" /\ lock' = None /\ UNCHANGED records
      /\ disk' = [disk EXCEPT ![m] = row]
      /\ dirty' = IF records[m] = o THEN dirty \ {m} ELSE dirty \cup {m}
  BY <1>a DEF SaveCommit, row
<1>3. /\ Frame(t)
      /\ pc'[t] = "idle" \/ (pc'[t] = "fire" /\ call'[t] = call[t]
                              /\ call[t].to \in ProvisionState)
  <2>1. CASE call[t].to \in {"enable", "disable"}
    BY <1>2, <2>1, ReturnFrame DEF SaveCommit, IInv
  <2>2. CASE call[t].to \notin {"enable", "disable"}
    BY <1>0, <2>2 DEF SaveCommit, Frame, IInv, TypeOK, Request
  <2>3. QED
    BY <2>1, <2>2
<1>4. disk'[m] = row /\ \A n \in Macs \ {m} : disk'[n] = disk[n]
  BY <1>0, <1>2 DEF IInv, TypeOK
<1>5. /\ LockInv' /\ SnapInv' /\ HistoryInv'
      /\ \A n \in Macs \ dirty' : n # m => Converged(n)'
      /\ \A u \in Threads :
           /\ pc'[u] = "fire"
           /\ call'[u].mac \notin dirty'
           /\ call'[u].mac # m
           /\ records'[call'[u].mac] = call'[u].obj
           => /\ disk'[call'[u].mac] # None
              /\ \E i \in DOMAIN disk'[call'[u].mac].history :
                    disk'[call'[u].mac].history[i] = call'[u].to
  BY <1>a, <1>2, <1>3, <1>4, SaveEnds
<1>6. ASSUME m \notin dirty' PROVE Converged(m)'
  <2>1. records[m] = o /\ records'[m] = o
    BY <1>2, <1>6
  <2>2. ASSUME \A u \in Threads : ~Pending(u, m, o)'
        PROVE  disk'[m] = heap'[m][o]
    <3>1. \A u \in Threads \ {t} : ~Pending(u, m, o)
      BY <1>3, <2>2 DEF Pending, Frame
    <3>2. snap[t] = Held(t)
      BY <1>a, <1>2, <3>1 DEF IInv, SnapInv
    <3>3. heap'[m][o] = heap[m][o]
      BY <1>0, <1>3, <2>1 DEF Frame, Reachable
    <3>4. QED
      BY <1>1, <1>4, <3>2, <3>3
  <2>3. QED
    BY <1>0, <2>1, <2>2 DEF Converged
<1>7. ASSUME NEW u \in Threads, pc'[u] = "fire", call'[u].mac = m, m \notin dirty',
             records'[m] = call'[u].obj
      PROVE  Has(row.history, call'[u].to)
  <2>1. call'[u].obj = o
    BY <1>2, <1>7
  <2>2. CASE u = t
    BY <1>a, <1>1, <1>2, <1>3, <1>7, <2>2 DEF IInv, HistoryInv
  <2>3. CASE u # t
    <3>1. pc[u] = "fire" /\ call'[u] = call[u]
      BY <1>3, <1>7, <2>3 DEF Frame
    <3>2. QED
      BY <1>a, <1>1, <1>2, <1>7, <2>1, <3>1 DEF IInv, HistoryInv
  <2>4. QED
    BY <2>2, <2>3
<1>8. PersistedUnlessPending'
  BY <1>5, <1>6 DEF PersistedUnlessPending
<1>9. NotifiedIsDurable'
  <2>1. row # None
    BY <1>1, TrackerAssumption
  <2>2. QED
    BY <1>4, <1>5, <1>7, <2>1 DEF NotifiedIsDurable, Has
<1>10. QED
  BY <1>5, <1>8, <1>9 DEF IInv

-----------------------------------------------------------------------------
LEMMA NextPreserves == IInv /\ [Next]_vars => IInv'
<1> SUFFICES ASSUME IInv, [Next]_vars PROVE IInv'
  OBVIOUS
<1>0. TypeOK'
  BY TypeNext DEF IInv
<1>1. ASSUME NEW t \in Threads, NEW m \in Macs, Register(t, m) PROVE IInv'
  BY <1>0, <1>1, BindNewPreserves DEF Register
<1>2. ASSUME NEW t \in Threads, NEW m \in Macs, EnsureCheck(t, m) PROVE IInv'
  BY <1>0, <1>2, EnsureCheckPreserves
<1>3. ASSUME NEW t \in Threads, NEW m \in Macs, NEW s \in Targets, Transition(t, m, s)
      PROVE  IInv'
  BY <1>0, <1>3, LookupPreserves DEF Transition
<1>4. ASSUME NEW t \in Threads, NEW m \in Macs, NEW to \in {"enable", "disable"},
             SetNetboot(t, m, to)
      PROVE  IInv'
  BY <1>0, <1>4, LookupPreserves DEF SetNetboot
<1>5. ASSUME NEW t \in Threads, EnsureRegister(t) PROVE IInv'
  <2>1. call[t] \in Macs /\ pc[t] = "ensure" /\ BindNew(t, call[t])
    BY <1>5 DEF EnsureRegister, IInv, TypeOK
  <2>2. QED
    BY <1>0, <2>1, BindNewPreserves
<1>6. ASSUME NEW t \in Threads, AssignState(t) PROVE IInv'
  BY <1>0, <1>6, AssignStatePreserves
<1>7. ASSUME NEW t \in Threads, AppendHistory(t) PROVE IInv'
  BY <1>0, <1>7, AppendHistoryPreserves
<1>8. ASSUME NEW t \in Threads, AssignNetboot(t) PROVE IInv'
  BY <1>0, <1>8, AssignNetbootPreserves
<1>9. ASSUME NEW t \in Threads, SaveBegin(t) PROVE IInv'
  BY <1>0, <1>9, SaveBeginPreserves
<1>10. ASSUME NEW t \in Threads, SaveCommit(t) PROVE IInv'
  BY <1>0, <1>10, SaveCommitPreserves
<1>11. ASSUME NEW t \in Threads, SaveFail(t) PROVE IInv'
  BY <1>0, <1>11, SaveFailPreserves
<1>12. ASSUME NEW t \in Threads, FireCallbacks(t) PROVE IInv'
  BY <1>0, <1>12, FirePreserves
<1>13. ASSUME NEW t \in Threads, ClearMemory(t) PROVE IInv'
  BY <1>0, <1>13, ClearMemoryPreserves
<1>14. ASSUME NEW t \in Threads, ClearDisk(t) \/ ClearFail(t) PROVE IInv'
  BY <1>0, <1>14, ClearDiskPreserves
<1>15. CASE Restart
  BY <1>0, <1>15, RestartPreserves
<1>16. CASE UNCHANGED vars
  <2>1. /\ TypeOK' /\ LockInv' /\ SnapInv' /\ HistoryInv'
        /\ PersistedUnlessPending' /\ NotifiedIsDurable'
    BY <1>0, <1>16 DEF IInv, vars, LockInv, SnapInv, HistoryInv, Has, Held, Pending,
       PersistedUnlessPending, Converged, NotifiedIsDurable
  <2>2. QED
    BY <2>1 DEF IInv
<1>17. QED
  BY <1>1, <1>2, <1>3, <1>4, <1>5, <1>6, <1>7, <1>8, <1>9, <1>10, <1>11, <1>12,
     <1>13, <1>14, <1>15, <1>16 DEF Next

LEMMA SpecInvariant == Spec => []IInv
BY TrackerInit, NextPreserves, PTL DEF Spec

(* Whatever the threads do, the tracker's maps, objects and rows keep the  *)
(* shapes the code relies on: a call in progress always holds an object of *)
(* its MAC (state.py:80-141).                                              *)
THEOREM TrackerTypeCorrect == Spec => []TypeOK
<1>1. IInv => TypeOK
  BY DEF IInv
<1>2. QED
  BY <1>1, SpecInvariant, PTL

(* Saving after every change persists every change (state.py:61, 99, 123,  *)
(* 157, 169; db.py save): a MAC no call has still to save, and no failed   *)
(* or stale save has touched, has its record in the table.                 *)
THEOREM TrackerPersisted == Spec => []PersistedUnlessPending
<1>1. IInv => PersistedUnlessPending
  BY DEF IInv
<1>2. QED
  BY <1>1, SpecInvariant, PTL

(* Callbacks run only for transitions the table already holds              *)
(* (state.py:122-124).                                                     *)
THEOREM TrackerNotifiedDurable == Spec => []NotifiedIsDurable
<1>1. IInv => NotifiedIsDurable
  BY DEF IInv
<1>2. QED
  BY <1>1, SpecInvariant, PTL

-----------------------------------------------------------------------------
(***************************************************************************)
(* state and history are written in two steps.  A transition between them  *)
(* has assigned the state and owes the history its entry; once it has paid *)
(* the entry is there, and behind it there is room only for the entries    *)
(* other threads owed when the state was assigned: one each, for a thread  *)
(* that wants to append again has to assign the state first.               *)
(***************************************************************************)
Appending(m, o) ==
    {t \in Threads : pc[t] = "append" /\ call[t].mac = m /\ call[t].obj = o}

Wanted(m, o) == {call[t].to : t \in Appending(m, o)}

(* A record whose state is still owed to its history, or stands in it with *)
(* room for k more entries of other threads behind it.                     *)
Written(r, k) ==
    \E i \in 1..Len(r.history) :
      /\ r.history[i] = r.state
      /\ Len(r.history) - i + k < Cardinality(Threads)

Recent(m, o) ==
    \/ heap[m][o].state \in Wanted(m, o)
    \/ Written(heap[m][o], Cardinality(Appending(m, o)))

RecentInv == crashes = 0 => \A m \in Macs, o \in Objects : Recent(m, o)

-----------------------------------------------------------------------------
LEMMA AppendingFinite ==
    ASSUME NEW m, NEW o
    PROVE  /\ IsFiniteSet(Appending(m, o))
           /\ Cardinality(Appending(m, o)) \in Nat
           /\ Cardinality(Threads) \in Nat /\ Cardinality(Threads) > 0
<1>1. Appending(m, o) \subseteq Threads
  BY DEF Appending
<1>2. IsFiniteSet(Appending(m, o))
  BY <1>1, ThreadsAssumption, FS_Subset
<1>3. Cardinality(Appending(m, o)) \in Nat /\ Cardinality(Threads) \in Nat
  BY <1>2, ThreadsAssumption, FS_CardinalityType
<1>4. Cardinality(Threads) # 0
  BY ThreadsAssumption, FS_EmptySet
<1>5. QED
  BY <1>2, <1>3, <1>4

LEMMA NewIsWritten == Written(NewRecord, 0)
<1>1. Len(<<"registered">>) = 1 /\ <<"registered">>[1] = "registered"
  OBVIOUS
<1>2. Cardinality(Threads) \in Nat /\ Cardinality(Threads) > 0
  BY AppendingFinite
<1>3. QED
  BY <1>1, <1>2 DEF Written, NewRecord

LEMMA RecentInit == Init => RecentInv
<1> SUFFICES ASSUME Init, NEW m \in Macs, NEW o \in Objects PROVE Recent(m, o)
  BY DEF RecentInv
<1>1. heap[m][o] = NewRecord
  BY DEF Init
<1>2. Appending(m, o) = {}
  BY DEF Init, Appending
<1>3. Cardinality(Appending(m, o)) = 0
  BY <1>2, FS_EmptySet
<1>4. QED
  BY <1>1, <1>3, NewIsWritten DEF Recent

(* A step that keeps who is between the two writes, and the record, unless *)
(* nobody is and it is a new one.                                          *)
RecordKept(m, o) ==
    \/ heap'[m][o].state = heap[m][o].state /\ heap'[m][o].history = heap[m][o].history
    \/ heap'[m][o] = NewRecord /\ Appending(m, o) = {}

NobodyAppends ==
    \A t \in Threads :
      /\ pc'[t] = "append" <=> pc[t] = "append"
      /\ pc[t] = "append" => call'[t] = call[t]

LEMMA RecentFrame ==
    ASSUME RecentInv, UNCHANGED crashes, NobodyAppends,
           \A m \in Macs, o \in Objects : RecordKept(m, o)
    PROVE  RecentInv'
<1> SUFFICES ASSUME crashes = 0, NEW m \in Macs, NEW o \in Objects PROVE Recent(m, o)'
  BY DEF RecentInv
<1>1. Appending(m, o)' = Appending(m, o) /\ Wanted(m, o)' = Wanted(m, o)
  BY DEF Appending, Wanted, NobodyAppends
<1>2. CASE heap'[m][o].state = heap[m][o].state /\ heap'[m][o].history = heap[m][o].history
  <2>1. Recent(m, o)
    BY DEF RecentInv
  <2>2. QED
    BY <1>1, <1>2, <2>1 DEF Recent, Written
<1>3. CASE heap'[m][o] = NewRecord /\ Appending(m, o) = {}
  <2>1. Cardinality(Appending(m, o)') = 0
    BY <1>1, <1>3, FS_EmptySet
  <2>2. QED
    BY <1>3, <2>1, NewIsWritten DEF Recent, Written
<1>4. QED
  BY <1>2, <1>3 DEF RecordKept

(* What Python reclaims is no object of a call. *)
LEMMA CollectedKept ==
    ASSUME TypeOK, NobodyAppends, NEW h, NEW recs,
           NEW m \in Macs, NEW o \in Objects,
           heap' = Collect(h, recs, call'), h[m][o] = heap[m][o]
    PROVE  RecordKept(m, o)
<1>1. CASE Reachable(recs, call', m, o)
  <2>1. heap'[m][o] = h[m][o]
    BY <1>1, CollectKeeps
  <2>2. QED
    BY <2>1 DEF RecordKept
<1>2. CASE ~Reachable(recs, call', m, o)
  <2>1. heap'[m][o] = NewRecord
    BY <1>2 DEF Collect
  <2>2. ASSUME NEW t \in Appending(m, o) PROVE FALSE
    <3>1. t \in Threads /\ pc[t] = "append" /\ call[t].mac = m /\ call[t].obj = o
      BY <2>2 DEF Appending
    <3>2. call[t] \in Request
      BY <3>1, CallType DEF InCall
    <3>3. call'[t] = call[t]
      BY <3>1 DEF NobodyAppends
    <3>4. QED
      BY <1>2, <3>1, <3>2, <3>3 DEF Reachable
  <2>3. QED
    BY <2>1, <2>2 DEF RecordKept
<1>3. QED
  BY <1>1, <1>2

(* Thread t moves between steps other than the append. *)
LEMMA OthersAppend ==
    ASSUME TypeOK, NEW t \in Threads, NEW p \in Steps \ {"append"}, NEW c,
           pc[t] # "append", pc' = [pc EXCEPT ![t] = p],
           call' = [call EXCEPT ![t] = c]
    PROVE  NobodyAppends
BY DEF TypeOK, NobodyAppends

LEMMA ReturnRecent ==
    ASSUME TypeOK, RecentInv, NEW t \in Threads, pc[t] # "append", Return(t),
           UNCHANGED crashes
    PROVE  RecentInv'
<1>1. NobodyAppends
  BY OthersAppend DEF Return, Steps
<1>2. \A m \in Macs, o \in Objects : RecordKept(m, o)
  BY <1>1, CollectedKept DEF Return
<1>3. QED
  BY <1>1, <1>2, RecentFrame

(* A step of t that leaves the objects alone. *)
LEMMA QuietRecent ==
    ASSUME TypeOK, RecentInv, NEW t \in Threads, NEW p \in Steps \ {"append"}, NEW c,
           pc[t] # "append", pc' = [pc EXCEPT ![t] = p],
           call' = [call EXCEPT ![t] = c], UNCHANGED <<heap, crashes>>
    PROVE  RecentInv'
<1>1. NobodyAppends
  BY OthersAppend
<1>2. QED
  BY <1>1, RecentFrame DEF RecordKept

LEMMA BindNewRecent ==
    ASSUME TypeOK, RecentInv, NEW t \in Threads, NEW m \in Macs, BindNew(t, m),
           pc[t] # "append"
    PROVE  RecentInv'
<1>1. PICK o \in Objects :
        /\ ~Reachable(records, call, m, o)
        /\ call' = [call EXCEPT ![t] = [mac |-> m, obj |-> o, to |-> "registered"]]
        /\ heap' = Collect([heap EXCEPT ![m][o] = NewRecord], records', call')
        /\ pc' = [pc EXCEPT ![t] = "save"]
        /\ UNCHANGED crashes
  BY DEF BindNew
<1> DEFINE h == [heap EXCEPT ![m][o] = NewRecord]
<1>2. NobodyAppends
  BY <1>1, OthersAppend DEF Steps
<1>3. ASSUME NEW n \in Macs, NEW x \in Objects, n # m \/ x # o PROVE RecordKept(n, x)
  <2>1. h[n][x] = heap[n][x]
    BY <1>3 DEF TypeOK
  <2>2. heap' = Collect(h, records', call')
    BY <1>1
  <2> HIDE DEF h
  <2>3. QED
    BY <1>2, <2>1, <2>2, CollectedKept
<1>4. RecordKept(m, o)
  <2>1. h[m][o] = NewRecord
    BY DEF TypeOK
  <2>2. heap'[m][o] = NewRecord
    BY <1>1, <2>1 DEF Collect
  <2>3. ASSUME NEW u \in Appending(m, o) PROVE FALSE
    <3>1. u \in Threads /\ pc[u] = "append" /\ call[u].mac = m /\ call[u].obj = o
      BY <2>3 DEF Appending
    <3>2. call[u] \in Request
      BY <3>1, CallType DEF InCall
    <3>3. QED
      BY <1>1, <3>1, <3>2 DEF Reachable
  <2>4. QED
    BY <2>2, <2>3 DEF RecordKept
<1>5. \A n \in Macs, x \in Objects : RecordKept(n, x)
  BY <1>3, <1>4
<1>6. QED
  BY <1>1, <1>2, <1>5, RecentFrame

(* The state is assigned, and owed to the history. *)
LEMMA AssignStateRecent ==
    ASSUME TypeOK, RecentInv, NEW t \in Threads, AssignState(t)
    PROVE  RecentInv'
<1>1. /\ pc[t] = "set"
      /\ heap' = [heap EXCEPT ![call[t].mac][call[t].obj].state = call[t].to]
      /\ pc' = [pc EXCEPT ![t] = "append"]
      /\ UNCHANGED <<call, crashes>>
  BY DEF AssignState
<1>2. call[t].mac \in Macs /\ call[t].obj \in Objects
  BY <1>1, CallType DEF InCall
<1> SUFFICES ASSUME crashes = 0, NEW m \in Macs, NEW o \in Objects PROVE Recent(m, o)'
  BY <1>1 DEF RecentInv
<1>3. CASE m = call[t].mac /\ o = call[t].obj
  <2>1. heap'[m][o].state = call[t].to
    BY <1>1, <1>2, <1>3 DEF TypeOK, Record
  <2>2. t \in Appending(m, o)'
    BY <1>1, <1>3 DEF Appending, TypeOK
  <2>3. call[t].to \in Wanted(m, o)'
    BY <1>1, <2>2 DEF Wanted
  <2>4. QED
    BY <2>1, <2>3 DEF Recent
<1>4. CASE ~(m = call[t].mac /\ o = call[t].obj)
  <2>1. heap'[m][o] = heap[m][o]
    BY <1>1, <1>2, <1>4 DEF TypeOK
  <2>2. Appending(m, o)' = Appending(m, o)
    BY <1>1, <1>4 DEF Appending, TypeOK
  <2>3. Wanted(m, o)' = Wanted(m, o)
    BY <1>1, <2>2 DEF Wanted
  <2>4. Recent(m, o)
    BY DEF RecentInv
  <2>5. QED
    BY <2>1, <2>2, <2>3, <2>4 DEF Recent, Written
<1>5. QED
  BY <1>3, <1>4

(* One more entry: it is the state's, or it takes the room of a thread     *)
(* that owed one.                                                          *)
LEMMA AppendWritten ==
    ASSUME NEW r \in Record, NEW s \in ProvisionState, NEW k \in Nat, NEW j \in Nat,
           NEW x \in Record,
           x.state = r.state, x.history = Append(r.history, s),
           \/ s = r.state /\ j < Cardinality(Threads)
           \/ Written(r, k) /\ j = k - 1
    PROVE  Written(x, j)
<1>1. r.history \in Seq(ProvisionState)
  BY DEF Record
<1>2. /\ Len(x.history) = Len(r.history) + 1
      /\ Len(r.history) \in Nat
      /\ x.history[Len(r.history) + 1] = s
      /\ \A i \in 1..Len(r.history) : x.history[i] = r.history[i]
  BY <1>1
<1>3. Cardinality(Threads) \in Nat
  BY AppendingFinite
<1>4. CASE s = r.state /\ j < Cardinality(Threads)
  BY <1>2, <1>3, <1>4 DEF Written
<1>5. CASE Written(r, k) /\ j = k - 1
  <2>1. PICK i \in 1..Len(r.history) :
          r.history[i] = r.state /\ Len(r.history) - i + k < Cardinality(Threads)
    BY <1>5 DEF Written
  <2>2. i \in 1..Len(x.history) /\ x.history[i] = x.state
    BY <1>2, <2>1
  <2>3. Len(x.history) - i + j < Cardinality(Threads)
    BY <1>2, <1>3, <1>5, <2>1
  <2>4. QED
    BY <2>2, <2>3 DEF Written
<1>6. QED
  BY <1>4, <1>5

LEMMA AppendHistoryRecent ==
    ASSUME TypeOK, RecentInv, NEW t \in Threads, AppendHistory(t)
    PROVE  RecentInv'
<1>1. /\ pc[t] = "append"
      /\ heap' = [heap EXCEPT ![call[t].mac][call[t].obj] = Advanced(@, call[t].to)]
      /\ pc' = [pc EXCEPT ![t] = "save"]
      /\ UNCHANGED <<call, crashes>>
  BY DEF AppendHistory
<1>2. call[t].mac \in Macs /\ call[t].obj \in Objects /\ call[t].to \in ProvisionState
  BY <1>1, CallType DEF InCall, TypeOK
<1> SUFFICES ASSUME crashes = 0, NEW m \in Macs, NEW o \in Objects PROVE Recent(m, o)'
  BY <1>1 DEF RecentInv
<1>3. CASE m = call[t].mac /\ o = call[t].obj
  <2> DEFINE r == heap[m][o]
             x == heap'[m][o]
             s == call[t].to
             owed == Appending(m, o)
             k == Cardinality(owed)
  <2>1. x = Advanced(r, s) /\ r \in Record
    BY <1>1, <1>2, <1>3 DEF TypeOK
  <2>2. x \in Record /\ x.state = r.state /\ x.history = Append(r.history, s)
    <3>1. x \in Record /\ x.history = Append(r.history, s)
      BY <1>2, <2>1, AdvancedUpdates
    <3>2. x.state = r.state
      BY <2>1 DEF Advanced, Record
    <3>3. QED
      BY <3>1, <3>2
  <2>3. Appending(m, o)' = owed \ {t} /\ t \in owed
    BY <1>1, <1>3 DEF Appending, TypeOK
  <2>4. k \in Nat /\ IsFiniteSet(owed) /\ owed \subseteq Threads
    <3>1. owed \subseteq Threads
      BY DEF Appending
    <3>2. QED
      BY <3>1, AppendingFinite
  <2> DEFINE j == Cardinality(owed \ {t})
  <2>5. j = k - 1 /\ j \in Nat
    BY <2>3, <2>4, FS_RemoveElement, FS_CardinalityType
  <2>6. k <= Cardinality(Threads) /\ Cardinality(Threads) \in Nat
    BY <2>4, ThreadsAssumption, FS_Subset, FS_CardinalityType
  <2>7. Cardinality(Appending(m, o)') = j
    BY <2>3
  <2>8. Recent(m, o)
    BY DEF RecentInv
  <2>9. CASE s = r.state \/ Written(r, k)
    <3> HIDE DEF j, k, r, x, s
    <3>0. j < Cardinality(Threads)
      BY <2>4, <2>5, <2>6
    <3>1. \/ s = r.state /\ j < Cardinality(Threads)
          \/ Written(r, k) /\ j = k - 1
      BY <2>5, <2>9, <3>0
    <3>2. Written(x, j)
      BY <1>2, <2>1, <2>2, <2>4, <2>5, <3>1, AppendWritten DEF s
    <3>3. Written(x, j) = Written(heap[m][o], Cardinality(Appending(m, o)))'
      BY <2>7 DEF x, Written
    <3>4. QED
      BY <3>2, <3>3 DEF Recent
  <2>10. CASE s # r.state /\ r.state \in Wanted(m, o)
    <3>1. PICK u \in owed : call[u].to = r.state
      BY <2>10 DEF Wanted
    <3>2. u \in Appending(m, o)' /\ call'[u].to = x.state
      BY <1>1, <2>2, <2>3, <2>10, <3>1
    <3>3. QED
      BY <3>2 DEF Recent, Wanted
  <2>11. QED
    BY <2>8, <2>9, <2>10 DEF Recent
<1>4. CASE ~(m = call[t].mac /\ o = call[t].obj)
  <2>1. heap'[m][o] = heap[m][o]
    BY <1>1, <1>2, <1>4 DEF TypeOK
  <2>2. Appending(m, o)' = Appending(m, o)
    BY <1>1, <1>4 DEF Appending, TypeOK
  <2>3. Wanted(m, o)' = Wanted(m, o)
    BY <1>1, <2>2 DEF Wanted
  <2>4. Recent(m, o)
    BY DEF RecentInv
  <2>5. QED
    BY <2>1, <2>2, <2>3, <2>4 DEF Recent, Written
<1>5. QED
  BY <1>3, <1>4

LEMMA RecentNext == TypeOK /\ RecentInv /\ [Next]_vars => RecentInv'
<1> SUFFICES ASSUME TypeOK, RecentInv, [Next]_vars PROVE RecentInv'
  OBVIOUS
<1>1. ASSUME NEW t \in Threads, NEW m \in Macs, Register(t, m) PROVE RecentInv'
  BY <1>1, BindNewRecent DEF Register
<1>2. ASSUME NEW t \in Threads, EnsureRegister(t) PROVE RecentInv'
  BY <1>2, BindNewRecent DEF EnsureRegister, TypeOK
<1>3. ASSUME NEW t \in Threads, NEW m \in Macs, EnsureCheck(t, m) PROVE RecentInv'
  <2>1. /\ pc[t] # "append" /\ pc' = [pc EXCEPT ![t] = "ensure"]
        /\ call' = [call EXCEPT ![t] = m] /\ UNCHANGED <<heap, crashes>>
    BY <1>3 DEF EnsureCheck
  <2>2. QED
    BY <2>1, QuietRecent DEF Steps
<1>4. ASSUME NEW t \in Threads, NEW m \in Macs, NEW to, NEW p \in {"set", "flag"},
             Lookup(t, m, to, p)
      PROVE  RecentInv'
  <2>1. /\ pc[t] # "append" /\ pc' = [pc EXCEPT ![t] = p]
        /\ call' = [call EXCEPT ![t] = [mac |-> m, obj |-> records[m], to |-> to]]
        /\ UNCHANGED <<heap, crashes>>
    BY <1>4 DEF Lookup
  <2>2. QED
    BY <2>1, QuietRecent DEF Steps
<1>5. ASSUME NEW t \in Threads, AssignNetboot(t) PROVE RecentInv'
  <2>1. /\ pc[t] = "flag" /\ pc' = [pc EXCEPT ![t] = "save"]
        /\ call' = [call EXCEPT ![t] = call[t]] /\ UNCHANGED crashes
    BY <1>5 DEF AssignNetboot, TypeOK
  <2>2. NobodyAppends
    BY <2>1, OthersAppend DEF Steps
  <2>3. \A m \in Macs, o \in Objects :
          /\ heap'[m][o].state = heap[m][o].state
          /\ heap'[m][o].history = heap[m][o].history
    BY <1>5 DEF AssignNetboot, TypeOK, Record
  <2>4. QED
    BY <2>1, <2>2, <2>3, RecentFrame DEF RecordKept
<1>6. ASSUME NEW t \in Threads, SaveBegin(t) PROVE RecentInv'
  <2>1. /\ pc[t] # "append" /\ pc' = [pc EXCEPT ![t] = "write"]
        /\ call' = [call EXCEPT ![t] = call[t]] /\ UNCHANGED <<heap, crashes>>
    BY <1>6 DEF SaveBegin, TypeOK
  <2>2. QED
    BY <2>1, QuietRecent DEF Steps
<1>7. ASSUME NEW t \in Threads, SaveCommit(t) PROVE RecentInv'
  <2>1. pc[t] = "write" /\ UNCHANGED crashes
    BY <1>7 DEF SaveCommit
  <2>2. CASE Return(t)
    BY <2>1, <2>2, ReturnRecent
  <2>3. CASE pc' = [pc EXCEPT ![t] = "fire"] /\ UNCHANGED <<call, heap>>
    <3>1. call' = [call EXCEPT ![t] = call[t]]
      BY <2>3 DEF TypeOK
    <3>2. QED
      BY <2>1, <2>3, <3>1, QuietRecent DEF Steps
  <2>4. QED
    BY <1>7, <2>2, <2>3 DEF SaveCommit
<1>8. ASSUME NEW t \in Threads,
             SaveFail(t) \/ FireCallbacks(t) \/ ClearDisk(t) \/ ClearFail(t)
      PROVE  RecentInv'
  <2>1. pc[t] # "append" /\ Return(t) /\ UNCHANGED crashes
    BY <1>8 DEF SaveFail, FireCallbacks, ClearDisk, ClearFail
  <2>2. QED
    BY <2>1, ReturnRecent
<1>9. ASSUME NEW t \in Threads, ClearMemory(t) PROVE RecentInv'
  <2>1. /\ pc[t] # "append" /\ pc' = [pc EXCEPT ![t] = "wipe"]
        /\ call' = [call EXCEPT ![t] = call[t]]
        /\ heap' = Collect(heap, records', call') /\ UNCHANGED crashes
    BY <1>9 DEF ClearMemory, TypeOK
  <2>2. NobodyAppends
    BY <2>1, OthersAppend DEF Steps
  <2>3. \A m \in Macs, o \in Objects : RecordKept(m, o)
    BY <2>1, <2>2, CollectedKept
  <2>4. QED
    BY <2>1, <2>2, <2>3, RecentFrame
<1>10. CASE Restart
  <2>1. crashes' # 0
    BY <1>10 DEF Restart, TypeOK
  <2>2. QED
    BY <2>1 DEF RecentInv
<1>11. CASE UNCHANGED vars
  BY <1>11, RecentFrame DEF vars, NobodyAppends, RecordKept
<1>12. QED
  BY <1>1, <1>2, <1>3, <1>4, <1>5, <1>6, <1>7, <1>8, <1>9, <1>10, <1>11,
     AssignStateRecent, AppendHistoryRecent DEF Next, Transition, SetNetboot

LEMMA RecentImplies == TypeOK /\ RecentInv => StateIsRecent
<1> SUFFICES ASSUME TypeOK, RecentInv, crashes = 0, NEW m \in Macs, NEW o \in Objects,
                    \A t \in Threads : ~(Pending(t, m, o) /\ pc[t] \in {"set", "append"})
             PROVE  \E i \in 1..Len(heap[m][o].history) :
                      /\ i + Cardinality(Threads) > Len(heap[m][o].history)
                      /\ heap[m][o].history[i] = heap[m][o].state
  BY DEF StateIsRecent
<1>1. Appending(m, o) = {}
  BY DEF Appending, Pending
<1>2. Cardinality(Appending(m, o)) = 0 /\ Wanted(m, o) = {}
  BY <1>1, FS_EmptySet DEF Wanted
<1>3. Written(heap[m][o], 0)
  BY <1>2 DEF RecentInv, Recent
<1>4. Len(heap[m][o].history) \in Nat
  <2>1. heap[m][o] \in Record
    BY DEF TypeOK
  <2>2. heap[m][o].history \in Seq(ProvisionState)
    BY <2>1 DEF Record
  <2>3. QED
    BY <2>2
<1>5. Cardinality(Threads) \in Nat
  BY AppendingFinite
<1>6. QED
  BY <1>3, <1>4, <1>5 DEF Written

(* Two unlocked assignments do not drift apart: when nobody is between     *)
(* them, the state is among the last entries of the history, one for each  *)
(* thread (state.py:115-117).                                              *)
THEOREM TrackerStateIsRecent == Spec => []StateIsRecent
<1>1. Spec => []RecentInv
  BY TrackerTypeCorrect, RecentInit, RecentNext, PTL DEF Spec
<1>2. QED
  BY <1>1, TrackerTypeCorrect, RecentImplies, PTL

-----------------------------------------------------------------------------
(***************************************************************************)
(* The database as the tracker uses it, and what a restart finds there     *)
(***************************************************************************)

(* The table is a RecordStore that never loses anything: a save that fails *)
(* and a death of the process change no row.                               *)
Table == INSTANCE RecordStore WITH Values <- Record, Nothing <- None,
                                   map <- disk, failed <- FALSE

LEMMA TableInit == Init => Table!Init
BY DEF Init, Table!Init, Table!Empty

LEMMA TableStep == TypeOK /\ [Next]_vars => [Table!Next]_<<disk, FALSE>>
<1> SUFFICES ASSUME TypeOK, [Next]_vars PROVE Table!Next \/ UNCHANGED disk
  OBVIOUS
<1>1. ASSUME NEW t \in Threads, SaveCommit(t) PROVE Table!Next
  <2> DEFINE m == call[t].mac
  <2> DEFINE row == Row(heap[m][call[t].obj], snap[t])
  <2>1. pc[t] = "write" /\ disk' = [disk EXCEPT ![m] = row]
    BY <1>1 DEF SaveCommit
  <2>2. m \in Macs /\ call[t].obj \in Objects /\ snap[t] \in Seq(ProvisionState)
    BY <2>1 DEF TypeOK, Request
  <2>3. heap[m][call[t].obj] \in Record
    BY <2>2 DEF TypeOK
  <2>4. row \in Record
    BY <2>2, <2>3 DEF Row, Record
  <2> HIDE DEF m, row
  <2>5. Table!Save(m, row)
    BY <2>1 DEF Table!Save
  <2>6. QED
    BY <2>2, <2>4, <2>5 DEF Table!Next
<1>2. ASSUME NEW t \in Threads, ClearDisk(t) PROVE Table!Next
  BY <1>2 DEF ClearDisk, Table!Next, Table!Clear, Table!Empty
<1>3. ASSUME NEW t \in Threads, NEW m \in Macs, Register(t, m) \/ EnsureCheck(t, m)
      PROVE  UNCHANGED disk
  BY <1>3 DEF Register, BindNew, EnsureCheck
<1>4. ASSUME NEW t \in Threads, NEW m \in Macs, NEW s \in Targets, Transition(t, m, s)
      PROVE  UNCHANGED disk
  BY <1>4 DEF Transition, Lookup
<1>5. ASSUME NEW t \in Threads, NEW m \in Macs, NEW to, SetNetboot(t, m, to)
      PROVE  UNCHANGED disk
  BY <1>5 DEF SetNetboot, Lookup
<1>6. ASSUME NEW t \in Threads,
             \/ EnsureRegister(t) \/ AssignState(t) \/ AppendHistory(t) \/ AssignNetboot(t)
             \/ SaveBegin(t) \/ SaveFail(t) \/ FireCallbacks(t) \/ ClearMemory(t) \/ ClearFail(t)
      PROVE  UNCHANGED disk
  BY <1>6 DEF EnsureRegister, BindNew, AssignState, AppendHistory, AssignNetboot,
              SaveBegin, SaveFail, FireCallbacks, ClearMemory, ClearFail
<1>7. Restart \/ UNCHANGED vars => UNCHANGED disk
  BY DEF Restart, vars
<1>8. QED
  BY <1>1, <1>2, <1>3, <1>4, <1>5, <1>6, <1>7 DEF Next

(* What the tracker does to the table between any two of its steps is a    *)
(* step of the store JSONBackend implements too: one record put, or all    *)
(* cleared (state.py:100, 123, 158, 168, 175; db.py:253-281, 310-315).     *)
THEOREM TrackerUsesAStore == Spec => Table!Spec
<1>1. Spec => []TypeOK
  BY TrackerTypeCorrect
<1>2. QED
  BY <1>1, TableInit, TableStep, PTL DEF Spec, Table!Spec

(* The record of a MAC as a caller of the tracker sees it, and whether no  *)
(* call has still to save or to wipe it.                                   *)
Shown(m) == IF records[m] = None THEN None ELSE heap[m][records[m]]
Settled(m) ==
    /\ m \notin dirty
    /\ records[m] = None => \A t \in Threads : pc[t] # "wipe"
    /\ records[m] # None => \A t \in Threads : ~Pending(t, m, records[m])

LEMMA RestartShows ==
    ASSUME TypeOK, PersistedUnlessPending, Restart, NEW m \in Macs
    PROVE  /\ Shown(m)' = disk[m]
           /\ Settled(m) => Shown(m)' = Shown(m)
<1>1. PICK o \in Objects :
         /\ records' = [n \in Macs |-> IF disk[n] = None THEN None ELSE o]
         /\ heap' = [n \in Macs |->
                      [p \in Objects |->
                         IF p = o /\ disk[n] # None THEN disk[n] ELSE NewRecord]]
  BY DEF Restart
<1>2. Shown(m)' = disk[m]
  <2>1. CASE disk[m] = None
    BY <1>1, <2>1 DEF Shown
  <2>2. CASE disk[m] # None
    <3>1. o # None
      BY TrackerAssumption
    <3>2. records'[m] = o /\ heap'[m][o] = disk[m]
      BY <1>1, <2>2
    <3>3. QED
      BY <3>1, <3>2 DEF Shown
  <2>3. QED
    BY <2>1, <2>2
<1>3. Settled(m) => disk[m] = Shown(m)
  BY DEF Settled, Shown, PersistedUnlessPending, Converged
<1>4. QED
  BY <1>2, <1>3

(* A process that dies loses at most what a call had still to save: every  *)
(* other record is after the restart what it was before, field by field,   *)
(* except where a late or failed save was the last (state.py:74-78).       *)
THEOREM TrackerRestartKeeps ==
    Spec => [][\A m \in Macs : Restart => /\ Shown(m)' = disk[m]
                                          /\ Settled(m) => Shown(m)' = Shown(m)]_vars
<1>1. TypeOK /\ PersistedUnlessPending =>
        \A m \in Macs : Restart => /\ Shown(m)' = disk[m]
                                   /\ Settled(m) => Shown(m)' = Shown(m)
  BY RestartShows
<1>2. QED
  BY <1>1, TrackerTypeCorrect, TrackerPersisted, PTL DEF Spec

=============================================================================
