------------------------ MODULE SeparatePartsProofs ------------------------
(***************************************************************************)
(* Theorems about the parts of SeparateParts: what the stores, the mirrors,*)
(* the images, the certificates, the console and the audit log promise,    *)
(* for every number of callers, objects, files, generations, connections,  *)
(* loggers and entries.                                                    *)
(*                                                                         *)
(* None of the properties is inductive.  Of each part a theorem says what  *)
(* its invariant (FilInv, MirInv, ImgInv, TlsInv, ConsoleInv, AudInv) adds:*)
(* what a call that has met no other can rely on while it is under way,    *)
(* and for the audit log what the order of a buffer says of its entries.   *)
(***************************************************************************)
EXTENDS SeparateParts, Integers, Sequences, FiniteSetTheorems, TLAPS

-----------------------------------------------------------------------------
(***************************************************************************)
(* The keys, secrets and named objects                                     *)
(***************************************************************************)
FilOn(t, f) == call[t] # None /\ FileOf[call[t].key] = f

(* A copy is a text of the file it is for, and adding reads nothing. *)
FilTypes ==
    /\ F!TypeOK
    /\ \A t \in Threads : /\ copy[t] # None => copy[t] \in F!Content(F!Target(t))
                          /\ pc[t] = "read" => call[t].op # "add"

(* A call that has met no other is alone on its file, ... *)
FilAlone ==
    \A t, u \in Threads, f \in F!Files :
        t # u /\ FilOn(t, f) /\ FilOn(u, f) => t \in crossed

(* ... and what calls that met leave behind is in doubt. *)
FilDoubt ==
    \A t \in crossed, k \in Keys : FileOf[k] = F!Target(t) => kept[k] = Torn

(* No object in doubt is lost from a file that is not being written. *)
FilDisk ==
    \A k \in Keys :
        kept[k] # Torn /\ (\A t \in Threads : pc[t] = "write" => F!Target(t) # FileOf[k])
          => disk[FileOf[k]] # Torn /\ disk[FileOf[k]][k] = kept[k]

(* A call that is alone writes the other objects as they are kept. *)
FilCopies(t) ==
    pc[t] \in {"open", "write"} /\ t \notin crossed =>
        \A k \in F!KeysOf(F!Target(t)) \ {call[t].key} :
            kept[k] # Torn => copy[t][k] = kept[k]

FilInv ==
    /\ FilTypes /\ FilAlone /\ FilDoubt /\ FilDisk
    /\ \A t \in Threads : FilCopies(t)

LEMMA FilInit == PartsAssumption /\ F!Init => FilInv
<1> SUFFICES ASSUME PartsAssumption, F!Init PROVE FilInv
    OBVIOUS
<1>1. \A f \in F!Files : F!NoObjects(f) \in F!Content(f)
      BY DEF F!NoObjects, F!Content
<1>2. \A f \in F!Files : F!Content(f) \subseteq F!Copy
      BY DEF F!Copy
<1>3. FilTypes
      BY <1>1, <1>2 DEF FilTypes, F!TypeOK, F!Init
<1>4. FilAlone /\ FilDoubt /\ \A t \in Threads : FilCopies(t)
      BY DEF FilAlone, FilOn, FilDoubt, FilCopies, F!Init
<1>5. None # Torn
      BY DEF PartsAssumption, F!StoreAssumption
<1>6. FilDisk
  <2> SUFFICES ASSUME NEW k \in Keys
               PROVE  disk[FileOf[k]] # Torn /\ disk[FileOf[k]][k] = kept[k]
      BY DEF FilDisk
  <2>1. FileOf[k] \in F!Files /\ k \in F!KeysOf(FileOf[k])
        BY DEF F!Files, F!KeysOf
  <2>2. disk[FileOf[k]] = F!NoObjects(FileOf[k])
        BY <2>1 DEF F!Init
  <2>3. Torn \notin F!Copy
        BY DEF PartsAssumption, F!StoreAssumption
  <2> QED BY <1>1, <1>2, <2>1, <2>2, <2>3 DEF F!NoObjects, F!Init
<1> QED BY <1>3, <1>4, <1>6 DEF FilInv

(* A step of thread t that neither changes a file nor what is kept. *)
LEMMA FilQuiet ==
    ASSUME FilInv, NEW t \in Threads, FilTypes',
           \A u \in Threads \ {t} : pc'[u] = pc[u] /\ call'[u] = call[u] /\ copy'[u] = copy[u],
           UNCHANGED <<disk, kept>>,
           pc[t] # "write",
           FilCopies(t)',
           \/ pc'[t] = "idle" /\ call'[t] = None /\ crossed' = crossed \ {t}
           \/ pc'[t] = "open" /\ call'[t] = call[t] /\ crossed' = crossed
    PROVE  FilInv'
<1>a. /\ FilAlone /\ FilDoubt /\ FilDisk /\ crossed \subseteq Threads
      /\ \A u \in Threads : FilCopies(u)
      BY DEF FilInv, FilTypes, F!TypeOK
<1>1. FilAlone'
      BY <1>a DEF FilAlone, FilOn
<1>2. FilDoubt'
      BY <1>a DEF FilDoubt, F!Target
<1>3. FilDisk'
      BY <1>a DEF FilDisk, F!Target
<1>4. \A u \in Threads \ {t} : FilCopies(u)'
      BY <1>a DEF FilCopies, F!Target
<1> QED BY <1>1, <1>2, <1>3, <1>4 DEF FilInv

LEMMA FilStep == PartsAssumption /\ FilInv /\ F!Next => FilInv'
<1> SUFFICES ASSUME PartsAssumption, FilInv, F!Next PROVE FilInv'
    OBVIOUS
<1>a. /\ FilTypes /\ F!TypeOK /\ FilAlone /\ FilDoubt /\ FilDisk
      /\ \A t \in Threads : FilCopies(t)
      BY DEF FilInv, FilTypes
<1>b. /\ \A k, l \in Keys : FileOf[k] = FileOf[l] /\ FileOf[k] \in Own => k = l
      /\ None \notin Values /\ None \notin F!Calls /\ None \notin F!Copy
      /\ Torn \notin Values /\ Torn \notin F!Copy /\ Torn # None
      BY DEF PartsAssumption, F!StoreAssumption
<1>c. ASSUME NEW t \in Threads, pc[t] # "idle"
      PROVE  /\ call[t] # None /\ call[t] \in F!Calls /\ call[t].key \in Keys
             /\ call[t].value \in Values
             /\ call[t].op \in {"add", "put", "touch", "delete"}
             /\ F!Target(t) \in F!Files /\ FilOn(t, F!Target(t))
             /\ call[t].key \in F!KeysOf(F!Target(t))
  <2>1. call[t] # None /\ call[t] \in F!Calls
        BY <1>a, <1>c DEF F!TypeOK
  <2> QED BY <2>1 DEF F!Calls, F!Files, F!Target, FilOn, F!KeysOf
<1>d. \A f \in F!Files : F!Content(f) \subseteq F!Copy
      BY DEF F!Copy
<1>e. \A k \in Keys : FileOf[k] \in F!Files /\ k \in F!KeysOf(FileOf[k])
      BY DEF F!Files, F!KeysOf
<1>f. ASSUME NEW t \in Threads, pc[t] # "idle", t \notin crossed
      PROVE  \A u \in Threads \ {t} : ~FilOn(u, F!Target(t))
      BY <1>a, <1>c, <1>f DEF FilAlone
<1>1. ASSUME NEW t \in Threads, NEW c \in F!Calls, F!Begin(t, c) PROVE FilInv'
  <2> DEFINE f == FileOf[c.key]
  <2>1. /\ c # None /\ c.key \in Keys /\ c.value \in Values /\ f \in F!Files
        /\ c.key \in F!KeysOf(f)
        BY <1>b, <1>e DEF F!Calls
  <2>2. /\ pc[t] = "idle" /\ call[t] = None /\ call'[t] = c /\ disk' = disk
        /\ \A u \in Threads \ {t} : pc'[u] = pc[u] /\ call'[u] = call[u] /\ copy'[u] = copy[u]
        /\ call' \in [Threads -> F!Calls \cup {None}]
        BY <1>a, <1>1 DEF F!Begin, F!GoTo, F!TypeOK
  <2>3. \/ /\ pc'[t] = "open" /\ c.op = "add" /\ f \in Own
           /\ copy'[t] = [k \in {c.key} |-> c.value]
        \/ pc'[t] = "read" /\ c.op # "add" /\ copy' = copy
        BY <1>a, <1>1 DEF F!Begin, F!GoTo, F!TypeOK
  <2>4. f \in Own => F!KeysOf(f) = {c.key}
        BY <1>b, <2>1 DEF F!KeysOf
  <2>5. /\ \A u \in Threads : FilOn(u, f) <=> u \in F!Busy(f)
        /\ t \notin F!Busy(f)
        BY <2>2 DEF FilOn, F!Busy
  <2>6. \/ F!Busy(f) = {} /\ kept' = kept /\ crossed' = crossed
        \/ /\ F!Busy(f) # {} /\ crossed' = crossed \cup F!Busy(f) \cup {t}
           /\ kept' = [k \in Keys |-> IF FileOf[k] = f THEN Torn ELSE kept[k]]
        BY <1>1 DEF F!Begin, F!Doubt
  <2>7. FilTypes'
    <3>1. pc' \in [Threads -> {"idle", "read", "open", "write"}]
          BY <1>a, <1>1 DEF F!Begin, F!GoTo, F!TypeOK
    <3>2. pc'[t] = "open" => copy'[t] \in F!Content(f) /\ copy'[t] \in F!Copy
          BY <1>d, <2>1, <2>3, <2>4 DEF F!Content
    <3>3. copy' \in [Threads -> F!Copy \cup {None}]
          BY <1>a, <1>1, <2>3, <3>2 DEF F!Begin, F!TypeOK
    <3>4. kept' \in [Keys -> Values \cup {None, Torn}]
          BY <1>a, <2>6 DEF F!TypeOK
    <3>5. crossed' \subseteq {u \in Threads : call'[u] # None}
          BY <1>a, <2>1, <2>2, <2>6 DEF F!TypeOK, F!Busy
    <3>6. copy[t] = None
          BY <1>a, <2>2 DEF F!TypeOK
    <3>7. \A u \in Threads : pc'[u] = "idle" <=> call'[u] = None
          BY <1>a, <2>1, <2>2, <2>3 DEF F!TypeOK
    <3>8. \A u \in Threads : pc'[u] \in {"open", "write"} <=> copy'[u] # None
          BY <1>a, <1>b, <2>2, <2>3, <3>2, <3>6 DEF F!TypeOK
    <3>9. F!TypeOK'
          BY <1>a, <2>2, <3>1, <3>3, <3>4, <3>5, <3>7, <3>8 DEF F!TypeOK
    <3>10. \A u \in Threads : /\ copy'[u] # None => copy'[u] \in F!Content(F!Target(u)')
                              /\ pc'[u] = "read" => call'[u].op # "add"
          BY <1>a, <2>2, <2>3, <3>2, <3>6 DEF FilTypes, F!Target
    <3> QED BY <3>9, <3>10 DEF FilTypes
  <2>8. FilAlone'
        BY <1>a, <2>2, <2>5, <2>6 DEF FilAlone, FilOn
  <2>9. FilDoubt'
        BY <1>a, <2>2, <2>5, <2>6 DEF FilDoubt, F!Target, F!TypeOK, F!Busy
  <2>10. FilDisk'
        BY <1>a, <2>2, <2>3, <2>6 DEF FilDisk, F!Target
  <2>11. \A u \in Threads : FilCopies(u)'
        BY <1>a, <2>2, <2>3, <2>4, <2>6 DEF FilCopies, F!Target, F!KeysOf
  <2> QED BY <2>7, <2>8, <2>9, <2>10, <2>11 DEF FilInv
<1>2. ASSUME NEW t \in Threads, F!Return(t), UNCHANGED <<disk, kept>>, pc[t] \in {"read", "open"}
      PROVE  FilInv'
  <2>1. /\ pc'[t] = "idle" /\ call'[t] = None /\ copy'[t] = None
        /\ crossed' = crossed \ {t}
        /\ \A u \in Threads \ {t} : pc'[u] = pc[u] /\ call'[u] = call[u] /\ copy'[u] = copy[u]
        BY <1>a, <1>2 DEF F!Return, F!GoTo, F!TypeOK
  <2>2. F!TypeOK'
    <3>1. /\ pc' \in [Threads -> {"idle", "read", "open", "write"}]
          /\ call' \in [Threads -> F!Calls \cup {None}]
          /\ copy' \in [Threads -> F!Copy \cup {None}]
          BY <1>a, <1>2 DEF F!Return, F!GoTo, F!TypeOK
    <3>2. crossed' \subseteq {u \in Threads : call'[u] # None}
          BY <1>a, <2>1 DEF F!TypeOK
    <3> QED BY <1>a, <1>2, <2>1, <3>1, <3>2 DEF F!TypeOK
  <2>3. FilTypes'
        BY <1>a, <2>1, <2>2 DEF FilTypes, F!Target
  <2> QED BY <1>2, <2>1, <2>3, FilQuiet DEF FilCopies
<1>3. ASSUME NEW t \in Threads, F!Read(t) PROVE FilInv'
  <2> DEFINE f == F!Target(t)
  <2> DEFINE c == call[t]
  <2>1. /\ pc[t] = "read" /\ disk[f] # Torn /\ UNCHANGED <<disk, kept>>
        BY <1>3 DEF F!Read
  <2>2. CASE F!Return(t)
        BY <1>2, <2>1, <2>2
  <2>3. CASE /\ copy' = [copy EXCEPT ![t] = F!Changed(c, disk[f])]
             /\ F!GoTo(t, "open") /\ UNCHANGED <<call, crossed>>
    <3>1. /\ pc'[t] = "open" /\ copy'[t] = F!Changed(c, disk[f])
          /\ \A u \in Threads \ {t} : pc'[u] = pc[u] /\ call'[u] = call[u] /\ copy'[u] = copy[u]
          BY <1>a, <2>3 DEF F!GoTo, F!TypeOK
    <3>2. /\ disk[f] \in F!Content(f) /\ f \in F!Files /\ c.key \in F!KeysOf(f)
          /\ c.op \in {"put", "touch", "delete"} /\ c.value \in Values /\ c # None
          BY <1>a, <1>c, <2>1 DEF F!TypeOK, FilTypes
    <3>3. /\ copy'[t] \in F!Content(f)
          /\ \A k \in F!KeysOf(f) \ {c.key} : copy'[t][k] = disk[f][k]
          BY <3>1, <3>2 DEF F!Changed, F!Content
    <3>4. FilTypes'
      <4>1. copy'[t] \in F!Copy /\ copy'[t] # None
            BY <1>b, <1>d, <3>2, <3>3
      <4>2. /\ pc' \in [Threads -> {"idle", "read", "open", "write"}]
            /\ copy' \in [Threads -> F!Copy \cup {None}]
            BY <1>a, <2>3, <3>1, <4>1 DEF F!GoTo, F!TypeOK
      <4>3. F!TypeOK'
            BY <1>a, <2>1, <2>3, <3>1, <3>2, <4>1, <4>2 DEF F!TypeOK
      <4> QED BY <1>a, <2>3, <3>1, <3>3, <4>3 DEF FilTypes, F!Target
    <3>5. FilCopies(t)'
      <4>1. \A k \in F!KeysOf(f) : t \notin crossed /\ kept[k] # Torn => disk[f][k] = kept[k]
        <5>1. t \notin crossed =>
                  \A u \in Threads : pc[u] = "write" => F!Target(u) # f
              BY <1>c, <1>f, <2>1 DEF FilOn, F!Target
        <5> QED BY <1>a, <5>1 DEF FilDisk, F!KeysOf
      <4> QED BY <2>1, <2>3, <3>1, <3>3, <4>1 DEF FilCopies, F!Target
    <3> QED BY <2>1, <2>3, <3>1, <3>4, <3>5, FilQuiet
  <2> QED BY <1>3, <2>2, <2>3 DEF F!Read
<1>4. ASSUME NEW t \in Threads, F!ReadFails(t) PROVE FilInv'
      BY <1>2, <1>4 DEF F!ReadFails
<1>5. ASSUME NEW t \in Threads, F!Open(t) PROVE FilInv'
  <2>1. /\ pc[t] = "open" /\ pc'[t] = "write"
        /\ \A u \in Threads \ {t} : pc'[u] = pc[u]
        /\ UNCHANGED <<call, copy, kept, crossed>>
        /\ disk' = [disk EXCEPT ![F!Target(t)] = Torn]
        BY <1>a, <1>5 DEF F!Open, F!GoTo, F!TypeOK
  <2>2. F!Target(t) \in F!Files
        BY <1>c, <2>1
  <2>3. FilTypes'
    <3>1. /\ pc' \in [Threads -> {"idle", "read", "open", "write"}]
          /\ disk' \in [F!Files -> F!Copy \cup {Torn}]
          /\ \A f \in F!Files : disk'[f] = Torn \/ disk'[f] \in F!Content(f)
          BY <1>a, <1>5, <2>1 DEF F!Open, F!GoTo, F!TypeOK
    <3> QED BY <1>a, <2>1, <3>1 DEF FilTypes, F!TypeOK, F!Target
  <2>4. FilAlone' /\ FilDoubt'
        BY <1>a, <2>1 DEF FilAlone, FilOn, FilDoubt, F!Target
  <2>5. FilDisk'
    <3>1. \A f \in F!Files \ {F!Target(t)} : disk'[f] = disk[f]
          BY <1>a, <2>1, <2>2 DEF F!TypeOK
    <3> QED BY <1>a, <1>e, <2>1, <3>1 DEF FilDisk, F!Target
  <2>6. \A u \in Threads : FilCopies(u)'
        BY <1>a, <2>1 DEF FilCopies, F!Target
  <2> QED BY <2>3, <2>4, <2>5, <2>6 DEF FilInv
<1>6. ASSUME NEW t \in Threads, F!Write(t) PROVE FilInv'
  <2>a. pc[t] = "write"
        BY <1>6 DEF F!Write
  <2>b. PICK f \in F!Files : f = F!Target(t)
        BY <1>c, <2>a
  <2>c. PICK q \in F!KeysOf(f) : q = call[t].key
        BY <1>c, <2>a, <2>b
  <2>1. /\ pc'[t] = "idle" /\ call'[t] = None /\ copy'[t] = None
        /\ crossed' = crossed \ {t}
        /\ \A u \in Threads \ {t} : pc'[u] = pc[u] /\ call'[u] = call[u] /\ copy'[u] = copy[u]
        BY <1>a, <1>6 DEF F!Write, F!Return, F!GoTo, F!TypeOK
  <2>2. copy[t] \in F!Content(f) /\ copy[t] # Torn
        BY <1>a, <1>b, <1>d, <2>a, <2>b DEF FilTypes, F!TypeOK
  <2>3. PICK x \in F!Written(t) : disk' = [disk EXCEPT ![f] = x]
        BY <1>6, <2>b DEF F!Write
  <2>4. x \in F!Content(f) \cup {Torn} /\ (t \notin crossed => x = copy[t])
        BY <1>a, <2>b, <2>2 DEF F!Written, F!TypeOK
  <2>5. /\ disk'[f] = x /\ \A g \in F!Files \ {f} : disk'[g] = disk[g]
        /\ disk' \in [F!Files -> F!Copy \cup {Torn}]
        /\ \A g \in F!Files : disk'[g] = Torn \/ disk'[g] \in F!Content(g)
        BY <1>a, <1>d, <2>3, <2>4 DEF F!TypeOK
  <2>6. /\ F!Busy(f) = {t} /\ x # Torn =>
             \A k \in Keys :
               /\ FileOf[k] = f /\ kept[k] = Torn => kept'[k] = x[k]
               /\ kept[k] # Torn /\ k = q => kept'[k] = copy[t][k]
               /\ kept[k] # Torn /\ k # q => kept'[k] = kept[k]
               /\ FileOf[k] # f => kept'[k] = kept[k]
        /\ ~(F!Busy(f) = {t} /\ x # Torn) => kept' = kept
    <3>1. \A k \in Keys : FileOf[k] # f => k # q
          BY <2>c DEF F!KeysOf
    <3> QED BY <1>6, <2>b, <2>c, <2>5, <3>1 DEF F!Write
  <2>7. /\ t \notin crossed => F!Busy(f) = {t}
        /\ \A u \in Threads \ {t} : FilOn(u, f) => u \in crossed /\ F!Busy(f) # {t}
    <3>1. FilOn(t, f)
          BY <1>c, <2>a, <2>b
    <3> QED BY <1>a, <3>1 DEF FilAlone, FilOn, F!Busy
  <2>8. FilTypes'
    <3>1. /\ pc' \in [Threads -> {"idle", "read", "open", "write"}]
          /\ call' \in [Threads -> F!Calls \cup {None}]
          /\ copy' \in [Threads -> F!Copy \cup {None}]
          BY <1>a, <1>6 DEF F!Write, F!Return, F!GoTo, F!TypeOK
    <3>2. kept' \in [Keys -> Values \cup {None, Torn}]
      <4>1. \A k \in F!KeysOf(f) : /\ copy[t][k] \in Values \cup {None}
                                   /\ x # Torn => x[k] \in Values \cup {None}
            BY <2>2, <2>4 DEF F!Content
      <4>2. \A k \in Keys : kept'[k] \in Values \cup {None, Torn}
            BY <1>a, <2>c, <2>6, <4>1 DEF F!TypeOK, F!KeysOf
      <4>3. kept' = [k \in Keys |-> kept'[k]]
            BY <1>a, <1>6 DEF F!Write, F!TypeOK
      <4> QED BY <4>2, <4>3
    <3>3. crossed' \subseteq {u \in Threads : call'[u] # None}
          BY <1>a, <2>1 DEF F!TypeOK
    <3>4. \A u \in Threads : /\ pc'[u] = "idle" <=> call'[u] = None
                             /\ pc'[u] \in {"open", "write"} <=> copy'[u] # None
          BY <1>a, <2>1 DEF F!TypeOK
    <3>5. F!TypeOK'
          BY <2>5, <3>1, <3>2, <3>3, <3>4 DEF F!TypeOK
    <3> QED BY <1>a, <2>1, <3>5 DEF FilTypes, F!Target
  <2>9. FilAlone'
        BY <1>a, <2>1 DEF FilAlone, FilOn
  <2>10. FilDoubt'
    <3> SUFFICES ASSUME NEW u \in crossed', NEW k \in Keys, FileOf[k] = F!Target(u)'
                 PROVE  kept'[k] = Torn
        BY DEF FilDoubt
    <3>1. u \in Threads \ {t} /\ u \in crossed /\ call[u] # None /\ FileOf[k] = F!Target(u)
          BY <1>a, <2>1 DEF F!TypeOK, F!Target
    <3>2. FileOf[k] = f => F!Busy(f) # {t}
          BY <2>7, <3>1 DEF FilOn, F!Target
    <3>3. kept[k] = Torn
          BY <1>a, <3>1 DEF FilDoubt
    <3> QED BY <2>6, <3>2, <3>3
  <2>11. FilDisk'
    <3> SUFFICES ASSUME NEW k \in Keys, kept'[k] # Torn,
                        \A u \in Threads : pc'[u] = "write" => F!Target(u)' # FileOf[k]
                 PROVE  disk'[FileOf[k]] # Torn /\ disk'[FileOf[k]][k] = kept'[k]
        BY DEF FilDisk
    <3>1. CASE FileOf[k] # f
      <4>1. \A u \in Threads : pc[u] = "write" => F!Target(u) # FileOf[k]
            BY <2>b, <2>1, <3>1 DEF F!Target
      <4>2. kept'[k] = kept[k]
            BY <2>6, <3>1
      <4> QED BY <1>a, <1>e, <2>5, <3>1, <4>1, <4>2 DEF FilDisk
    <3>2. CASE FileOf[k] = f /\ t \in crossed
      <4>1. kept[k] = Torn
            BY <1>a, <2>b, <3>2 DEF FilDoubt
      <4> QED BY <2>5, <2>6, <3>2, <4>1
    <3>3. CASE FileOf[k] = f /\ t \notin crossed
      <4>1. F!Busy(f) = {t} /\ x = copy[t]
            BY <2>4, <2>7, <3>3
      <4>2. kept[k] # Torn /\ k # q => copy[t][k] = kept[k]
            BY <1>a, <2>a, <2>b, <2>c, <3>3 DEF FilCopies, F!KeysOf
      <4> QED BY <2>2, <2>5, <2>6, <3>3, <4>1, <4>2
    <3> QED BY <3>1, <3>2, <3>3
  <2>12. \A u \in Threads : FilCopies(u)'
    <3>1. \A u \in Threads \ {t} :
              pc[u] \in {"open", "write"} /\ u \notin crossed => F!Target(u) # f
          BY <1>c, <2>7
    <3>2. \A k \in Keys : FileOf[k] # f => kept'[k] = kept[k]
          BY <2>6
    <3> QED BY <1>a, <2>1, <3>1, <3>2 DEF FilCopies, F!Target, F!KeysOf
  <2> QED BY <2>8, <2>9, <2>10, <2>11, <2>12 DEF FilInv
<1>7. ASSUME NEW t \in Threads, F!WriteFails(t) PROVE FilInv'
  <2>1. CASE pc[t] = "open"
    <3>1. kept' = kept
          BY <1>a, <1>7, <2>1 DEF F!WriteFails, F!Doubt, F!TypeOK
    <3> QED BY <1>2, <1>7, <2>1, <3>1 DEF F!WriteFails
  <2>2. CASE pc[t] = "write"
    <3>1. /\ pc'[t] = "idle" /\ call'[t] = None /\ copy'[t] = None
          /\ crossed' = crossed \ {t} /\ disk' = disk
          /\ \A u \in Threads \ {t} : pc'[u] = pc[u] /\ call'[u] = call[u] /\ copy'[u] = copy[u]
          BY <1>a, <1>7 DEF F!WriteFails, F!Return, F!GoTo, F!TypeOK
    <3>2. kept' = [k \in Keys |-> IF FileOf[k] = F!Target(t) THEN Torn ELSE kept[k]]
          BY <1>7, <2>2 DEF F!WriteFails, F!Doubt
    <3>3. FilTypes'
      <4>1. /\ pc' \in [Threads -> {"idle", "read", "open", "write"}]
            /\ call' \in [Threads -> F!Calls \cup {None}]
            /\ copy' \in [Threads -> F!Copy \cup {None}]
            /\ kept' \in [Keys -> Values \cup {None, Torn}]
            BY <1>a, <1>7, <3>2 DEF F!WriteFails, F!Return, F!GoTo, F!TypeOK
      <4>2. crossed' \subseteq {u \in Threads : call'[u] # None}
            BY <1>a, <3>1 DEF F!TypeOK
      <4>3. F!TypeOK'
            BY <1>a, <3>1, <4>1, <4>2 DEF F!TypeOK
      <4> QED BY <1>a, <3>1, <4>3 DEF FilTypes, F!Target
    <3>4. FilAlone'
          BY <1>a, <3>1 DEF FilAlone, FilOn
    <3>5. FilDoubt'
          BY <1>a, <3>1, <3>2 DEF FilDoubt, F!Target, F!TypeOK
    <3>6. FilDisk'
          BY <1>a, <3>1, <3>2 DEF FilDisk, F!Target
    <3>7. \A u \in Threads : FilCopies(u)'
          BY <1>a, <3>1, <3>2 DEF FilCopies, F!Target, F!KeysOf
    <3> QED BY <3>3, <3>4, <3>5, <3>6, <3>7 DEF FilInv
  <2> QED BY <1>7, <2>1, <2>2 DEF F!WriteFails
<1>8. ASSUME NEW t \in Threads, NEW q \in Keys, F!Unlink(t, q) PROVE FilInv'
  <2> DEFINE f == FileOf[q]
  <2>1. /\ f \in Own /\ f \in F!Files /\ F!KeysOf(f) = {q}
        /\ UNCHANGED <<pc, call, copy>>
        /\ disk' = [disk EXCEPT ![f] = F!NoObjects(f)]
        /\ crossed' = crossed \cup F!Busy(f)
        BY <1>b, <1>e, <1>8 DEF F!Unlink, F!KeysOf
  <2>2. \/ F!Busy(f) = {} /\ kept' = [kept EXCEPT ![q] = None]
        \/ /\ F!Busy(f) # {}
           /\ kept' = [k \in Keys |-> IF FileOf[k] = f THEN Torn ELSE kept[k]]
        BY <1>8 DEF F!Unlink, F!Doubt
  <2>3. F!NoObjects(f) \in F!Content(f) /\ F!NoObjects(f)[q] = None
        BY <2>1 DEF F!NoObjects, F!Content
  <2>4. \A k \in Keys : /\ FileOf[k] = f <=> k = q
                        /\ k # q => kept'[k] = kept[k]
        BY <1>a, <2>1, <2>2 DEF F!KeysOf, F!TypeOK
  <2>5. \A u \in Threads : FilOn(u, f) <=> u \in F!Busy(f)
        BY DEF FilOn, F!Busy
  <2>6. /\ disk'[f] = F!NoObjects(f) /\ F!NoObjects(f) # Torn
        /\ \A g \in F!Files \ {f} : disk'[g] = disk[g]
        BY <1>a, <1>b, <1>d, <2>1, <2>3 DEF F!TypeOK
  <2>7. FilTypes'
    <3>1. /\ disk' \in [F!Files -> F!Copy \cup {Torn}]
          /\ \A g \in F!Files : disk'[g] = Torn \/ disk'[g] \in F!Content(g)
          BY <1>a, <1>d, <2>1, <2>3, <2>6 DEF F!TypeOK
    <3>2. kept' \in [Keys -> Values \cup {None, Torn}]
          BY <1>a, <2>2 DEF F!TypeOK
    <3>3. crossed' \subseteq {u \in Threads : call'[u] # None}
          BY <1>a, <2>1 DEF F!TypeOK, F!Busy
    <3> QED BY <1>a, <2>1, <3>1, <3>2, <3>3 DEF FilTypes, F!TypeOK, F!Target
  <2>8. FilAlone'
        BY <1>a, <2>1 DEF FilAlone, FilOn
  <2>9. FilDoubt'
    <3> SUFFICES ASSUME NEW u \in crossed', NEW k \in Keys, FileOf[k] = F!Target(u)'
                 PROVE  kept'[k] = Torn
        BY DEF FilDoubt
    <3>1. FileOf[k] = F!Target(u) /\ u \in Threads /\ call[u] # None
          BY <1>a, <2>1 DEF F!Target, F!TypeOK, F!Busy
    <3>2. CASE FileOf[k] = f
          BY <2>2, <2>5, <3>1, <3>2 DEF FilOn, F!Target
    <3>3. CASE FileOf[k] # f
      <4>1. u \in crossed
            BY <2>1, <3>1, <3>3 DEF F!Busy, F!Target
      <4> QED BY <1>a, <2>4, <3>1, <3>3, <4>1 DEF FilDoubt
    <3> QED BY <3>2, <3>3
  <2>10. FilDisk'
    <3> SUFFICES ASSUME NEW k \in Keys, kept'[k] # Torn,
                        \A u \in Threads : pc'[u] = "write" => F!Target(u)' # FileOf[k]
                 PROVE  disk'[FileOf[k]] # Torn /\ disk'[FileOf[k]][k] = kept'[k]
        BY DEF FilDisk
    <3>1. CASE k = q
      <4>1. kept'[k] = None
            BY <1>a, <2>2, <3>1 DEF F!TypeOK
      <4> QED BY <2>3, <2>6, <3>1, <4>1
    <3>2. CASE k # q
      <4>1. \A u \in Threads : pc[u] = "write" => F!Target(u) # FileOf[k]
            BY <2>1 DEF F!Target
      <4> QED BY <1>a, <1>e, <2>4, <2>6, <3>2, <4>1 DEF FilDisk
    <3> QED BY <3>1, <3>2
  <2>11. \A u \in Threads : FilCopies(u)'
    <3> SUFFICES ASSUME NEW u \in Threads, pc[u] \in {"open", "write"}, u \notin crossed',
                        NEW k \in F!KeysOf(F!Target(u)) \ {call[u].key}, kept'[k] # Torn
                 PROVE  copy[u][k] = kept'[k]
        BY <2>1 DEF FilCopies, F!Target
    <3>1. u \notin crossed /\ F!Target(u) # f
          BY <1>c, <2>1, <2>5
    <3>2. kept'[k] = kept[k] /\ k \in Keys
          BY <2>4, <3>1 DEF F!KeysOf
    <3> QED BY <1>a, <3>1, <3>2 DEF FilCopies
  <2> QED BY <2>7, <2>8, <2>9, <2>10, <2>11 DEF FilInv
<1>9. ASSUME F!Crash PROVE FilInv'
  <2>1. /\ \A t \in Threads : pc'[t] = "idle" /\ call'[t] = None /\ copy'[t] = None
        /\ crossed' = {} /\ disk' = disk
        BY <1>9 DEF F!Crash
  <2>2. kept' \in [Keys -> Values \cup {None, Torn}]
        BY <1>a, <1>9 DEF F!Crash, F!Doubt, F!TypeOK
  <2>3. \A k \in Keys : kept'[k] # Torn =>
            /\ kept'[k] = kept[k]
            /\ \A t \in Threads : pc[t] = "write" => F!Target(t) # FileOf[k]
        BY <1>9 DEF F!Crash, F!Doubt
  <2>4. FilTypes'
        BY <1>a, <1>9, <2>1, <2>2 DEF FilTypes, F!TypeOK, F!Crash
  <2>5. FilAlone' /\ FilDoubt' /\ \A t \in Threads : FilCopies(t)'
        BY <2>1 DEF FilAlone, FilOn, FilDoubt, FilCopies
  <2>6. FilDisk'
        BY <1>a, <2>1, <2>3 DEF FilDisk
  <2> QED BY <2>4, <2>5, <2>6 DEF FilInv
<1> QED
    BY <1>1, <1>3, <1>4, <1>5, <1>6, <1>7, <1>8, <1>9 DEF F!Next

LEMMA FilFrame == FilInv /\ UNCHANGED <<threadVars, fileVars>> => FilInv'
BY DEF threadVars, fileVars, FilInv, FilTypes, F!TypeOK, F!Target, FilAlone, FilOn,
       FilDoubt, FilDisk, FilCopies

LEMMA FilAlways == Spec => [](used = "files" => FilInv)
<1> DEFINE Inv == used = "files" => FilInv
<1>1. Init => Inv
      BY FilInit, PartsAssumption DEF Init
<1>2. Inv /\ [Next]_vars => Inv'
  <2>1. CASE UNCHANGED vars
        BY <2>1, FilFrame DEF vars, threadVars, fileVars
  <2>2. CASE Next
        BY <2>2, FilStep, PartsAssumption DEF Next
  <2> QED BY <2>1, <2>2
<1> QED BY <1>1, <1>2, PTL DEF Spec

LEMMA FilSafe == FilInv => F!ChangesAreKept
<1> SUFFICES ASSUME FilInv, NEW k \in Keys, kept[k] # Torn, F!Busy(FileOf[k]) = {}
             PROVE  disk[FileOf[k]] # Torn /\ disk[FileOf[k]][k] = kept[k]
    BY DEF F!ChangesAreKept
<1>1. \A t \in Threads : pc[t] = "write" => F!Target(t) # FileOf[k]
      BY DEF FilInv, FilTypes, F!TypeOK, F!Busy, F!Target
<1> QED BY <1>1 DEF FilInv, FilDisk

(* For any number of callers, objects and files: a key, a secret or a      *)
(* named object that a call has stored stays as it is until another call   *)
(* changes it, whatever fails or dies between; unless two calls met on its *)
(* file or one left it truncated (secrets.py:82-91, auth.py:100-107).      *)
THEOREM StoredChangesAreKept == Spec => []ChangesAreKept
<1>1. (used = "files" => FilInv) => ChangesAreKept
      BY FilSafe DEF ChangesAreKept
<1> QED BY <1>1, FilAlways, PTL

-----------------------------------------------------------------------------
(***************************************************************************)
(* The mirrors                                                             *)
(***************************************************************************)
(* Saves that no other save has met. *)
MirAlone == M!Saving \ mixed

(* The file is as one save alone has written it. *)
MirCertain == trust # "mixed" /\ mixed = {} /\ saved # Torn

(* What a call can be about to do. *)
MirCalls ==
    \A t \in Threads :
        /\ pc[t] = "add" => call[t].op = "add"
        /\ pc[t] = "sync" => call[t].op = "sync"
        /\ pc[t] = "rmtree" => call[t].op = "remove"

MirMixed == mixed \subseteq M!Saving /\ \A t \in MirAlone : M!Saving = {t}

(* A call that works on a mirror while it is removed has been noted. *)
MirRace ==
    \A t, u \in Threads :
        /\ t # u /\ call[t] # None /\ call[u] # None
        /\ call[t].op = "remove" /\ call[u].name = call[t].name
        => call[t].name \in raced

(* What is listed as synced, in memory or in a text that a restart may     *)
(* load, has its files.                                                    *)
MirFilled ==
    \A n \in Names \ raced :
        /\ mirrors[n] = "synced" => n \in filled
        /\ \A t \in MirAlone : snap[t][n] = "synced" => n \in filled
        /\ MirCertain /\ saved[n] = "synced" => n \in filled

(* A mirror being removed is listed nowhere when its directory goes. *)
MirRemoved ==
    \A t \in Threads :
        call[t] # None /\ call[t].op = "remove" /\ call[t].name \notin raced =>
          LET n == call[t].name
          IN  /\ mirrors[n] = "absent"
              /\ pc[t] \in {"open", "write"} => snap[t][n] = "absent"
              /\ pc[t] = "rmtree" =>
                   /\ \A u \in MirAlone : snap[u][n] = "absent"
                   /\ MirCertain => saved[n] = "absent"

(* A text to be saved is what is in memory, unless another call has still  *)
(* to save.                                                                *)
MirMemory ==
    /\ trust = "saved" /\ M!Saving = {} /\ (\A t \in Threads : pc[t] # "save")
         => M!Loaded(saved) = mirrors
    /\ \A t \in MirAlone : snap[t] = mirrors \/ \E u \in Threads : pc[u] = "save"

MirInv ==
    /\ M!TypeOK /\ MirCalls /\ MirMixed /\ MirRace
    /\ MirFilled /\ MirRemoved /\ MirMemory

LEMMA MirInit == PartsAssumption /\ M!Init => MirInv
<1> SUFFICES ASSUME PartsAssumption, M!Init PROVE MirInv
    OBVIOUS
<1> USE DEF M!Init, M!Empty, M!Listing, M!Mirror
<1>1. Torn \notin M!Listing
      BY DEF PartsAssumption, M!MirrorsAssumption
<1>2. M!TypeOK
      BY DEF M!TypeOK, M!Steps
<1>3. M!Saving = {}
      BY DEF M!Saving
<1>4. MirCalls /\ MirMixed /\ MirRace
      BY <1>3 DEF MirCalls, MirMixed, MirRace, MirAlone
<1>5. MirFilled /\ MirRemoved
      BY <1>3 DEF MirFilled, MirRemoved, MirAlone
<1>6. MirMemory
      BY <1>3 DEF MirMemory, MirAlone, M!Loaded
<1> QED BY <1>2, <1>4, <1>5, <1>6 DEF MirInv
(* A step of thread t leaves the others where they are. *)
MirOthers(t) ==
    \A u \in Threads \ {t} : pc'[u] = pc[u] /\ call'[u] = call[u] /\ snap'[u] = snap[u]

(* The start of a call: another one on the same mirror is noted when one   *)
(* of the two is a removal.                                                *)
LEMMA MirBegin ==
    ASSUME PartsAssumption, MirInv, NEW t \in Threads, NEW n \in Names,
           NEW op \in {"add", "remove", "sync"},
           NEW step \in {"add", "sync", "save"}, M!Begin(t, op, n, step),
           snap' = snap
    PROVE  /\ pc' \in [Threads -> M!Steps]
           /\ call' \in [Threads -> M!Calls \cup {None}]
           /\ \A u \in Threads : pc'[u] = "idle" <=> call'[u] = None
           /\ pc[t] = "idle" /\ pc'[t] = step
           /\ call'[t] = [op |-> op, name |-> n]
           /\ MirOthers(t)
           /\ M!Saving' = M!Saving
           /\ raced \subseteq raced' /\ raced' \subseteq Names
           /\ MirRace'
<1>1. M!TypeOK /\ MirRace
      BY DEF MirInv
<1>2. [op |-> op, name |-> n] \in M!Calls
      BY DEF M!Calls
<1>3. None \notin M!Calls
      BY DEF PartsAssumption, M!MirrorsAssumption
<1>4. /\ pc \in [Threads -> M!Steps] /\ pc' \in [Threads -> M!Steps]
      /\ call' \in [Threads -> M!Calls \cup {None}]
      /\ pc[t] = "idle" /\ pc'[t] = step
      /\ call'[t] = [op |-> op, name |-> n]
      /\ MirOthers(t)
      BY <1>1, <1>2 DEF M!TypeOK, M!Begin, M!GoTo, M!Steps, MirOthers
<1>5. \A u \in Threads : pc'[u] = "idle" <=> call'[u] = None
      BY <1>1, <1>2, <1>3, <1>4 DEF M!TypeOK, MirOthers
<1>6. M!Saving' = M!Saving
      BY <1>4 DEF M!Saving, MirOthers
<1>7. raced \subseteq raced' /\ raced' \subseteq Names
      BY <1>1 DEF M!TypeOK, M!Begin
<1>8. \A u \in Threads \ {t} :
          call[u] # None /\ call[u].name = n /\ "remove" \in {op, call[u].op}
            => n \in raced'
      BY DEF M!Begin
<1>9. MirRace'
      BY <1>1, <1>4, <1>7, <1>8 DEF MirRace, MirOthers
<1> QED BY <1>4, <1>5, <1>6, <1>7, <1>9

LEMMA MirStep == PartsAssumption /\ MirInv /\ M!Next => MirInv'
<1> SUFFICES ASSUME PartsAssumption, MirInv, M!Next PROVE MirInv'
    OBVIOUS
<1>a. /\ M!TypeOK /\ MirCalls /\ MirMixed /\ MirRace
      /\ MirFilled /\ MirRemoved /\ MirMemory
      BY DEF MirInv
<1>b. Torn \notin M!Listing /\ None \notin M!Calls
      BY DEF PartsAssumption, M!MirrorsAssumption
<1>1. ASSUME NEW t \in Threads, NEW n \in Names, M!Add(t, n) PROVE MirInv'
  <2>1. /\ pc' \in [Threads -> M!Steps]
        /\ call' \in [Threads -> M!Calls \cup {None}]
        /\ \A u \in Threads : pc'[u] = "idle" <=> call'[u] = None
        /\ pc[t] = "idle" /\ pc'[t] = "add"
        /\ call'[t] = [op |-> "add", name |-> n]
        /\ MirOthers(t)
        /\ M!Saving' = M!Saving
        /\ raced \subseteq raced' /\ raced' \subseteq Names
        /\ MirRace'
        BY <1>1, MirBegin DEF M!Add
  <2>2. UNCHANGED <<mirrors, saved, filled, snap, bound, trust, mixed>>
        BY <1>1 DEF M!Add
  <2>3. M!TypeOK'
        BY <1>a, <2>1, <2>2 DEF M!TypeOK
  <2>4. MirCalls'
        BY <1>a, <2>1 DEF MirCalls, MirOthers
  <2>5. MirMixed' /\ MirAlone' = MirAlone /\ MirCertain' = MirCertain
        BY <1>a, <2>1, <2>2 DEF MirMixed, MirAlone, MirCertain
  <2>6. MirFilled'
        BY <1>a, <2>1, <2>2, <2>5 DEF MirFilled
  <2>7. MirRemoved'
        BY <1>a, <2>1, <2>2, <2>5 DEF MirRemoved, MirOthers
  <2>8. MirMemory'
        BY <1>a, <2>1, <2>2, <2>5 DEF MirMemory, MirOthers, M!Loaded
  <2> QED BY <2>1, <2>3, <2>4, <2>5, <2>6, <2>7, <2>8 DEF MirInv
<1>2. ASSUME NEW t \in Threads, NEW n \in Names, M!Remove(t, n) PROVE MirInv'
  <2>1. /\ pc' \in [Threads -> M!Steps]
        /\ call' \in [Threads -> M!Calls \cup {None}]
        /\ \A u \in Threads : pc'[u] = "idle" <=> call'[u] = None
        /\ pc[t] = "idle" /\ pc'[t] = "save"
        /\ call'[t] = [op |-> "remove", name |-> n]
        /\ MirOthers(t)
        /\ M!Saving' = M!Saving
        /\ raced \subseteq raced' /\ raced' \subseteq Names
        /\ MirRace'
        BY <1>2, MirBegin DEF M!Remove
  <2>2. /\ UNCHANGED <<saved, filled, snap, trust, mixed>>
        /\ mirrors' = [mirrors EXCEPT ![n] = "absent"]
        /\ bound' \in [Threads -> BOOLEAN]
        BY <1>2 DEF M!Remove, M!Unbound
  <2>3. M!TypeOK'
        BY <1>a, <2>1, <2>2 DEF M!TypeOK, M!Listing, M!Mirror
  <2>4. MirCalls'
        BY <1>a, <2>1 DEF MirCalls, MirOthers
  <2>5. MirMixed' /\ MirAlone' = MirAlone /\ MirCertain' = MirCertain
        BY <1>a, <2>1, <2>2 DEF MirMixed, MirAlone, MirCertain
  <2>6. /\ mirrors'[n] = "absent"
        /\ \A m \in Names \ {n} : mirrors'[m] = mirrors[m]
        BY <1>a, <2>2 DEF M!TypeOK, M!Listing
  <2>7. MirFilled'
        BY <1>a, <2>1, <2>2, <2>5, <2>6 DEF MirFilled
  <2>8. MirRemoved'
        BY <1>a, <2>1, <2>2, <2>5, <2>6 DEF MirRemoved, MirOthers, M!TypeOK, M!Calls
  <2>9. MirMemory'
        BY <1>a, <2>1, <2>2, <2>5 DEF MirMemory, MirOthers
  <2> QED BY <2>1, <2>3, <2>4, <2>5, <2>7, <2>8, <2>9 DEF MirInv
<1>3. ASSUME NEW t \in Threads, NEW n \in Names, M!Sync(t, n) PROVE MirInv'
  <2>1. /\ pc' \in [Threads -> M!Steps]
        /\ call' \in [Threads -> M!Calls \cup {None}]
        /\ \A u \in Threads : pc'[u] = "idle" <=> call'[u] = None
        /\ pc[t] = "idle" /\ pc'[t] = "sync"
        /\ call'[t] = [op |-> "sync", name |-> n]
        /\ MirOthers(t)
        /\ M!Saving' = M!Saving
        /\ raced \subseteq raced' /\ raced' \subseteq Names
        /\ MirRace'
        BY <1>3, MirBegin DEF M!Sync
  <2>2. UNCHANGED <<mirrors, saved, filled, snap, trust, mixed>>
        BY <1>3 DEF M!Sync
  <2>3. M!TypeOK'
        BY <1>a, <1>3, <2>1, <2>2 DEF M!TypeOK, M!Sync
  <2>4. MirCalls'
        BY <1>a, <2>1 DEF MirCalls, MirOthers
  <2>5. MirMixed' /\ MirAlone' = MirAlone /\ MirCertain' = MirCertain
        BY <1>a, <2>1, <2>2 DEF MirMixed, MirAlone, MirCertain
  <2>6. MirFilled'
        BY <1>a, <2>1, <2>2, <2>5 DEF MirFilled
  <2>7. MirRemoved'
        BY <1>a, <2>1, <2>2, <2>5 DEF MirRemoved, MirOthers
  <2>8. MirMemory'
        BY <1>a, <2>1, <2>2, <2>5 DEF MirMemory, MirOthers, M!Loaded
  <2> QED BY <2>1, <2>3, <2>4, <2>5, <2>6, <2>7, <2>8 DEF MirInv
<1>4. ASSUME NEW t \in Threads, M!AddBind(t) PROVE MirInv'
  <2>1. /\ pc[t] = "add" /\ pc'[t] = "save" /\ call[t].op = "add" /\ call[t] # None
        /\ call[t].name \in Names
        /\ MirOthers(t) /\ call' = call
        BY <1>a, <1>b, <1>4 DEF M!AddBind, M!GoTo, M!TypeOK, M!Calls, MirOthers, MirCalls
  <2>2. /\ UNCHANGED <<saved, filled, snap, trust, mixed, raced>>
        /\ mirrors' = [mirrors EXCEPT ![call[t].name] = "new"]
        /\ bound' \in [Threads -> BOOLEAN]
        BY <1>4 DEF M!AddBind, M!Unbound
  <2>3. M!TypeOK'
        BY <1>a, <1>4, <2>1, <2>2 DEF M!TypeOK, M!Listing, M!Mirror, M!AddBind, M!GoTo, M!Steps
  <2>4. MirCalls' /\ M!Saving' = M!Saving
        BY <1>a, <2>1 DEF MirCalls, MirOthers, M!Saving
  <2>5. MirMixed' /\ MirAlone' = MirAlone /\ MirCertain' = MirCertain
        BY <1>a, <2>2, <2>4 DEF MirMixed, MirAlone, MirCertain
  <2>6. /\ mirrors'[call[t].name] = "new"
        /\ \A m \in Names \ {call[t].name} : mirrors'[m] = mirrors[m]
        BY <1>a, <2>1, <2>2 DEF M!TypeOK, M!Listing
  <2>7. MirFilled'
        BY <1>a, <2>2, <2>5, <2>6 DEF MirFilled
  <2>8. MirRemoved'
    <3>1. \A u \in Threads : call[u] # None /\ call[u].op = "remove"
              /\ call[u].name \notin raced => call[u].name # call[t].name
          BY <1>a, <2>1 DEF MirRace
    <3> QED BY <1>a, <2>1, <2>2, <2>5, <2>6, <3>1 DEF MirRemoved, MirOthers, M!TypeOK, M!Calls
  <2>9. MirMemory'
        BY <1>a, <2>1, <2>2, <2>5 DEF MirMemory, MirOthers
  <2>10. MirRace'
        BY <1>a, <2>1, <2>2 DEF MirRace
  <2> QED BY <2>3, <2>4, <2>5, <2>7, <2>8, <2>9, <2>10 DEF MirInv
<1>5. ASSUME NEW t \in Threads, M!SyncEnd(t) PROVE MirInv'
  <2>1. /\ pc[t] = "sync" /\ pc'[t] = "save" /\ call[t].op = "sync" /\ call[t] # None
        /\ call[t].name \in Names
        /\ MirOthers(t) /\ call' = call
        BY <1>a, <1>b, <1>5 DEF M!SyncEnd, M!GoTo, M!TypeOK, M!Calls, MirOthers, MirCalls
  <2>2. /\ UNCHANGED <<saved, snap, trust, mixed, raced>>
        /\ filled' = filled \cup {call[t].name}
        /\ \/ mirrors' = mirrors
           \/ mirrors' = [mirrors EXCEPT ![call[t].name] = "synced"]
        BY <1>5 DEF M!SyncEnd
  <2>3. M!TypeOK'
    <3>1. /\ mirrors' \in M!Listing /\ filled' \subseteq Names
          BY <1>a, <2>1, <2>2 DEF M!TypeOK, M!Listing, M!Mirror
    <3> QED BY <1>a, <1>5, <2>1, <2>2, <3>1 DEF M!TypeOK, M!SyncEnd, M!GoTo, M!Steps
  <2>4. MirCalls' /\ M!Saving' = M!Saving
        BY <1>a, <2>1 DEF MirCalls, MirOthers, M!Saving
  <2>5. MirMixed' /\ MirAlone' = MirAlone /\ MirCertain' = MirCertain
        BY <1>a, <2>2, <2>4 DEF MirMixed, MirAlone, MirCertain
  <2>6. \A m \in Names \ {call[t].name} : mirrors'[m] = mirrors[m]
        BY <1>a, <2>1, <2>2 DEF M!TypeOK, M!Listing
  <2>7. MirFilled'
        BY <1>a, <2>2, <2>5, <2>6 DEF MirFilled
  <2>8. MirRemoved'
    <3>1. \A u \in Threads : call[u] # None /\ call[u].op = "remove"
              /\ call[u].name \notin raced => call[u].name # call[t].name
          BY <1>a, <2>1 DEF MirRace
    <3> QED BY <1>a, <2>1, <2>2, <2>5, <2>6, <3>1 DEF MirRemoved, MirOthers, M!TypeOK, M!Calls
  <2>9. MirMemory'
        BY <1>a, <2>1, <2>2, <2>5 DEF MirMemory, MirOthers
  <2>10. MirRace'
        BY <1>a, <2>1, <2>2 DEF MirRace
  <2> QED BY <2>3, <2>4, <2>5, <2>7, <2>8, <2>9, <2>10 DEF MirInv
<1>6. ASSUME NEW t \in Threads, M!SyncFails(t) \/ M!RemoveTree(t) PROVE MirInv'
  <2>1. /\ pc[t] \in {"sync", "rmtree"} /\ pc'[t] = "idle" /\ call'[t] = None
        /\ call[t] # None /\ call[t].name \in Names
        /\ MirOthers(t)
        BY <1>a, <1>b, <1>6 DEF M!SyncFails, M!RemoveTree, M!Return, M!GoTo, M!TypeOK,
           M!Calls, MirOthers
  <2>2. /\ UNCHANGED <<mirrors, saved, snap, trust, mixed, raced>>
        /\ \/ filled' = filled
           \/ pc[t] = "rmtree" /\ filled' = filled \ {call[t].name}
        BY <1>6 DEF M!SyncFails, M!RemoveTree
  <2>3. M!TypeOK'
    <3>1. /\ pc' \in [Threads -> M!Steps] /\ call' \in [Threads -> M!Calls \cup {None}]
          /\ bound' \in [Threads -> BOOLEAN]
          BY <1>a, <1>6 DEF M!TypeOK, M!SyncFails, M!RemoveTree, M!Return, M!GoTo, M!Steps
    <3> QED BY <1>a, <2>1, <2>2, <3>1 DEF M!TypeOK, MirOthers
  <2>4. MirCalls' /\ M!Saving' = M!Saving
        BY <1>a, <2>1 DEF MirCalls, MirOthers, M!Saving
  <2>5. MirMixed' /\ MirAlone' = MirAlone /\ MirCertain' = MirCertain
        BY <1>a, <2>2, <2>4 DEF MirMixed, MirAlone, MirCertain
  <2>6. pc[t] = "rmtree" /\ call[t].name \notin raced =>
            /\ mirrors[call[t].name] = "absent"
            /\ \A u \in MirAlone : snap[u][call[t].name] = "absent"
            /\ MirCertain => saved[call[t].name] = "absent"
        BY <1>a, <2>1 DEF MirCalls, MirRemoved
  <2>7. MirFilled'
        BY <1>a, <2>2, <2>5, <2>6 DEF MirFilled
  <2>8. MirRemoved'
        BY <1>a, <2>1, <2>2, <2>5 DEF MirRemoved, MirOthers
  <2>9. MirMemory'
        BY <1>a, <2>1, <2>2, <2>4, <2>5 DEF MirMemory, MirOthers, M!Loaded
  <2>10. MirRace'
        BY <1>a, <2>1, <2>2 DEF MirRace, MirOthers
  <2> QED BY <2>3, <2>4, <2>5, <2>7, <2>8, <2>9, <2>10 DEF MirInv
<1>7. ASSUME NEW t \in Threads, M!Snapshot(t) PROVE MirInv'
  <2>1. /\ pc[t] = "save" /\ pc'[t] = "open" /\ call' = call
        /\ \A u \in Threads \ {t} : pc'[u] = pc[u] /\ snap'[u] = snap[u]
        /\ snap'[t] = mirrors
        /\ UNCHANGED <<mirrors, saved, filled, bound, trust, raced>>
        BY <1>a, <1>7 DEF M!Snapshot, M!GoTo, M!TypeOK
  <2>2. M!Saving' = M!Saving \cup {t} /\ t \notin M!Saving
        BY <2>1 DEF M!Saving
  <2>3. \/ M!Saving # {} /\ mixed' = M!Saving'
        \/ M!Saving = {} /\ mixed' = {}
        BY <1>7, <2>2 DEF M!Snapshot
  <2>4. M!TypeOK'
    <3>1. mixed' \subseteq Threads
          BY <2>3 DEF M!Saving
    <3> QED BY <1>a, <1>7, <2>1, <3>1 DEF M!TypeOK, M!Snapshot, M!GoTo, M!Steps
  <2>5. MirCalls'
        BY <1>a, <2>1 DEF MirCalls
  <2>6. MirMixed' /\ MirAlone' \subseteq {t} /\ (MirCertain' => MirCertain)
        BY <1>a, <2>1, <2>2, <2>3 DEF MirMixed, MirAlone, MirCertain
  <2>7. MirRace'
        BY <1>a, <2>1 DEF MirRace
  <2>8. MirFilled'
        BY <1>a, <2>1, <2>6 DEF MirFilled
  <2>9. MirRemoved'
        BY <1>a, <2>1, <2>6 DEF MirRemoved
  <2>10. MirMemory'
        BY <1>a, <2>1, <2>2, <2>6 DEF MirMemory
  <2> QED BY <2>4, <2>5, <2>6, <2>7, <2>8, <2>9, <2>10 DEF MirInv
<1>8. ASSUME NEW t \in Threads, M!Open(t) PROVE MirInv'
  <2>1. /\ pc[t] = "open" /\ pc'[t] = "write"
        /\ \A u \in Threads \ {t} : pc'[u] = pc[u]
        /\ UNCHANGED <<mirrors, filled, call, snap, bound, trust, mixed, raced>>
        /\ saved' = Torn
        BY <1>a, <1>8 DEF M!Open, M!GoTo, M!TypeOK
  <2>2. M!Saving' = M!Saving /\ M!Saving # {}
        BY <2>1 DEF M!Saving
  <2>3. M!TypeOK'
        BY <1>a, <1>8, <2>1 DEF M!TypeOK, M!Open, M!GoTo, M!Steps
  <2>4. MirCalls'
        BY <1>a, <2>1 DEF MirCalls
  <2>5. MirMixed' /\ MirAlone' = MirAlone /\ ~MirCertain'
        BY <1>a, <2>1, <2>2 DEF MirMixed, MirAlone, MirCertain
  <2>6. MirRace' /\ MirFilled'
        BY <1>a, <2>1, <2>5 DEF MirRace, MirFilled
  <2>7. MirRemoved'
        BY <1>a, <2>1, <2>5 DEF MirRemoved
  <2>8. MirMemory'
        BY <1>a, <2>1, <2>2, <2>5 DEF MirMemory
  <2> QED BY <2>3, <2>4, <2>5, <2>6, <2>7, <2>8 DEF MirInv
<1>9. ASSUME NEW t \in Threads, M!Write(t) PROVE MirInv'
  <2>1. /\ pc[t] = "write" /\ MirOthers(t)
        /\ \/ pc'[t] = "rmtree" /\ call' = call /\ call[t].op = "remove"
           \/ pc'[t] = "idle" /\ call'[t] = None
        /\ UNCHANGED <<mirrors, filled, bound, raced>>
        BY <1>a, <1>9 DEF M!Write, M!Return, M!GoTo, M!TypeOK, MirOthers
  <2>2. /\ M!Saving' = M!Saving \ {t} /\ t \in M!Saving
        /\ mixed' = mixed \ {t}
        BY <1>9, <2>1 DEF M!Saving, MirOthers, M!Write
  <2>3. snap[t] \in M!Listing /\ M!Empty \in M!Listing
        BY <1>a DEF M!TypeOK, M!Empty, M!Listing, M!Mirror
  <2>4. M!TypeOK'
    <3>1. /\ pc' \in [Threads -> M!Steps] /\ call' \in [Threads -> M!Calls \cup {None}]
          /\ snap' \in [Threads -> M!Listing]
          BY <1>a, <1>9, <2>3 DEF M!TypeOK, M!Write, M!Return, M!GoTo, M!Steps
    <3>2. saved' \in M!Listing \cup {Torn} /\ trust' \in {"saved", "behind", "mixed"}
          BY <1>a, <1>9, <2>3 DEF M!TypeOK, M!Write
    <3>3. \A u \in Threads : pc'[u] = "idle" <=> call'[u] = None
          BY <1>a, <2>1 DEF M!TypeOK, MirOthers
    <3> QED BY <1>a, <2>1, <2>2, <3>1, <3>2, <3>3 DEF M!TypeOK
  <2>5. MirCalls'
        BY <1>a, <2>1 DEF MirCalls, MirOthers
  <2>6. MirMixed' /\ MirAlone' = MirAlone \ {t}
        BY <1>a, <2>2 DEF MirMixed, MirAlone
  <2>7. /\ MirCertain' => t \in MirAlone /\ saved' = snap[t]
        /\ trust' = "saved" => t \in MirAlone /\ saved' = snap[t]
        /\ \A u \in MirAlone' : u \in MirAlone /\ u \in Threads /\ snap'[u] = snap[u]
    <3>1. trust' # "mixed" => t \notin mixed /\ saved' = snap[t]
          BY <1>9 DEF M!Write
    <3>2. \A u \in MirAlone' : u \in MirAlone /\ u \in Threads /\ u # t
          BY <2>6 DEF MirAlone, M!Saving
    <3> QED BY <2>1, <2>2, <3>1, <3>2 DEF MirAlone, MirCertain, MirOthers
  <2>8. MirRace'
        BY <1>a, <2>1 DEF MirRace, MirOthers
  <2>9. MirFilled'
        BY <1>a, <2>1, <2>7 DEF MirFilled
  <2>10. MirRemoved'
    <3>1. ASSUME NEW u \in Threads, call'[u] # None, call'[u].op = "remove",
                 call'[u].name \notin raced
          PROVE  /\ call[u] = call'[u] /\ mirrors[call[u].name] = "absent"
                 /\ pc'[u] \in {"open", "write"} => u # t /\ snap'[u][call[u].name] = "absent"
          BY <1>a, <2>1, <3>1 DEF MirRemoved, MirOthers
    <3>2. ASSUME NEW u \in Threads, call[u] # None, call[u].op = "remove",
                 call[u].name \notin raced, pc'[u] = "rmtree"
          PROVE  \A v \in MirAlone : snap[v][call[u].name] = "absent"
      <4>1. CASE u = t
            BY <1>a, <2>1, <2>2, <3>2, <4>1 DEF MirRemoved, MirMixed, MirAlone
      <4>2. CASE u # t
            BY <1>a, <2>1, <3>2, <4>2 DEF MirRemoved, MirOthers
      <4> QED BY <4>1, <4>2
    <3> QED BY <2>1, <2>7, <3>1, <3>2 DEF MirRemoved
  <2>11. MirMemory'
        BY <1>a, <1>b, <2>1, <2>3, <2>6, <2>7 DEF MirMemory, MirOthers, M!Loaded
  <2> QED BY <2>4, <2>5, <2>6, <2>8, <2>9, <2>10, <2>11 DEF MirInv
<1>10. ASSUME NEW t \in Threads, M!SaveFail(t) PROVE MirInv'
  <2>1. /\ pc[t] \in {"save", "open", "write"} /\ MirOthers(t)
        /\ pc'[t] = "idle" /\ call'[t] = None
        /\ UNCHANGED <<mirrors, saved, filled, bound, raced>>
        BY <1>a, <1>10 DEF M!SaveFail, M!Return, M!GoTo, M!TypeOK, MirOthers
  <2>2. M!Saving' = M!Saving \ {t} /\ mixed' = M!Saving'
        BY <1>10, <2>1 DEF M!Saving, MirOthers, M!SaveFail
  <2>3. M!TypeOK'
    <3>1. /\ pc' \in [Threads -> M!Steps] /\ call' \in [Threads -> M!Calls \cup {None}]
          /\ snap' \in [Threads -> M!Listing]
          BY <1>a, <1>10 DEF M!TypeOK, M!SaveFail, M!Return, M!GoTo, M!Steps, M!Empty,
             M!Listing, M!Mirror
    <3>2. mixed' \subseteq Threads /\ trust' \in {"saved", "behind", "mixed"}
          BY <1>10 DEF M!SaveFail, M!Saving
    <3>3. \A u \in Threads : pc'[u] = "idle" <=> call'[u] = None
          BY <1>a, <2>1 DEF M!TypeOK, MirOthers
    <3> QED BY <1>a, <2>1, <3>1, <3>2, <3>3 DEF M!TypeOK
  <2>4. MirCalls'
        BY <1>a, <2>1 DEF MirCalls, MirOthers
  <2>5. MirMixed' /\ MirAlone' = {}
        BY <2>2 DEF MirMixed, MirAlone
  <2>6. MirCertain' => MirCertain
    <3>1. trust' # "mixed" => trust # "mixed" /\ t \notin mixed
          BY <1>10 DEF M!SaveFail
    <3> QED BY <1>a, <2>1, <2>2, <3>1 DEF MirMixed, MirCertain
  <2>7. trust' # "saved"
        BY <1>10 DEF M!SaveFail
  <2>8. MirRace'
        BY <1>a, <2>1 DEF MirRace, MirOthers
  <2>9. MirFilled'
        BY <1>a, <2>1, <2>5, <2>6 DEF MirFilled
  <2>10. MirRemoved'
        BY <1>a, <2>1, <2>5, <2>6 DEF MirRemoved, MirOthers
  <2>11. MirMemory'
        BY <2>5, <2>7 DEF MirMemory
  <2> QED BY <2>3, <2>4, <2>5, <2>8, <2>9, <2>10, <2>11 DEF MirInv
<1>11. ASSUME M!Restart PROVE MirInv'
  <2>1. /\ \A t \in Threads : pc'[t] = "idle" /\ call'[t] = None
        /\ mirrors' = M!Loaded(saved) /\ mixed' = {}
        /\ UNCHANGED <<saved, filled>>
        BY <1>11 DEF M!Restart
  <2>2. M!Saving' = {} /\ MirAlone' = {}
        BY <2>1 DEF M!Saving, MirAlone
  <2>3. M!Empty \in M!Listing /\ \A n \in Names : M!Empty[n] = "absent"
        BY DEF M!Empty, M!Listing, M!Mirror
  <2>4. M!TypeOK'
        BY <1>a, <1>11, <2>3 DEF M!TypeOK, M!Restart, M!Loaded, M!Steps
  <2>5. MirCalls' /\ MirMixed' /\ MirRace' /\ MirRemoved'
        BY <2>1, <2>2 DEF MirCalls, MirMixed, MirRace, MirRemoved
  <2>6. \A n \in Names \ raced' : n \notin raced /\ (saved # Torn => MirCertain)
        BY <1>11 DEF M!Restart, MirCertain
  <2>7. MirFilled'
        BY <1>a, <2>1, <2>2, <2>3, <2>6 DEF MirFilled, MirCertain, M!Loaded
  <2>8. MirMemory'
    <3>1. M!Loaded(saved)' = mirrors'
          BY <2>1 DEF M!Loaded, M!Empty
    <3> QED BY <2>2, <3>1 DEF MirMemory
  <2> QED BY <2>4, <2>5, <2>7, <2>8 DEF MirInv
<1> QED
    BY <1>1, <1>2, <1>3, <1>4, <1>5, <1>6, <1>7, <1>8, <1>9, <1>10, <1>11
    DEF M!Next

LEMMA MirSafe == MirInv => M!SyncedIsThere /\ M!FileIsMemory /\ M!TypeOK
BY DEF MirInv, MirFilled, MirMemory, M!SyncedIsThere, M!FileIsMemory, M!Saving

LEMMA MirFrame == MirInv /\ UNCHANGED <<threadVars, mirrorVars>> => MirInv'
BY DEF threadVars, mirrorVars, MirInv, M!TypeOK, MirCalls, MirMixed, MirRace,
       MirFilled, MirRemoved, MirMemory, M!Saving, MirAlone, MirCertain

LEMMA MirAlways == Spec => [](used = "mirrors" => MirInv)
<1> DEFINE Inv == used = "mirrors" => MirInv
<1>1. Init => Inv
      BY MirInit, PartsAssumption DEF Init
<1>2. Inv /\ [Next]_vars => Inv'
  <2>1. CASE UNCHANGED vars
        BY <2>1, MirFrame DEF vars, threadVars, mirrorVars
  <2>2. CASE Next
        BY <2>2, MirStep, PartsAssumption DEF Next
  <2> QED BY <2>1, <2>2
<1> QED BY <1>1, <1>2, PTL DEF Spec

(* For any number of callers and mirrors, whatever comes between a call's  *)
(* change and its save: after a save that met no other, a restart finds    *)
(* what the manager has in memory (repo_mirror.py:89).                     *)
THEOREM MirrorsFileIsMemory == Spec => []FileIsMemory
<1>1. (used = "mirrors" => MirInv) => FileIsMemory
      BY MirSafe DEF FileIsMemory
<1> QED BY <1>1, MirAlways, PTL

(* And a mirror that says when it was synced has its files, through        *)
(* failing saves, crashes and restarts: remove_mirror() saves before it    *)
(* deletes (repo_mirror.py:140-145).                                       *)
THEOREM SyncedMirrorsAreThere == Spec => []SyncedIsThere
<1>1. (used = "mirrors" => MirInv) => SyncedIsThere
      BY MirSafe DEF SyncedIsThere
<1> QED BY <1>1, MirAlways, PTL

-----------------------------------------------------------------------------
(***************************************************************************)
(* The images                                                              *)
(***************************************************************************)
ImgOn(t, i) == call[t] # None /\ call[t].image = i

(* What a call can be about to do. *)
ImgCalls ==
    \A t \in Threads :
        /\ pc[t] \in {"open", "copy", "stat", "meta", "write"} => call[t] \in C!Imports
        /\ pc[t] = "rmtree" => call[t] \in C!Deletions

(* Two calls that work on one image have been noted. *)
ImgCrossed ==
    \A t, u \in Threads, i \in Images :
        t # u /\ ImgOn(t, i) /\ ImgOn(u, i) => "crossed" \in excused[i]

(* A deletion under way has been noted, or another call beside it. *)
ImgDeletes(t) ==
    \A i \in Images :
        pc[t] = "rmtree" /\ ImgOn(t, i) => excused[i] \cap {"crossed", "incomplete"} # {}

(* An import that has met no other call has the file as its step leaves it *)
(* and, before its own metadata, none that name the file it has opened.    *)
ImgFills(t) ==
    LET i == call[t].image
        f == call[t].filename
    IN  pc[t] \in {"copy", "stat", "meta", "write"} /\ "crossed" \notin excused[i] =>
          /\ meta[i] \in C!Metadata /\ meta[i].filename = f => "rewritten" \in excused[i]
          /\ pc[t] = "copy" => file[i][f] # None
          /\ pc[t] \in {"stat", "meta", "write"} => file[i][f] \in C!DeliveredBy(call[t].source)
          /\ pc[t] \in {"meta", "write"} => size[t] = file[i][f]
          /\ pc[t] = "write" => meta[i] = Torn

ImgWhole(i) ==
    excused[i] = {} /\ meta[i] \in C!Metadata
      => /\ file[i][meta[i].filename] = meta[i].size_bytes
         /\ meta[i].size_bytes \in C!Delivered

ImgInv ==
    /\ C!TypeOK /\ ImgCalls /\ ImgCrossed
    /\ \A t \in Threads : ImgDeletes(t) /\ ImgFills(t)
    /\ \A i \in Images : ImgWhole(i)

LEMMA ImgInit == PartsAssumption /\ C!Init => ImgInv
<1> SUFFICES ASSUME PartsAssumption, C!Init PROVE ImgInv
    OBVIOUS
<1> USE DEF C!Init
<1>1. C!TypeOK
      BY DEF C!TypeOK, C!Steps
<1>2. None \notin C!Metadata
      BY DEF PartsAssumption, C!ImagesAssumption
<1> QED BY <1>1, <1>2 DEF ImgInv, ImgCalls, ImgCrossed, ImgOn, ImgDeletes, ImgFills, ImgWhole

(* A step of thread t, which works on image i, leaves other threads and    *)
(* other images alone, and what is noted about two calls on i.             *)
ImgLocal(t, i) ==
    /\ \A u \in Threads \ {t} : pc'[u] = pc[u] /\ call'[u] = call[u] /\ size'[u] = size[u]
    /\ \A j \in Images \ {i} :
         file'[j] = file[j] /\ meta'[j] = meta[j] /\ excused'[j] = excused[j]
    /\ "crossed" \in excused[i] => "crossed" \in excused'[i]
    /\ call'[t] = None \/ call'[t].image = i
    /\ \A u \in Threads \ {t} : ImgOn(u, i) => "crossed" \in excused'[i]

(* So what is to be shown of it is about t and i alone. *)
LEMMA ImgLocalStep ==
    ASSUME ImgInv, NEW t \in Threads, NEW i \in Images, ImgLocal(t, i),
           C!TypeOK', ImgCalls', ImgDeletes(t)', ImgFills(t)', ImgWhole(i)'
    PROVE  ImgInv'
<1>a. /\ C!TypeOK /\ ImgCalls /\ ImgCrossed
      /\ \A u \in Threads : ImgDeletes(u) /\ ImgFills(u)
      /\ \A j \in Images : ImgWhole(j)
      BY DEF ImgInv
<1>1. ImgCrossed'
      BY <1>a DEF ImgCrossed, ImgOn, ImgLocal
<1>2. \A u \in Threads \ {t} : ImgDeletes(u)'
      BY <1>a DEF ImgDeletes, ImgOn, ImgLocal
<1>3. \A u \in Threads \ {t} : ImgFills(u)'
  <2> SUFFICES ASSUME NEW u \in Threads \ {t} PROVE ImgFills(u)'
      OBVIOUS
  <2>1. ImgFills(u) /\ pc'[u] = pc[u] /\ call'[u] = call[u] /\ size'[u] = size[u]
        BY <1>a DEF ImgLocal
  <2>2. CASE pc[u] \in {"copy", "stat", "meta", "write"}
    <3>1. call[u] \in C!Imports /\ call[u] # None /\ call[u].image \in Images
          BY <1>a, <2>2 DEF ImgCalls, C!TypeOK, C!Imports
    <3>2. call[u].image = i => "crossed" \in excused'[i]
          BY <3>1 DEF ImgLocal, ImgOn
    <3>3. call[u].image # i =>
            LET j == call[u].image
            IN  file'[j] = file[j] /\ meta'[j] = meta[j] /\ excused'[j] = excused[j]
          BY <3>1 DEF ImgLocal
    <3> QED BY <2>1, <3>1, <3>2, <3>3 DEF ImgFills
  <2> QED BY <2>1, <2>2 DEF ImgFills
<1>4. \A j \in Images \ {i} : ImgWhole(j)'
      BY <1>a DEF ImgWhole, ImgLocal
<1> QED BY <1>1, <1>2, <1>3, <1>4 DEF ImgInv

LEMMA ImgStep == PartsAssumption /\ ImgInv /\ C!Next => ImgInv'
<1> SUFFICES ASSUME PartsAssumption, ImgInv, C!Next PROVE ImgInv'
    OBVIOUS
<1>a. /\ C!TypeOK /\ ImgCalls /\ ImgCrossed
      /\ \A t \in Threads : ImgDeletes(t) /\ ImgFills(t)
      /\ \A i \in Images : ImgWhole(i)
      BY DEF ImgInv
<1>b. /\ Part \notin C!Delivered \cup {None}
      /\ None \notin C!Delivered /\ None \notin C!Metadata
      /\ None \notin C!Imports /\ None \notin C!Deletions
      /\ Torn \notin C!Metadata /\ Torn # None
      BY DEF PartsAssumption, C!ImagesAssumption
<1>c. ASSUME NEW t \in Threads, pc[t] \in {"open", "copy", "stat", "meta", "write"}
      PROVE  /\ call[t] # None /\ call[t].op = "import" /\ call[t].image \in Images
             /\ call[t].filename \in Filenames /\ call[t].source \in Sources
             /\ C!DeliveredBy(call[t].source) \subseteq C!Delivered
             /\ ImgOn(t, call[t].image)
             /\ \A u \in Threads \ {t} :
                  ImgOn(u, call[t].image) => "crossed" \in excused[call[t].image]
  <2>1. call[t] \in C!Imports
        BY <1>a, <1>c DEF ImgCalls
  <2>2. call[t].source \in Sources
        BY <2>1 DEF C!Imports
  <2>3. C!DeliveredBy(call[t].source) \subseteq C!Delivered
        BY <2>2 DEF C!Delivered
  <2> QED BY <1>a, <1>b, <2>1, <2>2, <2>3 DEF C!Imports, ImgCrossed, ImgOn
<1>d. ASSUME NEW t \in Threads, pc[t] = "rmtree"
      PROVE  /\ call[t] # None /\ call[t].image \in Images
             /\ ImgOn(t, call[t].image)
             /\ \A u \in Threads \ {t} :
                  ImgOn(u, call[t].image) => "crossed" \in excused[call[t].image]
  <2>1. call[t] \in C!Deletions
        BY <1>a, <1>d DEF ImgCalls
  <2> QED BY <1>a, <1>b, <2>1 DEF C!Deletions, ImgCrossed, ImgOn
<1>1. ASSUME NEW t \in Threads, NEW c \in C!Imports, C!Import(t, c) PROVE ImgInv'
  <2> DEFINE i == c.image
  <2>1. /\ pc[t] = "idle" /\ pc'[t] = "open" /\ call'[t] = c /\ i \in Images
        /\ \A u \in Threads \ {t} : pc'[u] = pc[u] /\ call'[u] = call[u] /\ size'[u] = size[u]
        /\ UNCHANGED <<file, meta, size>>
        BY <1>a, <1>1 DEF C!Import, C!GoTo, C!TypeOK, C!Imports
  <2>2. excused' = [excused EXCEPT ![i] = excused[i] \cup C!Crossing(i)]
        BY <1>1 DEF C!Import, C!Excuse
  <2>3. \A u \in Threads \ {t} : ImgOn(u, i) => C!Crossing(i) = {"crossed"}
        BY DEF C!Crossing, ImgOn
  <2>4. C!Crossing(i) \subseteq {"crossed"}
        BY DEF C!Crossing
  <2>5. C!TypeOK'
        BY <1>a, <1>b, <1>1, <2>1, <2>2, <2>4 DEF C!TypeOK, C!Import, C!GoTo, C!Steps
  <2>6. ImgLocal(t, i)
        BY <1>a, <2>1, <2>2, <2>3 DEF ImgLocal, C!TypeOK
  <2>7. ImgCalls' /\ ImgDeletes(t)' /\ ImgFills(t)'
        BY <1>a, <2>1 DEF ImgCalls, ImgDeletes, ImgFills
  <2>8. ImgWhole(i)'
        BY <1>a, <2>1, <2>2 DEF ImgWhole, C!TypeOK
  <2> QED BY <2>1, <2>5, <2>6, <2>7, <2>8, ImgLocalStep
<1>2. ASSUME NEW t \in Threads, C!Open(t) PROVE ImgInv'
  <2> DEFINE i == call[t].image
  <2> DEFINE f == call[t].filename
  <2>1. /\ pc[t] = "open" /\ pc'[t] = "copy" /\ i \in Images /\ f \in Filenames
        /\ \A u \in Threads \ {t} : pc'[u] = pc[u] /\ call'[u] = call[u] /\ size'[u] = size[u]
        /\ UNCHANGED <<meta, size, call, present>> /\ i \in present
        BY <1>a, <1>c, <1>2 DEF C!Open, C!GoTo, C!TypeOK
  <2>2. /\ excused[i] \subseteq excused'[i]
        /\ meta[i] \in C!Metadata /\ meta[i].filename = f => "rewritten" \in excused'[i]
        /\ \A j \in Images \ {i} : excused'[j] = excused[j]
        /\ excused' \in [Images -> SUBSET {"crossed", "rewritten", "incomplete"}]
        BY <1>a, <1>2, <2>1 DEF C!Open, C!Excuse, C!TypeOK
  <2>3. /\ file'[i][f] = Part
        /\ \A g \in Filenames \ {f} : file'[i][g] = file[i][g]
        /\ \A j \in Images \ {i} : file'[j] = file[j]
        /\ file' \in [Images -> [Filenames -> C!Delivered \cup {Part, None}]]
        BY <1>a, <1>2, <2>1 DEF C!Open, C!TypeOK
  <2>4. C!TypeOK'
    <3>1. pc' \in [Threads -> C!Steps]
          BY <1>a, <1>2 DEF C!Open, C!GoTo, C!TypeOK, C!Steps
    <3>2. \A j \in Images \ present : meta'[j] = None /\ \A g \in Filenames : file'[j][g] = None
          BY <1>a, <2>1, <2>3 DEF C!TypeOK
    <3>3. \A u \in Threads : /\ pc'[u] = "idle" <=> call'[u] = None
                             /\ pc'[u] \in {"meta", "write"} <=> size'[u] # None
          BY <1>a, <2>1 DEF C!TypeOK
    <3> QED BY <1>a, <2>1, <2>2, <2>3, <3>1, <3>2, <3>3 DEF C!TypeOK
  <2>5. ImgLocal(t, i)
        BY <1>c, <2>1, <2>2, <2>3 DEF ImgLocal
  <2>6. ImgCalls' /\ ImgDeletes(t)'
        BY <1>a, <2>1 DEF ImgCalls, ImgDeletes
  <2>7. ImgFills(t)'
        BY <1>b, <2>1, <2>2, <2>3 DEF ImgFills
  <2>8. ImgWhole(i)'
        BY <1>a, <2>1, <2>2, <2>3 DEF ImgWhole, C!Metadata
  <2> QED BY <2>1, <2>4, <2>5, <2>6, <2>7, <2>8, ImgLocalStep
<1>3. ASSUME NEW t \in Threads, C!Copy(t) PROVE ImgInv'
  <2> DEFINE i == call[t].image
  <2> DEFINE f == call[t].filename
  <2>1. /\ pc[t] = "copy" /\ pc'[t] = "stat" /\ i \in Images /\ f \in Filenames
        /\ \A u \in Threads \ {t} : pc'[u] = pc[u] /\ call'[u] = call[u] /\ size'[u] = size[u]
        /\ UNCHANGED <<meta, size, call, present, excused>>
        BY <1>a, <1>c, <1>3 DEF C!Copy, C!GoTo, C!TypeOK
  <2>2. /\ "crossed" \notin excused[i] => file[i][f] # None
        /\ "crossed" \notin excused[i] => file'[i][f] \in C!DeliveredBy(call[t].source)
        /\ \A g \in Filenames \ {f} : file'[i][g] = file[i][g]
        /\ \A j \in Images \ {i} : file'[j] = file[j]
        /\ file[i][f] = None => file' = file
        /\ file' \in [Images -> [Filenames -> C!Delivered \cup {Part, None}]]
    <3>1. "crossed" \notin excused[i] => file[i][f] # None
          BY <1>a, <2>1 DEF ImgFills
    <3>2. CASE file[i][f] = None
          BY <1>a, <1>3, <3>1, <3>2 DEF C!Copy, C!TypeOK
    <3>3. CASE file[i][f] # None
      <4>1. PICK x \in C!Mingled(i, C!DeliveredBy(call[t].source), Part) :
                file' = [file EXCEPT ![i][f] = x]
            BY <1>3, <3>3 DEF C!Copy
      <4>2. /\ x \in C!Delivered \cup {Part}
            /\ "crossed" \notin excused[i] => x \in C!DeliveredBy(call[t].source)
            BY <1>c, <2>1, <4>1 DEF C!Mingled
      <4> QED BY <1>a, <2>1, <3>3, <4>1, <4>2 DEF C!TypeOK
    <3> QED BY <3>2, <3>3
  <2>3. C!TypeOK'
    <3>1. pc' \in [Threads -> C!Steps]
          BY <1>a, <1>3 DEF C!Copy, C!GoTo, C!TypeOK, C!Steps
    <3>2. file[i][f] # None => i \in present
          BY <1>a, <2>1 DEF C!TypeOK
    <3>3. \A j \in Images \ present : file'[j] = file[j]
          BY <2>2, <3>2
    <3>4. \A j \in Images \ present : meta'[j] = None /\ \A g \in Filenames : file'[j][g] = None
          BY <1>a, <2>1, <3>3 DEF C!TypeOK
    <3>5. \A u \in Threads : /\ pc'[u] = "idle" <=> call'[u] = None
                             /\ pc'[u] \in {"meta", "write"} <=> size'[u] # None
          BY <1>a, <2>1 DEF C!TypeOK
    <3> QED BY <1>a, <2>1, <2>2, <3>1, <3>4, <3>5 DEF C!TypeOK
  <2>4. ImgLocal(t, i)
        BY <1>c, <2>1, <2>2 DEF ImgLocal
  <2>5. ImgCalls' /\ ImgDeletes(t)'
        BY <1>a, <2>1 DEF ImgCalls, ImgDeletes
  <2>6. ImgFills(t)'
        BY <1>a, <2>1, <2>2 DEF ImgFills
  <2>7. ImgWhole(i)'
    <3>1. excused[i] = {} /\ meta[i] \in C!Metadata => meta[i].filename # f
          BY <1>a, <2>1 DEF ImgFills
    <3> QED BY <1>a, <2>1, <2>2, <3>1 DEF ImgWhole, C!Metadata
  <2> QED BY <2>1, <2>3, <2>4, <2>5, <2>6, <2>7, ImgLocalStep
<1>4. ASSUME NEW t \in Threads, C!Stat(t) PROVE ImgInv'
  <2> DEFINE i == call[t].image
  <2> DEFINE f == call[t].filename
  <2>1. /\ pc[t] = "stat" /\ pc'[t] = "meta" /\ i \in Images /\ f \in Filenames
        /\ \A u \in Threads \ {t} : pc'[u] = pc[u] /\ call'[u] = call[u] /\ size'[u] = size[u]
        /\ UNCHANGED <<meta, file, call, present, excused>>
        /\ size'[t] = file[i][f] /\ file[i][f] # None
        /\ file[i][f] \in C!Delivered \cup {Part}
        BY <1>a, <1>c, <1>4 DEF C!Stat, C!GoTo, C!TypeOK
  <2>2. C!TypeOK'
    <3>1. pc' \in [Threads -> C!Steps] /\ size' \in [Threads -> C!Delivered \cup {Part, None}]
          BY <1>a, <1>4, <2>1 DEF C!Stat, C!GoTo, C!TypeOK, C!Steps
    <3> QED BY <1>a, <2>1, <3>1 DEF C!TypeOK
  <2>3. ImgLocal(t, i)
        BY <1>c, <2>1 DEF ImgLocal
  <2>4. ImgCalls' /\ ImgDeletes(t)'
        BY <1>a, <2>1 DEF ImgCalls, ImgDeletes
  <2>5. ImgFills(t)'
        BY <1>a, <2>1 DEF ImgFills
  <2>6. ImgWhole(i)'
        BY <1>a, <2>1 DEF ImgWhole
  <2> QED BY <2>1, <2>2, <2>3, <2>4, <2>5, <2>6, ImgLocalStep
<1>5. ASSUME NEW t \in Threads, C!SaveOpen(t) PROVE ImgInv'
  <2> DEFINE i == call[t].image
  <2> DEFINE f == call[t].filename
  <2>1. /\ pc[t] = "meta" /\ pc'[t] = "write" /\ i \in Images /\ f \in Filenames
        /\ \A u \in Threads \ {t} : pc'[u] = pc[u] /\ call'[u] = call[u] /\ size'[u] = size[u]
        /\ UNCHANGED <<file, call, size, present, excused>> /\ i \in present
        /\ meta'[i] = Torn
        /\ \A j \in Images \ {i} : meta'[j] = meta[j]
        BY <1>a, <1>c, <1>5 DEF C!SaveOpen, C!GoTo, C!TypeOK
  <2>2. C!TypeOK'
    <3>1. /\ pc' \in [Threads -> C!Steps]
          /\ meta' \in [Images -> C!Metadata \cup {Torn, None}]
          BY <1>a, <1>5 DEF C!SaveOpen, C!GoTo, C!TypeOK, C!Steps
    <3> QED BY <1>a, <2>1, <3>1 DEF C!TypeOK
  <2>3. ImgLocal(t, i)
        BY <1>c, <2>1 DEF ImgLocal
  <2>4. ImgCalls' /\ ImgDeletes(t)'
        BY <1>a, <2>1 DEF ImgCalls, ImgDeletes
  <2>5. ImgFills(t)'
        BY <1>a, <1>b, <2>1 DEF ImgFills
  <2>6. ImgWhole(i)'
        BY <1>b, <2>1 DEF ImgWhole
  <2> QED BY <2>1, <2>2, <2>3, <2>4, <2>5, <2>6, ImgLocalStep
<1>6. ASSUME NEW t \in Threads, C!SaveWrite(t) PROVE ImgInv'
  <2>a. pc[t] = "write"
        BY <1>6 DEF C!SaveWrite
  <2>b. PICK i \in Images, f \in Filenames : i = call[t].image /\ f = call[t].filename
        BY <1>c, <2>a
  <2> DEFINE text == [filename |-> f, size_bytes |-> size[t]]
  <2>1. /\ pc[t] = "write" /\ pc'[t] = "idle"
        /\ \A u \in Threads \ {t} : pc'[u] = pc[u] /\ call'[u] = call[u] /\ size'[u] = size[u]
        /\ UNCHANGED <<file, present>>
        /\ call'[t] = None /\ size'[t] = None
        BY <1>a, <1>6 DEF C!SaveWrite, C!Return, C!GoTo, C!TypeOK
  <2>2. /\ excused'[i] = excused[i] \cap {"crossed"}
        /\ \A j \in Images \ {i} : excused'[j] = excused[j]
        /\ excused' \in [Images -> SUBSET {"crossed", "rewritten", "incomplete"}]
        BY <1>a, <1>6, <2>b DEF C!SaveWrite, C!TypeOK
  <2>3. size[t] \in C!Delivered \cup {Part} /\ text \in C!Metadata
        BY <1>a, <2>1 DEF C!TypeOK, C!Metadata
  <2>4. /\ "crossed" \notin excused[i] => meta'[i] = text
        /\ \A j \in Images \ {i} : meta'[j] = meta[j]
        /\ meta[i] = None => meta' = meta
        /\ meta' \in [Images -> C!Metadata \cup {Torn, None}]
    <3>1. "crossed" \notin excused[i] => meta[i] # None
          BY <1>a, <1>b, <2>b, <2>1 DEF ImgFills
    <3>2. CASE meta[i] = None
          BY <1>a, <1>6, <2>b, <3>1, <3>2 DEF C!SaveWrite, C!TypeOK
    <3>3. CASE meta[i] # None
      <4>1. PICK x \in C!Mingled(i, {text}, Torn) : meta' = [meta EXCEPT ![i] = x]
            BY <1>6, <2>b, <3>3 DEF C!SaveWrite
      <4>2. x \in {text, Torn} /\ ("crossed" \notin excused[i] => x = text)
            BY <4>1 DEF C!Mingled
      <4> QED BY <1>a, <2>1, <2>3, <3>3, <4>1, <4>2 DEF C!TypeOK
    <3> QED BY <3>2, <3>3
  <2>5. C!TypeOK'
    <3>1. /\ pc' \in [Threads -> C!Steps]
          /\ call' \in [Threads -> C!Imports \cup C!Deletions \cup {None}]
          /\ size' \in [Threads -> C!Delivered \cup {Part, None}]
          BY <1>a, <1>6 DEF C!SaveWrite, C!Return, C!GoTo, C!TypeOK, C!Steps
    <3>2. meta[i] # None => i \in present
          BY <1>a, <2>1 DEF C!TypeOK
    <3>3. \A j \in Images \ present : meta'[j] = None
          BY <1>a, <2>b, <2>4, <3>2 DEF C!TypeOK
    <3>4. \A u \in Threads : /\ pc'[u] = "idle" <=> call'[u] = None
                             /\ pc'[u] \in {"meta", "write"} <=> size'[u] # None
          BY <1>a, <2>1 DEF C!TypeOK
    <3> QED BY <1>a, <2>1, <2>2, <2>4, <3>1, <3>3, <3>4 DEF C!TypeOK
  <2>6. ImgLocal(t, i)
        BY <1>c, <2>b, <2>1, <2>2, <2>4 DEF ImgLocal
  <2>7. ImgCalls' /\ ImgDeletes(t)' /\ ImgFills(t)'
        BY <1>a, <2>1 DEF ImgCalls, ImgDeletes, ImgFills
  <2>8. ImgWhole(i)'
    <3>1. "crossed" \notin excused[i] =>
              size[t] = file[i][f] /\ file[i][f] \in C!DeliveredBy(call[t].source)
          BY <1>a, <2>b, <2>1 DEF ImgFills
    <3>2. C!DeliveredBy(call[t].source) \subseteq C!Delivered
          BY <1>c, <2>1
    <3>3. excused'[i] = {} => meta'[i].filename = f /\ meta'[i].size_bytes = size[t]
          BY <2>2, <2>4
    <3>4. excused'[i] = {} => "crossed" \notin excused[i]
          BY <2>2
    <3> QED BY <2>1, <3>1, <3>2, <3>3, <3>4 DEF ImgWhole
  <2> QED BY <2>1, <2>5, <2>6, <2>7, <2>8, ImgLocalStep
<1>7. ASSUME NEW t \in Threads, C!ImportFails(t) \/ C!DeleteFails(t) PROVE ImgInv'
  <2>a. pc[t] \in {"open", "copy", "stat", "meta", "write", "rmtree"}
        BY <1>7 DEF C!ImportFails, C!DeleteFails
  <2>b. PICK i \in Images : i = call[t].image
        BY <1>c, <1>d, <2>a
  <2>1. /\ pc'[t] = "idle" /\ call'[t] = None /\ size'[t] = None
        /\ \A u \in Threads \ {t} : pc'[u] = pc[u] /\ call'[u] = call[u] /\ size'[u] = size[u]
        /\ UNCHANGED <<present, file, meta, excused>>
        BY <1>a, <1>7 DEF C!ImportFails, C!DeleteFails, C!Return, C!GoTo, C!TypeOK
  <2>2. C!TypeOK'
    <3>1. /\ pc' \in [Threads -> C!Steps]
          /\ call' \in [Threads -> C!Imports \cup C!Deletions \cup {None}]
          /\ size' \in [Threads -> C!Delivered \cup {Part, None}]
          BY <1>a, <1>7 DEF C!ImportFails, C!DeleteFails, C!Return, C!GoTo, C!TypeOK, C!Steps
    <3>2. \A u \in Threads : /\ pc'[u] = "idle" <=> call'[u] = None
                             /\ pc'[u] \in {"meta", "write"} <=> size'[u] # None
          BY <1>a, <2>1 DEF C!TypeOK
    <3> QED BY <1>a, <2>1, <3>1, <3>2 DEF C!TypeOK
  <2>3. ImgLocal(t, i)
        BY <1>c, <1>d, <2>a, <2>b, <2>1 DEF ImgLocal
  <2>4. ImgCalls' /\ ImgDeletes(t)' /\ ImgFills(t)' /\ ImgWhole(i)'
        BY <1>a, <2>1 DEF ImgCalls, ImgDeletes, ImgFills, ImgWhole
  <2> QED BY <2>2, <2>3, <2>4, ImgLocalStep
<1>8. ASSUME NEW t \in Threads, NEW i \in Images, C!Delete(t, i) PROVE ImgInv'
  <2> DEFINE c == [op |-> "delete", image |-> i]
  <2>1. /\ pc[t] = "idle" /\ pc'[t] = "rmtree" /\ call'[t] = c
        /\ \A u \in Threads \ {t} : pc'[u] = pc[u] /\ call'[u] = call[u] /\ size'[u] = size[u]
        /\ UNCHANGED <<present, file, meta, size>>
        BY <1>a, <1>8 DEF C!Delete, C!GoTo, C!TypeOK
  <2>2. c \in C!Deletions /\ c # None /\ c.image = i
        BY <1>b DEF C!Deletions
  <2>3. /\ "incomplete" \in excused'[i] /\ excused[i] \subseteq excused'[i]
        /\ \A u \in Threads \ {t} : ImgOn(u, i) => "crossed" \in excused'[i]
        /\ \A j \in Images \ {i} : excused'[j] = excused[j]
        /\ excused' \in [Images -> SUBSET {"crossed", "rewritten", "incomplete"}]
    <3>1. excused' = [excused EXCEPT ![i] = excused[i] \cup C!Crossing(i) \cup {"incomplete"}]
          BY <1>8 DEF C!Delete, C!Excuse
    <3>2. \A u \in Threads \ {t} : ImgOn(u, i) => C!Crossing(i) = {"crossed"}
          BY DEF C!Crossing, ImgOn
    <3>3. C!Crossing(i) \subseteq {"crossed"}
          BY DEF C!Crossing
    <3> QED BY <1>a, <3>1, <3>2, <3>3 DEF C!TypeOK
  <2>4. C!TypeOK'
    <3>1. /\ pc' \in [Threads -> C!Steps]
          /\ call' \in [Threads -> C!Imports \cup C!Deletions \cup {None}]
          BY <1>a, <1>8, <2>2 DEF C!Delete, C!GoTo, C!TypeOK, C!Steps
    <3>2. \A u \in Threads : /\ pc'[u] = "idle" <=> call'[u] = None
                             /\ pc'[u] \in {"meta", "write"} <=> size'[u] # None
          BY <1>a, <2>1, <2>2 DEF C!TypeOK
    <3> QED BY <1>a, <2>1, <2>3, <3>1, <3>2 DEF C!TypeOK
  <2>5. ImgLocal(t, i)
        BY <2>1, <2>2, <2>3 DEF ImgLocal
  <2>6. ImgCalls' /\ ImgFills(t)'
        BY <1>a, <2>1, <2>2 DEF ImgCalls, ImgFills
  <2>7. ImgDeletes(t)' /\ ImgWhole(i)'
        BY <1>a, <2>1, <2>2, <2>3 DEF ImgDeletes, ImgWhole, ImgOn
  <2> QED BY <2>4, <2>5, <2>6, <2>7, ImgLocalStep
<1>9. ASSUME NEW t \in Threads, C!RemoveEntry(t) PROVE ImgInv'
  <2>a. pc[t] = "rmtree"
        BY <1>9 DEF C!RemoveEntry
  <2>b. PICK i \in Images : i = call[t].image
        BY <1>d, <2>a
  <2>1. UNCHANGED <<present, pc, call, size, excused>>
        BY <1>9 DEF C!RemoveEntry
  <2>2. /\ meta' \in [Images -> C!Metadata \cup {Torn, None}]
        /\ file' \in [Images -> [Filenames -> C!Delivered \cup {Part, None}]]
        /\ \A j \in Images \ {i} : file'[j] = file[j] /\ meta'[j] = meta[j]
        /\ meta'[i] \in {meta[i], None}
        /\ \A f \in Filenames : file'[i][f] \in {file[i][f], None}
    <3>1. CASE meta' = [meta EXCEPT ![i] = None] /\ file' = file
          BY <1>a, <3>1 DEF C!TypeOK
    <3>2. ASSUME NEW f \in Filenames, file' = [file EXCEPT ![i][f] = None], meta' = meta
          PROVE  /\ file' \in [Images -> [Filenames -> C!Delivered \cup {Part, None}]]
                 /\ \A j \in Images \ {i} : file'[j] = file[j]
                 /\ \A g \in Filenames : file'[i][g] \in {file[i][g], None}
          BY <1>a, <3>2 DEF C!TypeOK
    <3>3. \/ meta' = [meta EXCEPT ![i] = None] /\ file' = file
          \/ \E f \in Filenames : file' = [file EXCEPT ![i][f] = None] /\ meta' = meta
          BY <1>9, <2>b DEF C!RemoveEntry
    <3> QED BY <1>a, <3>1, <3>2, <3>3 DEF C!TypeOK
  <2>3. C!TypeOK'
    <3>1. \A j \in Images \ present : meta'[j] = None /\ \A f \in Filenames : file'[j][f] = None
          BY <1>a, <2>2 DEF C!TypeOK
    <3> QED BY <1>a, <2>1, <2>2, <3>1 DEF C!TypeOK
  <2>4. ImgLocal(t, i)
        BY <1>d, <2>a, <2>b, <2>1, <2>2 DEF ImgLocal
  <2>5. ImgCalls' /\ ImgDeletes(t)' /\ ImgFills(t)'
    <3>1. ImgCalls'
          BY <1>a, <2>1 DEF ImgCalls
    <3>2. ImgDeletes(t)'
          BY <1>a, <2>1 DEF ImgDeletes, ImgOn
    <3>3. ImgFills(t)'
          BY <2>a, <2>1 DEF ImgFills
    <3> QED BY <3>1, <3>2, <3>3
  <2>6. excused'[i] # {}
        BY <1>a, <1>d, <2>a, <2>b, <2>1 DEF ImgDeletes
  <2> QED BY <2>3, <2>4, <2>5, <2>6, ImgLocalStep DEF ImgWhole
<1>10. ASSUME NEW t \in Threads, C!RemoveDirectory(t) PROVE ImgInv'
  <2>a. pc[t] = "rmtree"
        BY <1>10 DEF C!RemoveDirectory
  <2>b. PICK i \in Images : i = call[t].image
        BY <1>d, <2>a
  <2>1. /\ pc'[t] = "idle" /\ call'[t] = None /\ size'[t] = None
        /\ \A u \in Threads \ {t} : pc'[u] = pc[u] /\ call'[u] = call[u] /\ size'[u] = size[u]
        /\ UNCHANGED <<file, meta>> /\ present' = present \ {i}
        /\ meta[i] = None /\ \A f \in Filenames : file[i][f] = None
        BY <1>a, <1>10, <2>b DEF C!RemoveDirectory, C!Return, C!GoTo, C!TypeOK
  <2>2. /\ excused'[i] = excused[i] \cap {"crossed"}
        /\ \A j \in Images \ {i} : excused'[j] = excused[j]
        /\ excused' \in [Images -> SUBSET {"crossed", "rewritten", "incomplete"}]
        BY <1>a, <1>10, <2>b DEF C!RemoveDirectory, C!TypeOK
  <2>3. C!TypeOK'
    <3>1. /\ pc' \in [Threads -> C!Steps]
          /\ call' \in [Threads -> C!Imports \cup C!Deletions \cup {None}]
          /\ size' \in [Threads -> C!Delivered \cup {Part, None}]
          BY <1>a, <1>10 DEF C!RemoveDirectory, C!Return, C!GoTo, C!TypeOK, C!Steps
    <3>2. \A u \in Threads : /\ pc'[u] = "idle" <=> call'[u] = None
                             /\ pc'[u] \in {"meta", "write"} <=> size'[u] # None
          BY <1>a, <2>1 DEF C!TypeOK
    <3>3. \A j \in Images \ present' : meta'[j] = None /\ \A f \in Filenames : file'[j][f] = None
          BY <1>a, <2>1 DEF C!TypeOK
    <3> QED BY <1>a, <2>1, <2>2, <3>1, <3>2, <3>3 DEF C!TypeOK
  <2>4. ImgLocal(t, i)
        BY <1>d, <2>a, <2>b, <2>1, <2>2 DEF ImgLocal
  <2>5. ImgCalls' /\ ImgDeletes(t)' /\ ImgFills(t)' /\ ImgWhole(i)'
        BY <1>a, <1>b, <2>1 DEF ImgCalls, ImgDeletes, ImgFills, ImgWhole
  <2> QED BY <2>3, <2>4, <2>5, ImgLocalStep
<1>11. ASSUME C!Crash PROVE ImgInv'
  <2>1. /\ \A t \in Threads : pc'[t] = "idle" /\ call'[t] = None /\ size'[t] = None
        /\ UNCHANGED <<present, file, meta, excused>>
        BY <1>11 DEF C!Crash
  <2>2. C!TypeOK'
        BY <1>a, <1>11, <2>1 DEF C!TypeOK, C!Crash, C!Steps
  <2>3. ImgCalls' /\ ImgCrossed' /\ \A t \in Threads : ImgDeletes(t)' /\ ImgFills(t)'
        BY <2>1 DEF ImgCalls, ImgCrossed, ImgDeletes, ImgFills, ImgOn
  <2>4. \A i \in Images : ImgWhole(i)'
        BY <1>a, <2>1 DEF ImgWhole
  <2> QED BY <2>2, <2>3, <2>4 DEF ImgInv
<1> QED
    BY <1>1, <1>2, <1>3, <1>4, <1>5, <1>6, <1>7, <1>8, <1>9, <1>10, <1>11
    DEF C!Next

LEMMA ImgFrame == ImgInv /\ UNCHANGED <<threadVars, imageVars>> => ImgInv'
BY DEF threadVars, imageVars, ImgInv, C!TypeOK, ImgCalls, ImgCrossed, ImgOn,
       ImgDeletes, ImgFills, ImgWhole

LEMMA ImgAlways == Spec => [](used = "images" => ImgInv)
<1> DEFINE Inv == used = "images" => ImgInv
<1>1. Init => Inv
      BY ImgInit, PartsAssumption DEF Init
<1>2. Inv /\ [Next]_vars => Inv'
  <2>1. CASE UNCHANGED vars
        BY <2>1, ImgFrame DEF vars, threadVars, imageVars
  <2>2. CASE Next
        BY <2>2, ImgStep, PartsAssumption DEF Next
  <2> QED BY <2>1, <2>2
<1> QED BY <1>1, <1>2, PTL DEF Spec

(* For any number of callers, images and files, whatever step of an import *)
(* or a deletion fails and wherever the process dies: an image that is     *)
(* listed has its file, as a source delivered it and of the size the       *)
(* metadata says, unless two calls met on it, an import overwrites the     *)
(* file or a deletion is not through (cloud_image.py:132-158).             *)
THEOREM ListedImagesAreDelivered == Spec => []ListedIsDelivered
<1>1. (used = "images" => ImgInv) => ListedIsDelivered
      BY DEF ListedIsDelivered, C!ListedIsDelivered, ImgInv, ImgWhole
<1> QED BY <1>1, ImgAlways, PTL

-----------------------------------------------------------------------------
(***************************************************************************)
(* The certificates                                                        *)
(***************************************************************************)
TlsWriting == {"write key", "open cert", "write cert"}
TlsWriters == {t \in Threads : pc[t] \in TlsWriting}

(* Calls and files: a call that writes has a generation; and neither file  *)
(* goes while a call relies on it.                                         *)
TlsTypes ==
    /\ pc \in [Threads -> {"idle", "ensure", "open key", "returned"} \cup TlsWriting]
    /\ call \in [Threads -> {None} \cup Nat]
    /\ generation \in 0..MaxGenerations
    /\ crossing \subseteq Threads
    /\ sound \in BOOLEAN
TlsFilesStay ==
    /\ TlsWriters # {} => key # Absent
    /\ \A t \in Threads : pc[t] = "returned" => key # Absent /\ cert # Absent

(* A generation that has met no other is alone, and its key is on disk     *)
(* from the end of the write on.                                           *)
TlsAlone ==
    \A t \in TlsWriters :
        /\ call[t] \in 1..MaxGenerations
        /\ t \notin crossing =>
             /\ \A u \in TlsWriters : u = t
             /\ pc[t] # "write key" => key = call[t]

(* Two files that one generation alone has written are a pair. *)
TlsPair ==
    sound /\ TlsWriters = {} /\ key # Absent /\ cert # Absent =>
        key = cert /\ key \in 1..MaxGenerations

TlsInv == TlsTypes /\ TlsFilesStay /\ TlsAlone /\ TlsPair

LEMMA TlsInit == PartsAssumption /\ T!Init => TlsInv
<1> SUFFICES ASSUME PartsAssumption, T!Init PROVE TlsInv
    OBVIOUS
<1> USE DEF PartsAssumption, T!TlsAssumption, T!Init
<1>1. TlsWriters = {}
      BY DEF TlsWriters, TlsWriting
<1>2. TlsTypes
      BY DEF TlsTypes
<1>3. TlsFilesStay
      BY <1>1 DEF TlsFilesStay
<1> QED BY <1>1, <1>2, <1>3 DEF TlsInv, TlsAlone, TlsPair

(* A step of thread t leaves the others where they are. *)
TlsOthers(t) ==
    \A u \in Threads \ {t} :
        pc'[u] = pc[u] /\ call'[u] = call[u] /\ (u \in crossing' <=> u \in crossing)

(* A step that begins and ends outside the writing of files, and returns   *)
(* only with files that are there.                                         *)
LEMMA TlsQuiet ==
    ASSUME TlsInv, TlsTypes', UNCHANGED <<key, cert, sound>>, NEW t \in Threads,
           pc[t] \notin TlsWriting, pc'[t] \notin TlsWriting, TlsOthers(t),
           pc'[t] = "returned" => key # Absent /\ cert # Absent
    PROVE  TlsInv'
<1>1. TlsWriters' = TlsWriters
      BY DEF TlsWriters, TlsOthers
<1>2. \A u \in TlsWriters : u # t /\ u \in Threads
      BY DEF TlsWriters
<1>3. TlsFilesStay'
      BY <1>1 DEF TlsInv, TlsFilesStay, TlsOthers
<1>4. TlsAlone'
      BY <1>1, <1>2 DEF TlsInv, TlsAlone, TlsOthers
<1>5. TlsPair'
      BY <1>1 DEF TlsInv, TlsPair
<1> QED BY <1>3, <1>4, <1>5 DEF TlsInv

LEMMA TlsStep == PartsAssumption /\ TlsInv /\ T!Next => TlsInv'
<1> SUFFICES ASSUME PartsAssumption, TlsInv, T!Next PROVE TlsInv'
    OBVIOUS
<1>a. /\ T!TlsAssumption
      /\ TlsTypes /\ TlsFilesStay /\ TlsAlone /\ TlsPair
      /\ T!Writers = TlsWriters
      BY DEF PartsAssumption, TlsInv, T!Writers, TlsWriters, T!Writing, TlsWriting
<1>b. /\ MaxGenerations \in Nat /\ Torn # Absent
       /\ \A g \in 1..MaxGenerations : g # Absent
      BY <1>a DEF T!TlsAssumption
<1>1. ASSUME NEW t \in Threads, T!Call(t) PROVE TlsInv'
  <2>1. TlsTypes' /\ TlsOthers(t) /\ pc[t] = "idle" /\ pc'[t] \in {"ensure", "open key"}
        BY <1>a, <1>1 DEF T!Call, T!Go, TlsTypes, TlsOthers, TlsWriting
  <2> QED BY <1>1, <2>1, TlsQuiet DEF T!Call, TlsWriting
<1>2. ASSUME NEW t \in Threads, T!Reuse(t) PROVE TlsInv'
  <2>1. TlsTypes' /\ TlsOthers(t) /\ pc[t] = "ensure" /\ pc'[t] = "returned"
        BY <1>a, <1>2 DEF T!Reuse, T!Go, TlsTypes, TlsOthers, TlsWriting
  <2> QED BY <1>2, <2>1, TlsQuiet DEF T!Reuse, TlsWriting
<1>3. ASSUME NEW t \in Threads, T!Generate(t) PROVE TlsInv'
  <2>1. TlsTypes' /\ TlsOthers(t) /\ pc[t] = "ensure" /\ pc'[t] = "open key"
        BY <1>a, <1>3 DEF T!Generate, T!Go, TlsTypes, TlsOthers, TlsWriting
  <2> QED BY <1>3, <2>1, TlsQuiet DEF T!Generate, TlsWriting
<1>4. ASSUME NEW t \in Threads, T!OpenKey(t) PROVE TlsInv'
  <2>1. generation + 1 \in 1..MaxGenerations /\ generation + 1 \in Nat
    <3>1. generation \in 0..MaxGenerations
          BY <1>a DEF TlsTypes
    <3>2. generation < MaxGenerations
          BY <1>4 DEF T!OpenKey
    <3> QED BY <1>b, <3>1, <3>2
  <2>2. /\ pc[t] = "open key" /\ pc'[t] = "write key"
        /\ call'[t] \in 1..MaxGenerations
        /\ \A u \in Threads \ {t} : pc'[u] = pc[u] /\ call'[u] = call[u]
        BY <1>a, <1>4, <2>1 DEF T!OpenKey, T!Go, TlsTypes
  <2>3. generation' \in 0..MaxGenerations /\ crossing' \subseteq Threads
    <3>1. generation' = generation + 1
          BY <1>4 DEF T!OpenKey
    <3>2. generation' \in 0..MaxGenerations
          BY <1>b, <2>1, <3>1
    <3>3. crossing' \subseteq Threads
          BY <1>a, <1>4 DEF T!OpenKey, TlsTypes, TlsWriters
    <3> QED BY <3>2, <3>3
  <2>4. TlsTypes'
        BY <1>a, <1>4, <2>1, <2>3 DEF T!OpenKey, T!Go, TlsTypes, TlsWriting
  <2>5. TlsWriters' = TlsWriters \cup {t}
        BY <2>2 DEF TlsWriters, TlsWriting
  <2>6. key' # Absent /\ cert' = cert
        BY <1>b, <1>4 DEF T!OpenKey
  <2>7. TlsFilesStay'
        BY <1>a, <2>2, <2>6 DEF TlsFilesStay
  <2>8. \A u \in TlsWriters' \ crossing' : TlsWriters = {}
        BY <1>a, <1>4, <2>5 DEF T!OpenKey
  <2>9. TlsAlone'
        BY <1>a, <2>2, <2>5, <2>8 DEF TlsAlone, TlsWriters
  <2>10. TlsPair'
        BY <2>5 DEF TlsPair
  <2> QED BY <2>4, <2>7, <2>9, <2>10 DEF TlsInv
<1>5. ASSUME NEW t \in Threads, T!WriteKey(t) PROVE TlsInv'
  <2>1. /\ pc[t] = "write key" /\ pc'[t] = "open cert" /\ t \in TlsWriters
        /\ TlsOthers(t) /\ TlsTypes'
        BY <1>a, <1>5 DEF T!WriteKey, T!Go, TlsTypes, TlsWriting, TlsOthers, TlsWriters
  <2>2. TlsWriters' = TlsWriters
        BY <2>1 DEF TlsWriters, TlsWriting, TlsOthers
  <2>3. key' = call[t] /\ call' = call /\ cert' = cert /\ crossing' = crossing
        BY <1>5 DEF T!WriteKey
  <2>4. key' # Absent
        BY <1>a, <1>b, <2>1, <2>3 DEF TlsAlone
  <2>5. TlsFilesStay'
        BY <1>a, <2>1, <2>3, <2>4 DEF TlsFilesStay, TlsOthers
  <2>6. TlsAlone'
        BY <1>a, <2>1, <2>2, <2>3 DEF TlsAlone
  <2>7. TlsPair'
        BY <2>1, <2>2 DEF TlsPair
  <2> QED BY <2>1, <2>5, <2>6, <2>7 DEF TlsInv
<1>6. ASSUME NEW t \in Threads, T!OpenCert(t) PROVE TlsInv'
  <2>1. /\ pc[t] = "open cert" /\ pc'[t] = "write cert" /\ t \in TlsWriters
        /\ TlsOthers(t) /\ TlsTypes'
        BY <1>a, <1>6 DEF T!OpenCert, T!Go, TlsTypes, TlsWriting, TlsOthers, TlsWriters
  <2>2. TlsWriters' = TlsWriters
        BY <2>1 DEF TlsWriters, TlsWriting, TlsOthers
  <2>3. key' = key /\ call' = call /\ cert' # Absent /\ crossing' = crossing
        BY <1>b, <1>6 DEF T!OpenCert
  <2>4. TlsFilesStay'
        BY <1>a, <2>1, <2>2, <2>3 DEF TlsFilesStay, TlsOthers
  <2>5. TlsAlone'
        BY <1>a, <2>1, <2>2, <2>3 DEF TlsAlone, TlsOthers, TlsWriters
  <2>6. TlsPair'
        BY <2>1, <2>2 DEF TlsPair
  <2> QED BY <2>1, <2>4, <2>5, <2>6 DEF TlsInv
<1>7. ASSUME NEW t \in Threads, T!WriteCert(t) PROVE TlsInv'
  <2>1. /\ pc[t] = "write cert" /\ pc'[t] = "returned" /\ t \in TlsWriters
        /\ TlsOthers(t) /\ TlsTypes'
        BY <1>a, <1>7 DEF T!WriteCert, T!Go, TlsTypes, TlsWriting, TlsOthers, TlsWriters
  <2>2. TlsWriters' = TlsWriters \ {t}
        BY <2>1 DEF TlsWriters, TlsWriting, TlsOthers
  <2>3. /\ key' = key /\ call' = call /\ cert' = call[t]
        /\ sound' = (t \notin crossing)
        BY <1>7 DEF T!WriteCert
  <2>4. cert' # Absent /\ key' # Absent
        BY <1>a, <1>b, <2>1, <2>3 DEF TlsAlone, TlsFilesStay
  <2>5. TlsFilesStay'
        BY <2>4 DEF TlsFilesStay
  <2>6. TlsAlone'
        BY <1>a, <2>1, <2>2, <2>3 DEF TlsAlone, TlsOthers, TlsWriters
  <2>7. TlsPair'
        BY <1>a, <2>1, <2>3 DEF TlsPair, TlsAlone
  <2> QED BY <2>1, <2>5, <2>6, <2>7 DEF TlsInv
<1>8. ASSUME NEW t \in Threads, T!Return(t) PROVE TlsInv'
  <2>1. TlsTypes' /\ TlsOthers(t) /\ pc[t] = "returned" /\ pc'[t] = "idle"
        BY <1>a, <1>8 DEF T!Return, T!Go, TlsTypes, TlsOthers, TlsWriting
  <2> QED BY <1>8, <2>1, TlsQuiet DEF T!Return, TlsWriting
<1>9. ASSUME NEW t \in Threads, T!Fails(t) PROVE TlsInv'
  <2>1. /\ pc[t] \in TlsWriting \cup {"open key"} /\ pc'[t] = "idle"
        /\ TlsOthers(t) /\ TlsTypes'
        BY <1>a, <1>9 DEF T!Fails, T!CutShort, T!Go, T!Writing, TlsTypes, TlsWriting,
           TlsOthers
  <2>2. key' = key /\ cert' = cert
        BY <1>9 DEF T!Fails
  <2>3. CASE pc[t] = "open key"
    <3>1. t \notin TlsWriters
          BY <2>3 DEF TlsWriters, TlsWriting
    <3>2. sound' = sound
          BY <1>a, <1>9, <3>1 DEF T!Fails
    <3> QED BY <2>1, <2>2, <2>3, <3>2, TlsQuiet DEF TlsWriting
  <2>4. CASE pc[t] \in TlsWriting
    <3>1. t \in TlsWriters
          BY <2>4 DEF TlsWriters
    <3>2. sound' => cert' = Absent
          BY <1>a, <1>9, <2>2, <3>1 DEF T!Fails, T!CutShort
    <3>3. TlsWriters' = TlsWriters \ {t}
          BY <2>1, <2>4 DEF TlsWriters, TlsWriting, TlsOthers
    <3>4. TlsFilesStay'
          BY <1>a, <2>1, <2>2, <3>1 DEF TlsFilesStay, TlsOthers
    <3>5. TlsAlone'
          BY <1>a, <2>1, <2>2, <3>1, <3>3 DEF TlsAlone, TlsOthers, TlsWriters
    <3>6. TlsPair'
          BY <3>2 DEF TlsPair
    <3> QED BY <2>1, <3>4, <3>5, <3>6 DEF TlsInv
  <2> QED BY <2>1, <2>3, <2>4
<1>10. ASSUME T!Crash PROVE TlsInv'
  <2>1. TlsTypes' /\ (\A t \in Threads : pc'[t] = "idle") /\ key' = key /\ cert' = cert
        BY <1>a, <1>10 DEF T!Crash, T!CutShort, TlsTypes
  <2>2. TlsWriters' = {}
        BY <2>1 DEF TlsWriters, TlsWriting
  <2>3. TlsFilesStay' /\ TlsAlone'
        BY <2>1, <2>2 DEF TlsFilesStay, TlsAlone
  <2>4. sound' => sound /\ (TlsWriters = {} \/ cert' = Absent)
        BY <1>a, <1>10, <2>1 DEF T!Crash, T!CutShort
  <2>5. TlsPair'
        BY <1>a, <2>1, <2>4 DEF TlsPair
  <2> QED BY <2>1, <2>3, <2>5 DEF TlsInv
<1>11. ASSUME T!Remove PROVE TlsInv'
  <2>1. TlsTypes' /\ (\A t \in Threads : pc'[t] = "idle")
        BY <1>a, <1>11 DEF T!Remove, TlsTypes
  <2>2. TlsWriters' = {}
        BY <2>1 DEF TlsWriters, TlsWriting
  <2>3. TlsFilesStay' /\ TlsAlone'
        BY <2>1, <2>2 DEF TlsFilesStay, TlsAlone
  <2>4. TlsPair'
        BY <1>11 DEF T!Remove, TlsPair
  <2> QED BY <2>1, <2>3, <2>4 DEF TlsInv
<1> QED
    BY <1>1, <1>2, <1>3, <1>4, <1>5, <1>6, <1>7, <1>8, <1>9, <1>10, <1>11
    DEF T!Next

LEMMA TlsSafe == TlsInv => T!PairMatches
BY DEF TlsInv, TlsPair, TlsFilesStay, TlsWriters, TlsWriting, T!PairMatches,
       T!Writers, T!Writing, T!Generations

LEMMA TlsFrame == TlsInv /\ UNCHANGED <<threadVars, tlsVars>> => TlsInv'
<1> SUFFICES ASSUME TlsInv, UNCHANGED <<threadVars, tlsVars>> PROVE TlsInv'
    OBVIOUS
<1> USE DEF TlsInv, threadVars, tlsVars
<1>1. TlsTypes' /\ TlsFilesStay' /\ TlsWriters' = TlsWriters
      BY DEF TlsTypes, TlsFilesStay, TlsWriters
<1>2. TlsAlone' /\ TlsPair'
      BY <1>1 DEF TlsAlone, TlsPair
<1> QED BY <1>1, <1>2

LEMMA TlsAlways == Spec => [](used = "tls" => TlsInv)
<1> DEFINE Inv == used = "tls" => TlsInv
<1>1. Init => Inv
      BY TlsInit, PartsAssumption DEF Init
<1>2. Inv /\ [Next]_vars => Inv'
  <2>1. CASE UNCHANGED vars
        BY <2>1, TlsFrame DEF vars, threadVars, tlsVars
  <2>2. CASE Next
        BY <2>2, TlsStep, PartsAssumption DEF Next
  <2> QED BY <2>1, <2>2
<1> QED BY <1>1, <1>2, PTL DEF Spec

(* The key and the certificate a call returns are one pair, for any number *)
(* of callers and generations, wherever calls fail and the process dies;   *)
(* unless generations overlapped or one was cut short beside a certificate *)
(* (tls.py:114-126, 184-188).                                              *)
THEOREM CertificatesMatch == Spec => []PairMatches
<1>1. (used = "tls" => TlsInv) => PairMatches
      BY TlsSafe DEF PairMatches
<1> QED BY <1>1, TlsAlways, PTL

-----------------------------------------------------------------------------
(***************************************************************************)
(* The console                                                             *)
(***************************************************************************)
ConsoleTypes ==
    /\ pc \in [Threads -> {"idle", "connecting", "closing", "draining", "reading"}]
    /\ call \in [Threads -> P!Connections \cup {None}]
    /\ {writer, reader} \subseteq P!Connections \cup {None}
    /\ link \in [P!Connections -> {"unused", "open", "closed"}]
    /\ taken \subseteq P!Connections

(* While a task closes the proxy, only excepted connections are open. *)
ConsoleInv ==
    /\ ConsoleTypes
    /\ reader = writer
    /\ \A c \in P!Opened : c \in taken \/ (c = writer /\ P!Closing = {})

LEMMA ConsoleInit == PartsAssumption /\ P!Init => ConsoleInv
BY DEF P!Init, ConsoleInv, ConsoleTypes, P!Opened, P!Connections

LEMMA ConsoleStep == PartsAssumption /\ ConsoleInv /\ P!Next => ConsoleInv'
<1> SUFFICES ASSUME PartsAssumption, ConsoleInv, P!Next PROVE ConsoleInv'
    OBVIOUS
<1> USE DEF PartsAssumption, P!ConsoleAssumption, ConsoleInv, ConsoleTypes, P!Opened,
            P!Closing, P!Await, P!Return
<1>1. None \notin P!Connections
      BY DEF P!Connections
<1>2. ASSUME NEW t \in Threads, P!Connect(t) PROVE ConsoleInv'
      BY <1>2 DEF P!Connect
<1>3. ASSUME NEW t \in Threads, P!ConnectFails(t) PROVE ConsoleInv'
      BY <1>3 DEF P!ConnectFails
<1>4. ASSUME NEW t \in Threads, P!Close(t) PROVE ConsoleInv'
      BY <1>1, <1>4 DEF P!Close
<1>5. ASSUME NEW t \in Threads, P!CloseReturns(t) PROVE ConsoleInv'
      BY <1>5 DEF P!CloseReturns
<1>6. ASSUME NEW t \in Threads, P!Send(t) PROVE ConsoleInv'
      BY <1>6 DEF P!Send
<1>7. ASSUME NEW t \in Threads, P!Receive(t) PROVE ConsoleInv'
      BY <1>7 DEF P!Receive
<1>8. ASSUME NEW t \in Threads, P!Ends(t) PROVE ConsoleInv'
      BY <1>8 DEF P!Ends
<1>9. ASSUME NEW t \in Threads, NEW c \in P!Connections, P!Connected(t, c)
      PROVE ConsoleInv'
      BY <1>9 DEF P!Connected, P!Fresh
<1> QED
    BY <1>2, <1>3, <1>4, <1>5, <1>6, <1>7, <1>8, <1>9 DEF P!Next

LEMMA ConsoleFrame == ConsoleInv /\ UNCHANGED <<threadVars, consoleVars>> => ConsoleInv'
BY DEF threadVars, consoleVars, ConsoleInv, ConsoleTypes, P!Opened, P!Closing

LEMMA ConsoleAlways == Spec => [](used = "console" => ConsoleInv)
<1> DEFINE Inv == used = "console" => ConsoleInv
<1>1. Init => Inv
      BY ConsoleInit, PartsAssumption DEF Init
<1>2. Inv /\ [Next]_vars => Inv'
  <2>1. CASE UNCHANGED vars
        BY <2>1, ConsoleFrame DEF vars, threadVars, consoleVars
  <2>2. CASE Next
        BY <2>2, ConsoleStep, PartsAssumption DEF Next
  <2> QED BY <2>1, <2>2
<1> QED BY <1>1, <1>2, PTL DEF Spec

(* No connection is left open out of the reach of close(), for any number  *)
(* of tasks and connections; unless connect() was called on an open proxy  *)
(* or ended while close() waited (console.py:104, 115-122).                *)
THEOREM ConnectionsOwned == Spec => []ConnectionIsOwned
<1>1. (used = "console" => ConsoleInv) => ConnectionIsOwned
      BY DEF ConnectionIsOwned, P!ConnectionIsOwned, ConsoleInv
<1> QED BY <1>1, ConsoleAlways, PTL

-----------------------------------------------------------------------------
(***************************************************************************)
(* The audit log                                                           *)
(***************************************************************************)
AudTypes ==
    /\ pc \in [Threads -> {"idle", "create", "use", "append", "query", "answered"}]
    /\ call \in [Threads -> A!Calls \cup {None}]
    /\ \A t \in Threads : pc[t] = "idle" <=> call[t] = None
    /\ current \in {None} \cup 1..Len(buffers)
    /\ buffers \in Seq(Seq(A!Entry))
    /\ Len(buffers) <= MaxLoggers
    /\ \A l \in 1..Len(buffers) : Len(buffers[l]) <= BufferSize
    /\ made \in 0..MaxEntries
    /\ returned \subseteq [entry : A!Entry, logger : 1..Len(buffers)]
    /\ replaced \subseteq 1..Len(buffers)

(* No two entries have one time, and an entry knows those that had been    *)
(* recorded when it was made.                                              *)
Times == {x.entry.time : x \in returned}
Flying(t) == call[t] # None /\ call[t].entry # None

AudRecorded ==
    \A x \in returned : x.entry.time <= made /\ x.entry.after \subseteq Times
AudFlight(t) ==
    Flying(t) =>
        /\ call[t].entry.time <= made
        /\ call[t].entry.time \notin Times
        /\ call[t].entry.after \subseteq Times
AudApart ==
    \A t, u \in Threads :
        t # u /\ Flying(t) /\ Flying(u) => call[t].entry.time # call[u].entry.time

(* A buffer holds recorded entries, none before one that is older. *)
AudBuffers ==
    \A l \in 1..Len(buffers) : \A i \in 1..Len(buffers[l]) :
        /\ [entry |-> buffers[l][i], logger |-> l] \in returned
        /\ \A j \in 1..Len(buffers[l]) :
             i < j => ~A!Older(buffers[l][j], buffers[l][i])

(* A recorded entry is in its buffer until enough that are not older have  *)
(* pushed it out.                                                          *)
Held(e, l) == \E i \in 1..Len(buffers[l]) : buffers[l][i] = e
Evicted(e, l) ==
    /\ Len(buffers[l]) = BufferSize
    /\ \A i \in 1..Len(buffers[l]) : ~A!Older(buffers[l][i], e)
AudKept == \A x \in returned : Held(x.entry, x.logger) \/ Evicted(x.entry, x.logger)

(* A logger that is not the global one any more has been replaced; and     *)
(* there is room for the loggers and entries that calls will make.         *)
AudLoggers ==
    /\ current = None <=> Len(buffers) = 0
    /\ \A l \in 1..Len(buffers) : l = current \/ l \in replaced
AudRoom ==
    /\ Len(buffers) + Cardinality(A!Creating) <= MaxLoggers
    /\ made + Cardinality(A!Recording) <= MaxEntries

(* What a call has found so far. *)
AudCall(t) ==
    /\ pc[t] = "create" => call[t].saw = None
    /\ pc[t] = "use" => current # None
    /\ pc[t] \in {"append", "query", "answered"} => call[t].logger \in 1..Len(buffers)
    /\ pc[t] \in {"create", "use", "query", "answered"} => call[t].entry = None
    /\ pc[t] = "append" => call[t].request.op = "log"
    /\ pc[t] \in {"query", "answered"} =>
         /\ call[t].request.op = "query"
         /\ call[t].before \subseteq returned
         /\ \A x \in call[t].before : x.logger = call[t].logger \/ x.logger \in replaced

(* What it answers. *)
Newest(a) == \A i, j \in 1..Len(a) : i < j => ~A!Older(a[i], a[j])
Answered(r, e, a) ==
    \/ \E i \in 1..Len(a) : a[i] = e
    \/ Len(a) = r.limit /\ \A i \in 1..Len(a) : ~A!Older(a[i], e)
AudAnswer(t) ==
    pc[t] = "answered" =>
        /\ Newest(call[t].answer)
        /\ \A x \in call[t].before : A!Matches(call[t].request, x.entry) =>
             \/ Answered(call[t].request, x.entry, call[t].answer)
             \/ Evicted(x.entry, call[t].logger)
             \/ x.logger \in replaced

AudInv ==
    /\ AudTypes /\ AudRecorded /\ AudApart /\ AudBuffers /\ AudKept
    /\ AudLoggers /\ AudRoom
    /\ \A t \in Threads : AudFlight(t) /\ AudCall(t) /\ AudAnswer(t)

LEMMA AudCount == \A S : A!Cardinality(S) = Cardinality(S)
BY DEF A!Cardinality, Cardinality

LEMMA AudFacts ==
    ASSUME PartsAssumption
    PROVE  /\ IsFiniteSet(Threads) /\ Cardinality(Threads) \in Nat
           /\ Cardinality(Threads) <= MaxLoggers
           /\ BufferSize \in Nat /\ BufferSize > 0
           /\ MaxEntries \in Nat /\ MaxLoggers \in Nat
           /\ None \notin A!Entry /\ None \notin A!Calls /\ None \notin Nat
           /\ None \notin Kinds
<1>1. A!AuditAssumption
      BY DEF PartsAssumption
<1>2. IsFiniteSet(Threads)
      BY <1>1 DEF A!AuditAssumption, A!IsFiniteSet, IsFiniteSet
<1>3. Cardinality(Threads) \in Nat
      BY <1>2, FS_CardinalityType
<1> QED BY <1>1, <1>2, <1>3, AudCount DEF A!AuditAssumption

LEMMA AudSubset ==
    ASSUME PartsAssumption, NEW S, S \subseteq Threads
    PROVE  IsFiniteSet(S) /\ Cardinality(S) \in Nat /\ Cardinality(S) <= Cardinality(Threads)
<1>1. IsFiniteSet(S) /\ Cardinality(S) <= Cardinality(Threads)
      BY AudFacts, FS_Subset
<1> QED BY <1>1, FS_CardinalityType

LEMMA AudInit == PartsAssumption /\ A!Init => AudInv
<1> SUFFICES ASSUME PartsAssumption, A!Init PROVE AudInv
    OBVIOUS
<1>1. /\ pc = [t \in Threads |-> "idle"] /\ call = [t \in Threads |-> None]
      /\ current = None /\ buffers = <<>> /\ made = 0 /\ returned = {} /\ replaced = {}
      BY DEF A!Init
<1>2. /\ MaxEntries \in Nat /\ MaxLoggers \in Nat
      BY AudFacts
<1>3. AudTypes
      BY <1>1, <1>2 DEF AudTypes
<1>4. AudRecorded /\ AudApart /\ AudBuffers /\ AudKept /\ AudLoggers
      BY <1>1 DEF AudRecorded, AudApart, AudBuffers, AudKept, AudLoggers, Flying
<1>5. A!Creating = {} /\ A!Recording = {}
      BY <1>1 DEF A!Creating, A!Recording
<1>6. AudRoom
      BY <1>1, <1>2, <1>5, FS_EmptySet DEF AudRoom
<1>7. \A t \in Threads : AudFlight(t) /\ AudCall(t) /\ AudAnswer(t)
      BY <1>1 DEF AudFlight, AudCall, AudAnswer, Flying
<1> QED BY <1>3, <1>4, <1>6, <1>7 DEF AudInv

(* A step of one call that leaves loggers and buffers alone. *)
LEMMA AudLocal ==
    ASSUME PartsAssumption, AudInv, NEW t \in Threads,
           NEW p \in {"idle", "create", "use", "append", "query", "answered"},
           NEW c \in A!Calls \cup {None}, p = "idle" <=> c = None,
           pc' = [pc EXCEPT ![t] = p], call' = [call EXCEPT ![t] = c],
           UNCHANGED <<current, buffers, returned, replaced>>,
           made' \in made..MaxEntries,
           AudCall(t)', AudAnswer(t)', AudFlight(t)', AudRoom',
           \A u \in Threads \ {t} :
             Flying(u) /\ Flying(t)' => call[u].entry.time # c.entry.time
    PROVE  AudInv'
<1>1. /\ pc'[t] = p /\ call'[t] = c
      /\ \A u \in Threads \ {t} : pc'[u] = pc[u] /\ call'[u] = call[u]
      BY DEF AudInv, AudTypes
<1>2. made \in Nat /\ made' \in Nat /\ made <= made' /\ MaxEntries \in Nat
      BY AudFacts DEF AudInv, AudTypes
<1>3. AudTypes'
      BY <1>1, <1>2 DEF AudInv, AudTypes
<1>4. Times' = Times
      BY DEF Times
<1>5. AudRecorded'
  <2> SUFFICES ASSUME NEW x \in returned
               PROVE  x.entry.time <= made' /\ x.entry.after \subseteq Times
      BY <1>4 DEF AudRecorded
  <2>1. x.entry.time <= made /\ x.entry.after \subseteq Times
        BY DEF AudInv, AudRecorded
  <2>2. x.entry.time \in Nat
        BY DEF AudInv, AudTypes, A!Entry
  <2> QED BY <1>2, <2>1, <2>2
<1>6. AudBuffers' /\ AudKept' /\ AudLoggers'
      BY DEF AudInv, AudBuffers, AudKept, AudLoggers, Held, Evicted
<1>7. ASSUME NEW u \in Threads \ {t}
      PROVE  AudFlight(u)' /\ AudCall(u)' /\ AudAnswer(u)' /\ (Flying(u)' <=> Flying(u))
  <2>1. pc'[u] = pc[u] /\ call'[u] = call[u]
        BY <1>1
  <2>2. AudFlight(u) /\ AudCall(u) /\ AudAnswer(u)
        BY DEF AudInv
  <2>3. AudFlight(u)'
    <3> SUFFICES ASSUME Flying(u)
                 PROVE  /\ call[u].entry.time <= made' /\ call[u].entry.time \notin Times
                        /\ call[u].entry.after \subseteq Times
        BY <1>4, <2>1 DEF AudFlight, Flying
    <3>1. call[u].entry \in A!Entry
          BY DEF Flying, AudInv, AudTypes, A!Calls
    <3>2. call[u].entry.time \in Nat
          BY <3>1 DEF A!Entry
    <3> QED BY <1>2, <2>2, <3>2 DEF AudFlight
  <2>4. AudCall(u)'
        BY <2>1, <2>2 DEF AudCall
  <2>5. AudAnswer(u)'
        BY <2>1, <2>2 DEF AudAnswer, Evicted, Newest, Answered
  <2> QED BY <2>1, <2>3, <2>4, <2>5 DEF Flying
<1>8. AudApart'
  <2> SUFFICES ASSUME NEW u \in Threads, NEW v \in Threads, u # v, Flying(u)', Flying(v)'
               PROVE  call'[u].entry.time # call'[v].entry.time
      BY DEF AudApart
  <2>1. CASE u # t /\ v # t
        BY <1>1, <1>7, <2>1 DEF AudInv, AudApart
  <2>2. CASE u = t
        BY <1>1, <1>7, <2>2
  <2>3. CASE v = t
        BY <1>1, <1>7, <2>3
  <2> QED BY <2>1, <2>2, <2>3
<1>9. \A u \in Threads : AudFlight(u)' /\ AudCall(u)' /\ AudAnswer(u)'
      BY <1>7
<1> QED BY <1>3, <1>5, <1>6, <1>8, <1>9 DEF AudInv

(* Steps that begin nothing leave the room there is. *)
LEMMA AudRoomKept ==
    ASSUME PartsAssumption, AudInv, Len(buffers') = Len(buffers), made' = made,
           A!Creating' \subseteq A!Creating, A!Recording' \subseteq A!Recording
    PROVE  AudRoom'
<1>1. A!Creating \subseteq Threads /\ A!Recording \subseteq Threads
      BY DEF A!Creating, A!Recording
<1>2. IsFiniteSet(A!Creating) /\ IsFiniteSet(A!Recording)
      BY <1>1, AudSubset
<1>3. /\ Cardinality(A!Creating') <= Cardinality(A!Creating)
      /\ Cardinality(A!Recording') <= Cardinality(A!Recording)
      BY <1>2, FS_Subset
<1>4. /\ Cardinality(A!Creating) \in Nat /\ Cardinality(A!Creating') \in Nat
      /\ Cardinality(A!Recording) \in Nat /\ Cardinality(A!Recording') \in Nat
  <2>1. A!Creating' \subseteq Threads /\ A!Recording' \subseteq Threads
        BY <1>1
  <2> QED BY <1>1, <2>1, AudSubset
<1>5. /\ Len(buffers) \in Nat /\ made \in Nat /\ MaxEntries \in Nat /\ MaxLoggers \in Nat
      BY AudFacts DEF AudInv, AudTypes
<1>6. /\ Len(buffers) + Cardinality(A!Creating) <= MaxLoggers
      /\ made + Cardinality(A!Recording) <= MaxEntries
      BY DEF AudInv, AudRoom
<1>7. /\ Len(buffers) + Cardinality(A!Creating') <= MaxLoggers
      /\ made + Cardinality(A!Recording') <= MaxEntries
      BY <1>3, <1>4, <1>5, <1>6
<1> QED BY <1>7 DEF AudRoom

LEMMA AudRequest ==
    ASSUME NEW r \in A!Requests
    PROVE  /\ r.op \in {"log", "query"}
           /\ r.op = "log" => r.kind \in Kinds
           /\ r.op = "query" => r.limit \in 1..BufferSize
BY DEF A!Requests

(* get_audit_logger() begins. *)
LEMMA AudGet ==
    ASSUME PartsAssumption, AudInv, NEW t \in Threads, NEW r \in A!Requests,
           A!GetAuditLogger(t, r)
    PROVE  AudInv'
<1> DEFINE c == [request |-> r, saw |-> current, logger |-> None, entry |-> None,
                 before |-> {}, answer |-> <<>>]
           p == IF current = None THEN "create" ELSE "use"
<1>1. /\ pc[t] = "idle" /\ (r.op = "log" => made + Cardinality(A!Recording) < MaxEntries)
      /\ call' = [call EXCEPT ![t] = c] /\ pc' = [pc EXCEPT ![t] = p]
      /\ UNCHANGED <<current, buffers, made, returned, replaced>>
      BY AudCount DEF A!GetAuditLogger, A!Go
<1>2. c \in A!Calls
  <2>1. current \in {None} \cup 1..MaxLoggers
        BY AudFacts DEF AudInv, AudTypes
  <2>2. <<>> \in Seq(A!Entry)
        OBVIOUS
  <2> QED BY <2>1, <2>2 DEF A!Calls
<1>3. p \in {"create", "use"} /\ p # "idle" /\ c # None
      BY <1>2, AudFacts
<1>4. c.saw = current /\ c.entry = None /\ c.request = r
      OBVIOUS
<1>5. pc'[t] = p /\ call'[t] = c
      BY <1>1 DEF AudInv, AudTypes
<1>6. AudCall(t)' /\ AudAnswer(t)' /\ AudFlight(t)' /\ ~Flying(t)'
      BY <1>1, <1>4, <1>5 DEF AudCall, AudAnswer, AudFlight, Flying
<1> HIDE DEF c, p
<1>7. AudRoom'
  <2>1. \A u \in Threads \ {t} : pc'[u] = pc[u] /\ call'[u] = call[u]
        BY <1>1 DEF AudInv, AudTypes
  <2>2. A!Recording' \subseteq A!Recording \cup (IF r.op = "log" THEN {t} ELSE {})
        BY <1>4, <1>5, <2>1 DEF A!Recording
  <2>3. A!Creating' \subseteq A!Creating \cup (IF current = None THEN {t} ELSE {})
        BY <1>5, <2>1 DEF A!Creating, p
  <2>4. /\ A!Recording \subseteq Threads /\ A!Recording' \subseteq Threads
        /\ A!Creating \subseteq Threads /\ A!Creating' \subseteq Threads
        BY DEF A!Recording, A!Creating
  <2>5. /\ Cardinality(A!Recording) \in Nat /\ Cardinality(A!Recording') \in Nat
        /\ Cardinality(A!Creating) \in Nat /\ Cardinality(A!Creating') \in Nat
        /\ IsFiniteSet(A!Recording) /\ IsFiniteSet(A!Creating)
        /\ Cardinality(A!Creating') <= Cardinality(Threads)
        BY <2>4, AudSubset
  <2>6. /\ Len(buffers) \in Nat /\ made \in Nat /\ MaxEntries \in Nat /\ MaxLoggers \in Nat
        /\ Cardinality(Threads) \in Nat /\ Cardinality(Threads) <= MaxLoggers
        BY AudFacts DEF AudInv, AudTypes
  <2>7. /\ Len(buffers) + Cardinality(A!Creating) <= MaxLoggers
        /\ made + Cardinality(A!Recording) <= MaxEntries
        BY DEF AudInv, AudRoom
  <2>8. made + Cardinality(A!Recording') <= MaxEntries
    <3>1. CASE r.op = "log"
      <4>0. /\ IsFiniteSet(A!Recording \cup {t})
            /\ \/ Cardinality(A!Recording \cup {t}) = Cardinality(A!Recording)
               \/ Cardinality(A!Recording \cup {t}) = Cardinality(A!Recording) + 1
            BY <2>5, FS_AddElement
      <4>1. /\ IsFiniteSet(A!Recording \cup {t})
            /\ Cardinality(A!Recording \cup {t}) <= Cardinality(A!Recording) + 1
            BY <2>5, <4>0
      <4>2. Cardinality(A!Recording') <= Cardinality(A!Recording \cup {t})
            BY <2>2, <3>1, <4>1, FS_Subset
      <4>3. Cardinality(A!Recording \cup {t}) \in Nat
            BY <4>1, FS_CardinalityType
      <4> QED BY <1>1, <2>5, <2>6, <3>1, <4>1, <4>2, <4>3
    <3>2. CASE r.op # "log"
      <4>1. Cardinality(A!Recording') <= Cardinality(A!Recording)
            BY <2>2, <2>5, <3>2, FS_Subset
      <4> QED BY <2>5, <2>6, <2>7, <4>1
    <3> QED BY <3>1, <3>2
  <2>9. Len(buffers) + Cardinality(A!Creating') <= MaxLoggers
    <3>1. CASE current = None
      <4>1. Len(buffers) = 0
            BY <3>1 DEF AudInv, AudLoggers
      <4> QED BY <2>5, <2>6, <4>1
    <3>2. CASE current # None
      <4>1. Cardinality(A!Creating') <= Cardinality(A!Creating)
            BY <2>3, <2>5, <3>2, FS_Subset
      <4> QED BY <2>5, <2>6, <2>7, <4>1
    <3> QED BY <3>1, <3>2
  <2> QED BY <1>1, <2>8, <2>9 DEF AudRoom
<1>8. made' \in made..MaxEntries
      BY <1>1, AudFacts DEF AudInv, AudTypes
<1> QED BY <1>1, <1>2, <1>3, <1>6, <1>7, <1>8, AudLocal

(* "return _audit_logger" *)
LEMMA AudUse ==
    ASSUME PartsAssumption, AudInv, NEW t \in Threads, A!Use(t)
    PROVE  AudInv'
<1>1. /\ pc[t] = "use" /\ call[t] \in A!Calls /\ call[t] # None
      /\ AudCall(t) /\ AudFlight(t)
      /\ UNCHANGED <<current, buffers, made, returned, replaced>>
      BY AudFacts DEF A!Use, AudInv, AudTypes
<1>2. current \in 1..Len(buffers) /\ current \in 1..MaxLoggers /\ call[t].entry = None
      BY <1>1, AudFacts DEF AudCall, AudInv, AudTypes
<1>3. made' \in made..MaxEntries
      BY <1>1, AudFacts DEF AudInv, AudTypes
<1>4. \A u \in Threads \ {t} : pc'[u] = pc[u] /\ call'[u] = call[u]
      BY DEF A!Use, A!Go, AudInv, AudTypes
<1>5. CASE call[t].request.op = "log"
  <2> DEFINE c == [call[t] EXCEPT !.logger = current, !.saw = None]
  <2>1. call' = [call EXCEPT ![t] = c] /\ pc' = [pc EXCEPT ![t] = "append"]
        BY <1>1, <1>5 DEF A!Use, A!Go, AudInv, AudTypes
  <2>2. /\ c \in A!Calls /\ c.logger = current /\ c.entry = None
        /\ c.request = call[t].request
        BY <1>1, <1>2 DEF A!Calls
  <2>3. c # None
        BY <2>2, AudFacts
  <2>4. pc'[t] = "append" /\ call'[t] = c
        BY <2>1 DEF AudInv, AudTypes
  <2> HIDE DEF c
  <2>5. AudCall(t)' /\ AudAnswer(t)' /\ AudFlight(t)' /\ ~Flying(t)'
        BY <1>1, <1>2, <1>5, <2>2, <2>4 DEF AudCall, AudAnswer, AudFlight, Flying
  <2>6. A!Recording' \subseteq A!Recording /\ A!Creating' \subseteq A!Creating
        BY <1>1, <1>2, <1>4, <1>5, <2>2, <2>4 DEF A!Recording, A!Creating
  <2>7. AudRoom'
        BY <1>1, <2>6, AudRoomKept
  <2> QED BY <1>1, <1>3, <2>1, <2>2, <2>3, <2>5, <2>7, AudLocal
<1>6. CASE call[t].request.op = "query"
  <2> DEFINE c == [call[t] EXCEPT !.logger = current, !.saw = None, !.before = returned]
  <2>1. call' = [call EXCEPT ![t] = c] /\ pc' = [pc EXCEPT ![t] = "query"]
        BY <1>1, <1>6 DEF A!Use, A!Go, AudInv, AudTypes
  <2>2. /\ c \in A!Calls /\ c.logger = current /\ c.entry = None
        /\ c.request = call[t].request /\ c.before = returned
    <3>1. returned \subseteq A!Logged
          BY AudFacts DEF AudInv, AudTypes, A!Logged
    <3> QED BY <1>1, <1>2, <3>1 DEF A!Calls
  <2>3. c # None
        BY <2>2, AudFacts
  <2>4. pc'[t] = "query" /\ call'[t] = c
        BY <2>1 DEF AudInv, AudTypes
  <2> HIDE DEF c
  <2>5. AudCall(t)' /\ AudAnswer(t)' /\ AudFlight(t)' /\ ~Flying(t)'
    <3>1. \A x \in returned : x.logger = current \/ x.logger \in replaced
          BY DEF AudInv, AudTypes, AudLoggers
    <3>2. AudCall(t)'
          BY <1>1, <1>2, <1>6, <2>2, <2>4, <3>1 DEF AudCall
    <3> QED BY <1>2, <2>2, <2>4, <3>2 DEF AudAnswer, AudFlight, Flying
  <2>6. A!Recording' \subseteq A!Recording /\ A!Creating' \subseteq A!Creating
        BY <1>1, <1>2, <1>4, <1>6, <2>2, <2>4 DEF A!Recording, A!Creating
  <2>7. AudRoom'
        BY <1>1, <2>6, AudRoomKept
  <2> QED BY <1>1, <1>3, <2>1, <2>2, <2>3, <2>5, <2>7, AudLocal
<1> QED BY <1>5, <1>6 DEF A!Use

(* A call ends without a change: log() raises, or query() returns. *)
LEMMA AudEnds ==
    ASSUME PartsAssumption, AudInv, NEW t \in Threads, A!Return(t),
           UNCHANGED <<current, buffers, made, returned, replaced>>
    PROVE  AudInv'
<1>1. pc' = [pc EXCEPT ![t] = "idle"] /\ call' = [call EXCEPT ![t] = None]
      BY DEF A!Return, A!Go
<1>2. /\ pc'[t] = "idle" /\ call'[t] = None
      /\ \A u \in Threads \ {t} : pc'[u] = pc[u] /\ call'[u] = call[u]
      BY <1>1 DEF AudInv, AudTypes
<1>3. AudCall(t)' /\ AudAnswer(t)' /\ AudFlight(t)' /\ ~Flying(t)'
      BY <1>2 DEF AudCall, AudAnswer, AudFlight, Flying
<1>4. A!Recording' \subseteq A!Recording /\ A!Creating' \subseteq A!Creating
      BY <1>2 DEF A!Recording, A!Creating
<1>5. AudRoom'
      BY <1>4, AudRoomKept
<1>6. made' \in made..MaxEntries
      BY AudFacts DEF AudInv, AudTypes
<1> QED BY <1>1, <1>3, <1>5, <1>6, AudLocal

(* The entry is made: its time is new, and it knows what has returned. *)
LEMMA AudMakes ==
    ASSUME PartsAssumption, AudInv, NEW t \in Threads, A!MakeEntry(t)
    PROVE  AudInv'
<1> DEFINE e == [time |-> made', kind |-> call[t].request.kind, after |-> Times]
           c == [call[t] EXCEPT !.entry = e]
<1>1. /\ pc[t] = "append" /\ call[t].entry = None /\ made' = made + 1
      /\ call' = [call EXCEPT ![t].entry = e]
      /\ UNCHANGED <<pc, current, buffers, returned, replaced>>
      BY DEF A!MakeEntry, Times
<1>2. /\ call[t] \in A!Calls /\ call[t] # None /\ AudCall(t)
      /\ call[t].request \in A!Requests
  <2>1. call[t] \in A!Calls /\ AudCall(t)
        BY <1>1, AudFacts DEF AudInv, AudTypes
  <2> QED BY <2>1, AudFacts DEF A!Calls
<1>3. made \in Nat /\ made' \in Nat /\ MaxEntries \in Nat /\ made' <= MaxEntries
  <2>1. t \in A!Recording /\ A!Recording \subseteq Threads
        BY <1>1, <1>2 DEF A!Recording, AudCall
  <2>2. IsFiniteSet(A!Recording) /\ Cardinality(A!Recording) \in Nat
        BY <2>1, AudSubset
  <2>3. Cardinality(A!Recording) # 0
        BY <2>1, <2>2, FS_EmptySet
  <2>4. made \in Nat /\ MaxEntries \in Nat /\ made + Cardinality(A!Recording) <= MaxEntries
        BY AudFacts DEF AudInv, AudTypes, AudRoom
  <2> QED BY <1>1, <2>2, <2>3, <2>4
<1>4. ASSUME NEW x \in returned
      PROVE  x.entry.time \in 1..MaxEntries /\ x.entry.time <= made
      BY DEF AudInv, AudTypes, AudRecorded, A!Entry
<1>5. Times \subseteq 1..MaxEntries /\ made' \notin Times
  <2>1. Times \subseteq 1..MaxEntries /\ \A n \in Times : n <= made
        BY <1>4 DEF Times
  <2> QED BY <1>1, <1>3, <2>1
<1>6. e \in A!Entry
  <2>1. call[t].request.kind \in Kinds
        BY <1>1, <1>2, AudRequest DEF AudCall
  <2>2. made' \in 1..MaxEntries
        BY <1>1, <1>3
  <2> QED BY <1>5, <2>1, <2>2 DEF A!Entry
<1>7. /\ call' = [call EXCEPT ![t] = c] /\ pc' = [pc EXCEPT ![t] = "append"]
      BY <1>1, <1>2 DEF AudInv, AudTypes
<1>8. e.time = made' /\ e.after = Times
      OBVIOUS
<1> HIDE DEF e
<1>9. /\ c \in A!Calls /\ c.entry = e /\ c.request = call[t].request
      /\ c.logger = call[t].logger
      BY <1>2, <1>6 DEF A!Calls
<1>10. c # None /\ e # None
      BY <1>6, <1>9, AudFacts
<1>11. /\ pc'[t] = "append" /\ call'[t] = c
       /\ \A u \in Threads \ {t} : pc'[u] = pc[u] /\ call'[u] = call[u]
      BY <1>7, <1>1 DEF AudInv, AudTypes
<1> HIDE DEF c
<1>12. AudCall(t)' /\ AudAnswer(t)'
      BY <1>1, <1>2, <1>9, <1>11 DEF AudCall, AudAnswer
<1>13. AudFlight(t)'
  <2>1. Times' = Times
        BY <1>1 DEF Times
  <2>2. call'[t].entry = e
        BY <1>9, <1>11
  <2> QED BY <1>3, <1>5, <1>8, <2>1, <2>2 DEF AudFlight
<1>14. ASSUME NEW u \in Threads \ {t}, Flying(u) PROVE call[u].entry.time # c.entry.time
  <2>1. call[u].entry.time <= made
        BY <1>14 DEF AudInv, AudFlight
  <2>2. call[u].entry \in A!Entry
        BY <1>14 DEF Flying, AudInv, AudTypes, A!Calls
  <2>3. call[u].entry.time \in Nat
        BY <2>2 DEF A!Entry
  <2> QED BY <1>1, <1>3, <1>8, <1>9, <2>1, <2>3
<1>15. AudRoom'
  <2>1. A!Creating' = A!Creating
        BY <1>1 DEF A!Creating
  <2>2. A!Recording' = A!Recording \ {t} /\ t \in A!Recording /\ A!Recording \subseteq Threads
        BY <1>1, <1>2, <1>9, <1>10, <1>11 DEF A!Recording, AudCall
  <2>3. IsFiniteSet(A!Recording) /\ Cardinality(A!Recording) \in Nat
        BY <2>2, AudSubset
  <2>4. Cardinality(A!Recording') = Cardinality(A!Recording) - 1
        BY <2>2, <2>3, FS_RemoveElement
  <2>5. /\ made + Cardinality(A!Recording) <= MaxEntries
        /\ Len(buffers) + Cardinality(A!Creating) <= MaxLoggers
        BY DEF AudInv, AudRoom
  <2>6. made' + Cardinality(A!Recording') <= MaxEntries
        BY <1>1, <1>3, <2>3, <2>4, <2>5
  <2> QED BY <1>1, <2>1, <2>5, <2>6 DEF AudRoom
<1>16. made' \in made..MaxEntries
      BY <1>1, <1>3
<1> QED BY <1>1, <1>7, <1>9, <1>10, <1>12, <1>13, <1>14, <1>15, <1>16, AudLocal

(* A new logger has an empty buffer, and the one it takes the place of is  *)
(* noted.                                                                  *)
LEMMA AudNew ==
    ASSUME PartsAssumption, AudInv, A!NewLogger, UNCHANGED <<made, returned>>,
           replaced' = replaced \/ (current # None /\ replaced' = replaced \cup {current}),
           current # None => current \in replaced',
           AudRoom',
           pc' \in [Threads -> {"idle", "create", "use", "append", "query", "answered"}],
           call' = call,
           \A u \in Threads : pc'[u] = pc[u] \/ (pc[u] = "create" /\ pc'[u] = "use")
    PROVE  AudInv'
<1> DEFINE n == Len(buffers)
<1>1. /\ n \in Nat /\ buffers \in Seq(Seq(A!Entry)) /\ MaxLoggers \in Nat
      /\ BufferSize \in Nat
      BY AudFacts DEF AudInv, AudTypes
<1>2. /\ buffers' \in Seq(Seq(A!Entry)) /\ Len(buffers') = n + 1
      /\ \A l \in 1..n : buffers'[l] = buffers[l]
      /\ buffers'[n + 1] = <<>> /\ current' = n + 1
  <2>1. buffers' = Append(buffers, <<>>) /\ <<>> \in Seq(A!Entry)
        BY DEF A!NewLogger
  <2>2. current' = Len(buffers')
        BY DEF A!NewLogger
  <2> QED BY <1>1, <2>1, <2>2
<1>3. n + 1 <= MaxLoggers
  <2>1. A!Creating' \subseteq Threads
        BY DEF A!Creating
  <2>2. Cardinality(A!Creating') \in Nat
        BY <2>1, AudSubset
  <2> QED BY <1>1, <1>2, <2>2 DEF AudRoom
<1> HIDE DEF n
<1>4. replaced \subseteq 1..n /\ returned \subseteq [entry : A!Entry, logger : 1..n]
      /\ current \in {None} \cup 1..n
      BY DEF AudInv, AudTypes, n
<1>5. AudTypes'
  <2>1. \A l \in 1..Len(buffers') : Len(buffers'[l]) <= BufferSize
    <3>1. \A l \in 1..n : Len(buffers[l]) <= BufferSize
          BY DEF AudInv, AudTypes, n
    <3>2. Len(buffers'[n + 1]) <= BufferSize
          BY <1>1, <1>2
    <3>3. \A l \in 1..(n + 1) : l \in 1..n \/ l = n + 1
          BY <1>1
    <3> QED BY <1>2, <3>1, <3>2, <3>3
  <2>2. returned' \subseteq [entry : A!Entry, logger : 1..Len(buffers')]
    <3>1. 1..n \subseteq 1..Len(buffers')
          BY <1>1, <1>2
    <3> QED BY <1>4, <3>1
  <2>3. replaced' \subseteq 1..Len(buffers') /\ current' \in {None} \cup 1..Len(buffers')
    <3>1. replaced' \subseteq 1..n
          BY <1>4
    <3>2. \A l \in 1..n : l \in 1..(n + 1)
          BY <1>1
    <3>3. n + 1 \in 1..(n + 1)
          BY <1>1
    <3> QED BY <1>2, <3>1, <3>2, <3>3
  <2>4. \A u \in Threads : pc'[u] = "idle" <=> call'[u] = None
        BY DEF AudInv, AudTypes
  <2>5. /\ call' \in [Threads -> A!Calls \cup {None}] /\ made' \in 0..MaxEntries
        BY DEF AudInv, AudTypes
  <2>6. Len(buffers') <= MaxLoggers
        BY <1>2, <1>3
  <2> QED BY <1>2, <2>1, <2>2, <2>3, <2>4, <2>5, <2>6 DEF AudTypes
<1>6. Times' = Times
      BY DEF Times
<1>7. AudRecorded' /\ AudApart'
      BY <1>6 DEF AudInv, AudRecorded, AudApart, Flying
<1>8. AudBuffers'
  <2> SUFFICES ASSUME NEW l \in 1..Len(buffers'), NEW i \in 1..Len(buffers'[l])
               PROVE  /\ [entry |-> buffers'[l][i], logger |-> l] \in returned
                      /\ \A j \in 1..Len(buffers'[l]) :
                           i < j => ~A!Older(buffers'[l][j], buffers'[l][i])
      BY DEF AudBuffers, A!Older
  <2>1. CASE l \in 1..n
        BY <1>2, <2>1 DEF AudInv, AudBuffers, n
  <2>2. CASE l = n + 1
        BY <1>2, <2>2
  <2> QED BY <1>1, <1>2, <2>1, <2>2
<1>9. \A l \in 1..n : \A e : (Held(e, l)' <=> Held(e, l)) /\ (Evicted(e, l)' <=> Evicted(e, l))
      BY <1>2 DEF Held, Evicted
<1>10. AudKept'
      BY <1>4, <1>9 DEF AudInv, AudKept
<1>11. AudLoggers'
  <2>1. \A l \in 1..n : l = current \/ l \in replaced
        BY DEF AudInv, AudLoggers, n
  <2>2. \A l \in 1..n : l \in replaced'
        BY <1>4, <2>1, AudFacts
  <2>3. current' # None /\ Len(buffers') # 0
        BY <1>1, <1>2, AudFacts
  <2> QED BY <1>1, <1>2, <2>2, <2>3 DEF AudLoggers
<1>12. ASSUME NEW u \in Threads PROVE AudFlight(u)' /\ AudCall(u)' /\ AudAnswer(u)'
  <2>1. AudFlight(u) /\ AudCall(u) /\ AudAnswer(u)
        BY DEF AudInv
  <2>2. AudFlight(u)'
        BY <1>6, <2>1 DEF AudFlight, Flying
  <2>3. current' # None
        BY <1>1, <1>2, AudFacts
  <2>4. pc[u] \in {"append", "query", "answered"} =>
          call[u].logger \in 1..n /\ call[u].logger \in 1..Len(buffers')
        BY <1>1, <1>2, <2>1 DEF AudCall, n
  <2>5. AudCall(u)'
        BY <2>1, <2>3, <2>4 DEF AudCall
  <2>6. AudAnswer(u)'
        BY <1>9, <2>1, <2>4 DEF AudAnswer, Newest, Answered
  <2> QED BY <2>2, <2>5, <2>6
<1> QED BY <1>5, <1>7, <1>8, <1>10, <1>11, <1>12 DEF AudInv

LEMMA AudInitAudit ==
    ASSUME PartsAssumption, AudInv, A!InitAudit
    PROVE  AudInv'
<1>1. /\ Len(buffers) + Cardinality(A!Creating) < MaxLoggers /\ A!NewLogger
      /\ replaced' = (IF current = None THEN replaced ELSE replaced \cup {current})
      /\ UNCHANGED <<pc, call, made, returned>>
      BY AudCount DEF A!InitAudit
<1>2. A!Creating' = A!Creating /\ A!Recording' = A!Recording
      BY <1>1 DEF A!Creating, A!Recording
<1>3. Len(buffers') = Len(buffers) + 1 /\ Len(buffers) \in Nat
      BY <1>1 DEF A!NewLogger, AudInv, AudTypes
<1>4. AudRoom'
  <2>1. A!Creating \subseteq Threads
        BY DEF A!Creating
  <2>2. Cardinality(A!Creating) \in Nat /\ MaxLoggers \in Nat
        BY <2>1, AudSubset, AudFacts
  <2>3. Len(buffers') + Cardinality(A!Creating') <= MaxLoggers
        BY <1>1, <1>2, <1>3, <2>2
  <2> QED BY <1>1, <1>2, <2>3 DEF AudRoom, AudInv
<1> QED BY <1>1, <1>4, AudNew DEF AudInv, AudTypes

LEMMA AudCreate ==
    ASSUME PartsAssumption, AudInv, NEW t \in Threads, A!Create(t)
    PROVE  AudInv'
<1>1. /\ pc[t] = "create" /\ A!NewLogger /\ pc' = [pc EXCEPT ![t] = "use"]
      /\ UNCHANGED <<call, made, returned>> /\ call[t].saw = None
      /\ replaced' = (IF None # current THEN replaced \cup {current} ELSE replaced)
      BY DEF A!Create, A!Go, AudInv, AudCall
<1>2. /\ pc' \in [Threads -> {"idle", "create", "use", "append", "query", "answered"}]
      /\ \A u \in Threads \ {t} : pc'[u] = pc[u] /\ call'[u] = call[u]
      /\ pc'[t] = "use"
      BY <1>1 DEF AudInv, AudTypes
<1>3. /\ A!Creating' = A!Creating \ {t} /\ t \in A!Creating /\ A!Creating \subseteq Threads
      /\ A!Recording' = A!Recording
      BY <1>1, <1>2 DEF A!Creating, A!Recording
<1>4. Len(buffers') = Len(buffers) + 1 /\ Len(buffers) \in Nat
      BY <1>1 DEF A!NewLogger, AudInv, AudTypes
<1>5. AudRoom'
  <2>1. IsFiniteSet(A!Creating) /\ Cardinality(A!Creating) \in Nat /\ MaxLoggers \in Nat
        BY <1>3, AudSubset, AudFacts
  <2>2. Cardinality(A!Creating') = Cardinality(A!Creating) - 1
        BY <1>3, <2>1, FS_RemoveElement
  <2>3. Len(buffers') + Cardinality(A!Creating') <= MaxLoggers
        BY <1>4, <2>1, <2>2 DEF AudInv, AudRoom
  <2> QED BY <1>1, <1>3, <2>3 DEF AudRoom, AudInv
<1> QED BY <1>1, <1>2, <1>5, AudNew

(* What append() does to a deque: it moves by one if it was full.          *)
LEMMA AudDeque ==
    ASSUME PartsAssumption, NEW b \in Seq(A!Entry), Len(b) <= BufferSize, NEW e \in A!Entry
    PROVE  LET a == A!Appended(b, e)
           IN  /\ a \in Seq(A!Entry) /\ Len(a) \in 1..BufferSize /\ a[Len(a)] = e
               /\ \E d \in {0, 1} :
                    /\ Len(a) = Len(b) + 1 - d
                    /\ d = 1 <=> Len(b) = BufferSize
                    /\ \A i \in 1..(Len(a) - 1) : i + d \in 1..Len(b) /\ a[i] = b[i + d]
<1> DEFINE longer == Append(b, e)
           a == A!Appended(b, e)
<1>1. BufferSize \in Nat /\ BufferSize > 0 /\ Len(b) \in Nat
      BY AudFacts
<1>2. /\ longer \in Seq(A!Entry) /\ Len(longer) = Len(b) + 1 /\ longer[Len(b) + 1] = e
      /\ \A i \in 1..Len(b) : longer[i] = b[i]
      OBVIOUS
<1>3. a = IF Len(longer) > BufferSize THEN Tail(longer) ELSE longer
      BY DEF A!Appended
<1> HIDE DEF longer, a
<1>4. CASE Len(b) = BufferSize
  <2>1. a = Tail(longer) /\ Len(longer) > BufferSize
        BY <1>1, <1>2, <1>3, <1>4
  <2>2. longer # <<>>
        BY <1>1, <1>2
  <2>3. /\ a \in Seq(A!Entry) /\ Len(a) = Len(b)
        /\ \A i \in 1..Len(b) : a[i] = longer[i + 1]
        BY <1>1, <1>2, <2>1, <2>2
  <2>4. \A i \in 1..(Len(b) - 1) : i + 1 \in 1..Len(b) /\ i \in 1..Len(b)
        BY <1>1
  <2>5. a[Len(a)] = e
        BY <1>1, <1>2, <1>4, <2>3
  <2>6. \A i \in 1..(Len(a) - 1) : i + 1 \in 1..Len(b) /\ a[i] = b[i + 1]
        BY <1>2, <2>3, <2>4
  <2>7. Len(a) \in 1..BufferSize /\ Len(a) = Len(b) + 1 - 1
        BY <1>1, <1>4, <2>3
  <2> QED BY <1>4, <2>3, <2>5, <2>6, <2>7 DEF a
<1>5. CASE Len(b) # BufferSize
  <2>1. a = longer
        BY <1>1, <1>2, <1>3, <1>5
  <2>2. Len(a) \in 1..BufferSize /\ Len(a) = Len(b) + 1 - 0
        BY <1>1, <1>2, <1>5, <2>1
  <2>3. \A i \in 1..(Len(a) - 1) : i + 0 \in 1..Len(b) /\ a[i] = b[i + 0]
        BY <1>1, <1>2, <2>1
  <2> QED BY <1>2, <1>5, <2>1, <2>2, <2>3 DEF a
<1> QED BY <1>4, <1>5

(* log() records its entry and returns: no entry that has been recorded    *)
(* knows this one, so the order in the buffer holds, and what this one     *)
(* pushes out is not younger than what stays.                              *)
LEMMA AudAppend ==
    ASSUME PartsAssumption, AudInv, NEW t \in Threads, A!AppendEntry(t)
    PROVE  AudInv'
<1> DEFINE l0 == call[t].logger
           e == call[t].entry
           b == buffers[l0]
           a == A!Appended(b, e)
<1>1. /\ pc[t] = "append" /\ e # None
      /\ buffers' = [buffers EXCEPT ![l0] = a]
      /\ returned' = returned \cup {[entry |-> e, logger |-> l0]}
      /\ pc' = [pc EXCEPT ![t] = "idle"] /\ call' = [call EXCEPT ![t] = None]
      /\ UNCHANGED <<current, made, replaced>>
      BY DEF A!AppendEntry, A!Return, A!Go
<1>2. /\ Flying(t) /\ l0 \in 1..Len(buffers) /\ e \in A!Entry
      /\ e.time \notin Times /\ e.time <= made /\ e.after \subseteq Times
  <2>1. call[t] \in A!Calls /\ call[t] # None
        BY <1>1 DEF AudInv, AudTypes
  <2>2. Flying(t) /\ e \in A!Entry
        BY <1>1, <2>1 DEF Flying, A!Calls
  <2> QED BY <1>1, <2>2 DEF AudInv, AudFlight, AudCall
<1>3. b \in Seq(A!Entry) /\ Len(b) <= BufferSize
      BY <1>2 DEF AudInv, AudTypes
<1>4. /\ a \in Seq(A!Entry) /\ Len(a) \in 1..BufferSize /\ a[Len(a)] = e
      /\ \E d \in {0, 1} :
           /\ Len(a) = Len(b) + 1 - d
           /\ d = 1 <=> Len(b) = BufferSize
           /\ \A i \in 1..(Len(a) - 1) : i + d \in 1..Len(b) /\ a[i] = b[i + d]
      BY <1>2, <1>3, AudDeque
<1>5. PICK d \in {0, 1} :
           /\ Len(a) = Len(b) + 1 - d
           /\ d = 1 <=> Len(b) = BufferSize
           /\ \A i \in 1..(Len(a) - 1) : i + d \in 1..Len(b) /\ a[i] = b[i + d]
      BY <1>4
<1>6. /\ Len(buffers') = Len(buffers) /\ buffers' \in Seq(Seq(A!Entry))
      /\ buffers'[l0] = a
      /\ \A l \in 1..Len(buffers) : l # l0 => buffers'[l] = buffers[l]
      BY <1>1, <1>2, <1>4 DEF AudInv, AudTypes
<1>7. /\ pc'[t] = "idle" /\ call'[t] = None
      /\ \A u \in Threads \ {t} : pc'[u] = pc[u] /\ call'[u] = call[u]
      BY <1>1 DEF AudInv, AudTypes
<1>8. BufferSize \in Nat /\ Len(b) \in Nat /\ Len(a) \in Nat
      BY <1>3, <1>4, AudFacts
<1>9. [entry |-> e, logger |-> l0] \in returned'
      BY <1>1
<1>10. Times' = Times \cup {e.time}
  <2> HIDE DEF e, l0, a, b
  <2>1. [entry |-> e, logger |-> l0].entry = e
        OBVIOUS
  <2> QED BY <1>1, <2>1 DEF Times
<1>11. A!Creating' \subseteq A!Creating /\ A!Recording' \subseteq A!Recording
      BY <1>7 DEF A!Creating, A!Recording
<1>12. AudRoom'
      BY <1>1, <1>6, <1>11, AudRoomKept
<1> HIDE DEF a, b, e, l0
<1>13. AudTypes'
  <2>1. \A l \in 1..Len(buffers') : Len(buffers'[l]) <= BufferSize
    <3>1. \A l \in 1..Len(buffers) : Len(buffers[l]) <= BufferSize
          BY DEF AudInv, AudTypes
    <3>2. Len(a) <= BufferSize
          BY <1>4, <1>8
    <3> QED BY <1>6, <3>1, <3>2
  <2>2. returned' \subseteq [entry : A!Entry, logger : 1..Len(buffers')]
        BY <1>1, <1>2, <1>6 DEF AudInv, AudTypes
  <2>3. \A u \in Threads : pc'[u] = "idle" <=> call'[u] = None
        BY <1>7 DEF AudInv, AudTypes
  <2>4. /\ pc' \in [Threads -> {"idle", "create", "use", "append", "query", "answered"}]
        /\ call' \in [Threads -> A!Calls \cup {None}]
        BY <1>1 DEF AudInv, AudTypes
  <2>5. /\ current' \in {None} \cup 1..Len(buffers') /\ Len(buffers') <= MaxLoggers
        /\ made' \in 0..MaxEntries /\ replaced' \subseteq 1..Len(buffers')
        BY <1>1, <1>6 DEF AudInv, AudTypes
  <2> QED BY <1>6, <2>1, <2>2, <2>3, <2>4, <2>5 DEF AudTypes
<1>14. AudRecorded'
  <2>1. \A x \in returned : x.entry.time <= made /\ x.entry.after \subseteq Times
        BY DEF AudInv, AudRecorded
  <2>2. \A x \in returned' : x \in returned \/ x.entry = e
        BY <1>1
  <2>3. \A x \in returned' : x.entry.time <= made' /\ x.entry.after \subseteq Times'
        BY <1>1, <1>2, <1>10, <2>1, <2>2
  <2> QED BY <2>3 DEF AudRecorded
<1>15. ASSUME NEW x \in returned PROVE ~A!Older(e, x.entry)
  <2>1. x.entry.after \subseteq Times
        BY DEF AudInv, AudRecorded
  <2> QED BY <1>2, <2>1 DEF A!Older
<1>16. \A i \in 1..Len(b) : [entry |-> b[i], logger |-> l0] \in returned
      BY <1>2 DEF AudInv, AudBuffers, b
<1>17. \A i, j \in 1..Len(b) : i < j => ~A!Older(b[j], b[i])
      BY <1>2 DEF AudInv, AudBuffers, b
<1>18. \A i \in 1..Len(b) : ~A!Older(e, b[i])
      BY <1>15, <1>16
<1>19. AudBuffers'
  <2> SUFFICES ASSUME NEW l \in 1..Len(buffers'), NEW i \in 1..Len(buffers'[l])
               PROVE  /\ [entry |-> buffers'[l][i], logger |-> l] \in returned'
                      /\ \A j \in 1..Len(buffers'[l]) :
                           i < j => ~A!Older(buffers'[l][j], buffers'[l][i])
      BY DEF AudBuffers, A!Older
  <2>1. CASE l # l0
        BY <1>1, <1>6, <2>1 DEF AudInv, AudBuffers
  <2>2. CASE l = l0
    <3>1. buffers'[l] = a /\ i \in 1..Len(a)
          BY <1>6, <2>2
    <3>2. [entry |-> a[i], logger |-> l] \in returned'
      <4>1. CASE i = Len(a)
            BY <1>4, <1>9, <2>2, <4>1
      <4>2. CASE i # Len(a)
        <5>1. i \in 1..(Len(a) - 1)
              BY <1>8, <3>1, <4>2
        <5>2. i + d \in 1..Len(b) /\ a[i] = b[i + d]
              BY <1>5, <5>1
        <5> QED BY <1>1, <1>16, <2>2, <5>2
      <4> QED BY <4>1, <4>2
    <3>3. ASSUME NEW j \in 1..Len(a), i < j PROVE ~A!Older(a[j], a[i])
      <4>1. i \in 1..(Len(a) - 1)
            BY <1>8, <3>1, <3>3
      <4>2. i + d \in 1..Len(b) /\ a[i] = b[i + d]
            BY <1>5, <4>1
      <4>3. CASE j = Len(a)
            BY <1>4, <1>18, <4>2, <4>3
      <4>4. CASE j # Len(a)
        <5>1. j \in 1..(Len(a) - 1)
              BY <1>8, <3>3, <4>4
        <5>2. j + d \in 1..Len(b) /\ a[j] = b[j + d] /\ i + d < j + d
              BY <1>5, <3>3, <5>1
        <5> QED BY <1>17, <4>2, <5>2
      <4> QED BY <4>3, <4>4
    <3> QED BY <3>1, <3>2, <3>3
  <2> QED BY <2>1, <2>2
<1>20. ASSUME NEW x \in returned, NEW l \in 1..Len(buffers), Evicted(x.entry, l)
       PROVE  Evicted(x.entry, l)'
  <2>1. CASE l # l0
        BY <1>6, <1>20, <2>1 DEF Evicted
  <2>2. CASE l = l0
    <3>1. Len(b) = BufferSize /\ \A i \in 1..Len(b) : ~A!Older(b[i], x.entry)
          BY <1>20, <2>2 DEF Evicted, b
    <3>2. Len(a) = BufferSize
          BY <1>5, <1>8, <3>1
    <3>3. ASSUME NEW i \in 1..Len(a) PROVE ~A!Older(a[i], x.entry)
      <4>1. CASE i = Len(a)
            BY <1>4, <1>15, <4>1
      <4>2. CASE i # Len(a)
        <5>1. i \in 1..(Len(a) - 1)
              BY <1>8, <4>2
        <5> QED BY <1>5, <3>1, <5>1
      <4> QED BY <4>1, <4>2
    <3> QED BY <1>6, <2>2, <3>2, <3>3 DEF Evicted, A!Older
  <2> QED BY <2>1, <2>2
<1>21. AudKept'
  <2> SUFFICES ASSUME NEW x \in returned'
               PROVE  Held(x.entry, x.logger)' \/ Evicted(x.entry, x.logger)'
      BY DEF AudKept, Held, Evicted, A!Older
  <2>1. CASE x = [entry |-> e, logger |-> l0]
    <3>1. Len(a) \in 1..Len(a)
          BY <1>4, <1>8
    <3> QED BY <1>4, <1>6, <2>1, <3>1 DEF Held
  <2>2. CASE x \in returned
    <3>1. x.logger \in 1..Len(buffers) /\ (Held(x.entry, x.logger) \/ Evicted(x.entry, x.logger))
          BY <2>2 DEF AudInv, AudTypes, AudKept
    <3>2. CASE Evicted(x.entry, x.logger)
          BY <1>20, <2>2, <3>1, <3>2
    <3>3. CASE Held(x.entry, x.logger) /\ x.logger # l0
          BY <1>6, <3>1, <3>3 DEF Held
    <3>4. CASE Held(x.entry, x.logger) /\ x.logger = l0
      <4>1. PICK i \in 1..Len(b) : b[i] = x.entry
            BY <3>4 DEF Held, b
      <4>2. CASE i > d
        <5>1. i - d \in 1..(Len(a) - 1) /\ i - d \in 1..Len(a) /\ (i - d) + d = i
              BY <1>5, <1>8, <4>2
        <5>2. a[i - d] = x.entry
              BY <1>5, <4>1, <5>1
        <5> QED BY <1>6, <3>4, <5>1, <5>2 DEF Held
      <4>3. CASE ~(i > d)
        <5>1. i = 1 /\ d = 1 /\ Len(a) = BufferSize
              BY <1>5, <1>8, <4>3
        <5>2. ASSUME NEW k \in 1..Len(a) PROVE ~A!Older(a[k], x.entry)
          <6>1. CASE k = Len(a)
                BY <1>4, <1>15, <2>2, <6>1
          <6>2. CASE k # Len(a)
            <7>1. k \in 1..(Len(a) - 1)
                  BY <1>8, <6>2
            <7>2. k + d \in 1..Len(b) /\ a[k] = b[k + d] /\ i < k + d
                  BY <1>5, <5>1, <7>1
            <7> QED BY <1>17, <4>1, <7>2
          <6> QED BY <6>1, <6>2
        <5> QED BY <1>6, <3>4, <5>1, <5>2 DEF Evicted, A!Older
      <4> QED BY <4>2, <4>3
    <3> QED BY <3>1, <3>2, <3>3, <3>4
  <2> QED BY <1>1, <2>1, <2>2
<1>22. AudLoggers'
      BY <1>1, <1>6 DEF AudInv, AudLoggers
<1>23. AudApart'
      BY <1>7 DEF AudInv, AudApart, Flying
<1>24. ASSUME NEW u \in Threads PROVE AudFlight(u)' /\ AudCall(u)' /\ AudAnswer(u)'
  <2>1. CASE u = t
        BY <1>7, <2>1 DEF AudFlight, AudCall, AudAnswer, Flying
  <2>2. CASE u # t
    <3>1. pc'[u] = pc[u] /\ call'[u] = call[u]
          BY <1>7, <2>2
    <3>2. AudFlight(u) /\ AudCall(u) /\ AudAnswer(u)
          BY DEF AudInv
    <3>3. AudFlight(u)'
      <4>1. Flying(u) => call[u].entry.time # e.time
            BY <1>2, <2>2 DEF AudInv, AudApart, e
      <4> QED BY <1>1, <1>10, <3>1, <3>2, <4>1 DEF AudFlight, Flying
    <3>4. AudCall(u)'
          BY <1>1, <1>6, <3>1, <3>2 DEF AudCall
    <3>5. AudAnswer(u)'
      <4> SUFFICES ASSUME pc[u] = "answered"
                   PROVE  AudAnswer(u)'
          BY <3>1 DEF AudAnswer
      <4>1. /\ call[u].before \subseteq returned /\ call[u].logger \in 1..Len(buffers)
            BY <3>2 DEF AudCall
      <4>2. \A x \in call[u].before : \A l \in {call[u].logger} :
              Evicted(x.entry, l) => Evicted(x.entry, l)'
            BY <1>20, <4>1
      <4> HIDE DEF Evicted
      <4> QED BY <1>1, <3>1, <3>2, <4>2 DEF AudAnswer, Newest, Answered
    <3> QED BY <3>3, <3>4, <3>5
  <2> QED BY <2>1, <2>2
<1> QED BY <1>12, <1>13, <1>14, <1>19, <1>21, <1>22, <1>23, <1>24 DEF AudInv

(* Places number what query() found from the newest on.                    *)
LEMMA AudPlaces ==
    ASSUME NEW n \in Nat, NEW found, found \subseteq 1..n
    PROVE  /\ Cardinality(found) \in Nat
           /\ \A i \in found : A!Place(i, found) \in 1..Cardinality(found)
           /\ \A i, j \in found : i < j => A!Place(j, found) < A!Place(i, found)
           /\ \A k \in 1..Cardinality(found) : \E i \in found : A!Place(i, found) = k
<1> DEFINE U(x) == {j \in found : j >= x}
           m == Cardinality(found)
           rank == [x \in found |-> Cardinality(U(x))]
<1>1. IsFiniteSet(1..n) /\ \A i \in found : i \in Nat
      BY FS_Interval
<1>2. IsFiniteSet(found) /\ m \in Nat
      BY <1>1, FS_Subset, FS_CardinalityType
<1>3. \A x \in found : rank[x] = A!Place(x, found)
      BY AudCount DEF A!Place
<1>4. ASSUME NEW x \in found
      PROVE  IsFiniteSet(U(x)) /\ Cardinality(U(x)) \in 1..m /\ x \in U(x)
  <2>1. U(x) \in SUBSET found /\ x \in U(x)
        BY <1>1
  <2>2. IsFiniteSet(U(x)) /\ Cardinality(U(x)) <= m
        BY <1>2, <2>1, FS_Subset
  <2>3. Cardinality(U(x)) \in Nat /\ Cardinality(U(x)) # 0
        BY <2>1, <2>2, FS_CardinalityType, FS_EmptySet
  <2> HIDE DEF U, m
  <2> QED BY <1>2, <2>1, <2>2, <2>3
<1>5. ASSUME NEW x \in found, NEW y \in found, x < y
      PROVE  rank[y] < rank[x]
  <2>0. ~(x >= y) /\ x >= x /\ \A j \in found : j >= y => j >= x
        BY <1>1, <1>5
  <2>1. U(y) \in SUBSET U(x) /\ x \notin U(y) /\ x \in U(x)
    <3>1. U(y) \in SUBSET U(x)
          BY <2>0
    <3> QED BY <2>0, <3>1
  <2>2. IsFiniteSet(U(x)) /\ Cardinality(U(x)) \in Nat /\ Cardinality(U(y)) \in Nat
        BY <1>4
  <2>3. rank[x] = Cardinality(U(x)) /\ rank[y] = Cardinality(U(y))
        OBVIOUS
  <2> HIDE DEF U, rank
  <2>4. /\ Cardinality(U(y)) <= Cardinality(U(x))
        /\ Cardinality(U(x)) = Cardinality(U(y)) => U(y) = U(x)
        BY <2>1, <2>2, FS_Subset
  <2>5. Cardinality(U(x)) # Cardinality(U(y))
        BY <2>1, <2>4
  <2> QED BY <2>2, <2>3, <2>4, <2>5
<1>6. rank \in [found -> 1..m]
  <2>1. \A x \in found : Cardinality(U(x)) \in 1..m
        BY <1>4
  <2> HIDE DEF U, m
  <2> QED BY <2>1
<1> HIDE DEF rank, U, m
<1>7. \A x, y \in found : rank[x] = rank[y] => x = y
  <2> SUFFICES ASSUME NEW x \in found, NEW y \in found, rank[x] = rank[y], x # y PROVE FALSE
      OBVIOUS
  <2>1. x < y \/ y < x
        BY <1>1
  <2>2. rank[x] \in 1..m
        BY <1>6
  <2> QED BY <1>2, <1>5, <2>1, <2>2
<1>8. rank \in Surjection(found, 1..m)
  <2>1. rank \in Injection(found, 1..m)
        BY <1>6, <1>7 DEF Injection, IsInjective
  <2>2. IsFiniteSet(1..m) /\ Cardinality(1..m) = m
        BY <1>2, FS_Interval
  <2> QED BY <1>2, <2>1, <2>2, FS_Injection DEF m
<1>9. \A k \in 1..m : \E x \in found : rank[x] = k
      BY <1>8 DEF Surjection
<1> QED BY <1>2, <1>3, <1>5, <1>6, <1>9 DEF m

(* The answer holds the newest of what was found, as many as were asked    *)
(* for, in the order from the newest to the oldest.                        *)
LEMMA AudAnswerIs ==
    ASSUME NEW r \in A!Requests, r.op = "query", NEW b \in Seq(A!Entry),
           BufferSize \in Nat
    PROVE  LET a == A!Answer(r, b)
               found == A!Found(r, b)
           IN  /\ a \in Seq(A!Entry) /\ Len(a) <= r.limit
               /\ \E ix \in [1..Len(a) -> found] :
                    /\ \A m \in 1..Len(a) : a[m] = b[ix[m]]
                    /\ \A m, o \in 1..Len(a) : m < o => ix[o] < ix[m]
                    /\ \A i \in found : \/ \E m \in 1..Len(a) : ix[m] = i
                                        \/ /\ Len(a) = r.limit
                                           /\ \A m \in 1..Len(a) : i < ix[m]
<1> DEFINE found == A!Found(r, b)
           total == Cardinality(found)
           k == A!Returned(r, found)
           a == A!Answer(r, b)
           ix == [m \in 1..k |-> CHOOSE i \in found : A!Place(i, found) = m]
<1>1. found \subseteq 1..Len(b) /\ Len(b) \in Nat
      BY DEF A!Found
<1>2. /\ total \in Nat
      /\ \A i \in found : A!Place(i, found) \in 1..total
      /\ \A i, j \in found : i < j => A!Place(j, found) < A!Place(i, found)
      /\ \A m \in 1..total : \E i \in found : A!Place(i, found) = m
      BY <1>1, AudPlaces
<1>3. r.limit \in Nat
      BY AudRequest
<1>4. k = IF total < r.limit THEN total ELSE r.limit
      BY AudCount DEF A!Returned
<1>5. a = [m \in 1..k |-> b[CHOOSE i \in found : A!Place(i, found) = m]]
      BY DEF A!Answer
<1> HIDE DEF found, total, k, a
<1>6. k \in Nat /\ k <= total /\ k <= r.limit /\ (k = total \/ k = r.limit)
      BY <1>2, <1>3, <1>4
<1>7. \A m \in 1..k : m \in 1..total
      BY <1>2, <1>6
<1>8. ASSUME NEW m \in 1..k
      PROVE  ix[m] \in found /\ A!Place(ix[m], found) = m /\ a[m] = b[ix[m]]
  <2>1. \E i \in found : A!Place(i, found) = m
        BY <1>2, <1>7
  <2>2. ix[m] = (CHOOSE i \in found : A!Place(i, found) = m) /\ a[m] = b[ix[m]]
        BY <1>5
  <2> QED BY <2>1, <2>2
<1>9. ix \in [1..k -> found]
      BY <1>8
<1> HIDE DEF ix
<1>10. ASSUME NEW m \in 1..k PROVE a[m] \in A!Entry
  <2>1. ix[m] \in 1..Len(b)
        BY <1>1, <1>8
  <2> QED BY <1>8, <2>1
<1>11. a \in Seq(A!Entry) /\ Len(a) = k
  <2>1. a = [m \in 1..k |-> a[m]]
        BY <1>5
  <2> QED BY <1>6, <1>10, <2>1
<1>12. \A i \in found : i \in Nat
      BY <1>1
<1>13. ASSUME NEW i \in found, NEW j \in found, A!Place(i, found) < A!Place(j, found)
       PROVE  j < i
  <2>1. A!Place(i, found) \in Nat /\ A!Place(j, found) \in Nat
        BY <1>2
  <2>2. CASE i < j
        BY <1>2, <1>13, <2>1, <2>2
  <2>3. CASE i = j
        BY <1>13, <2>1, <2>3
  <2> QED BY <1>12, <2>2, <2>3
<1>14. ASSUME NEW m \in 1..k, NEW o \in 1..k, m < o PROVE ix[o] < ix[m]
      BY <1>8, <1>13, <1>14
<1>15. ASSUME NEW i \in found
       PROVE  \/ \E m \in 1..k : ix[m] = i
              \/ k = r.limit /\ \A m \in 1..k : i < ix[m]
  <2>1. A!Place(i, found) \in 1..total
        BY <1>2
  <2>2. CASE A!Place(i, found) <= k
    <3>1. A!Place(i, found) \in 1..k
          BY <1>6, <2>1, <2>2
    <3> DEFINE m == A!Place(i, found)
    <3>2. ix[m] \in found /\ A!Place(ix[m], found) = m /\ m \in Nat
          BY <1>8, <3>1
    <3> HIDE DEF m
    <3>3. ~(ix[m] < i) /\ ~(i < ix[m])
          BY <1>2, <3>2 DEF m
    <3>4. ix[m] = i
          BY <1>12, <3>2, <3>3
    <3> QED BY <3>1, <3>4 DEF m
  <2>3. CASE ~(A!Place(i, found) <= k)
    <3>1. k = r.limit
          BY <1>2, <1>6, <2>1, <2>3
    <3>2. ASSUME NEW m \in 1..k PROVE i < ix[m]
      <4>1. m < A!Place(i, found)
            BY <1>2, <1>6, <2>1, <2>3
      <4> QED BY <1>8, <1>13, <4>1
    <3> QED BY <3>1, <3>2
  <2> QED BY <2>2, <2>3
<1>16. a \in Seq(A!Entry) /\ Len(a) <= r.limit
      BY <1>6, <1>11
<1>17. /\ ix \in [1..Len(a) -> found]
       /\ \A m \in 1..Len(a) : a[m] = b[ix[m]]
       /\ \A m, o \in 1..Len(a) : m < o => ix[o] < ix[m]
       /\ \A i \in found : \/ \E m \in 1..Len(a) : ix[m] = i
                           \/ /\ Len(a) = r.limit
                              /\ \A m \in 1..Len(a) : i < ix[m]
      BY <1>8, <1>9, <1>11, <1>14, <1>15
<1> QED BY <1>16, <1>17 DEF found, a

(* query() answers from one look at the buffer. *)
LEMMA AudQuery ==
    ASSUME PartsAssumption, AudInv, NEW t \in Threads, A!Query(t)
    PROVE  AudInv'
<1> DEFINE r == call[t].request
           l0 == call[t].logger
           b == buffers[l0]
           a == A!Answer(r, b)
           found == A!Found(r, b)
           c == [call[t] EXCEPT !.answer = a]
<1>1. /\ pc[t] = "query" /\ call' = [call EXCEPT ![t].answer = a]
      /\ pc' = [pc EXCEPT ![t] = "answered"]
      /\ UNCHANGED <<current, buffers, made, returned, replaced>>
      BY DEF A!Query, A!Go
<1>2. /\ call[t] \in A!Calls /\ call[t] # None
      /\ AudCall(t) /\ call[t].entry = None
  <2>1. call[t] \in A!Calls /\ call[t] # None /\ AudCall(t)
        BY <1>1, AudFacts DEF AudInv, AudTypes
  <2> QED BY <1>1, <2>1 DEF AudCall
<1>3. r \in A!Requests /\ r.op = "query" /\ l0 \in 1..Len(buffers)
      BY <1>1, <1>2 DEF AudCall, A!Calls
<1>4. b \in Seq(A!Entry) /\ BufferSize \in Nat
      BY <1>3, AudFacts DEF AudInv, AudTypes
<1>5. /\ a \in Seq(A!Entry) /\ Len(a) <= r.limit
      /\ \E ix \in [1..Len(a) -> found] :
           /\ \A m \in 1..Len(a) : a[m] = b[ix[m]]
           /\ \A m, o \in 1..Len(a) : m < o => ix[o] < ix[m]
           /\ \A i \in found : \/ \E m \in 1..Len(a) : ix[m] = i
                               \/ Len(a) = r.limit /\ \A m \in 1..Len(a) : i < ix[m]
      BY <1>3, <1>4, AudAnswerIs
<1>6. /\ \A i \in found : i \in 1..Len(b)
      /\ \A i \in 1..Len(b) : A!Matches(r, b[i]) => i \in found
      BY DEF A!Found
<1>7. \A i, j \in 1..Len(b) : i < j => ~A!Older(b[j], b[i])
      BY <1>3 DEF AudInv, AudBuffers
<1>8. call' = [call EXCEPT ![t] = c]
      BY <1>1, <1>2 DEF AudInv, AudTypes
<1> HIDE DEF a, found, b
<1>9. PICK ix \in [1..Len(a) -> found] :
           /\ \A m \in 1..Len(a) : a[m] = b[ix[m]]
           /\ \A m, o \in 1..Len(a) : m < o => ix[o] < ix[m]
           /\ \A i \in found : \/ \E m \in 1..Len(a) : ix[m] = i
                               \/ Len(a) = r.limit /\ \A m \in 1..Len(a) : i < ix[m]
      BY <1>5
<1>10. Newest(a)
  <2> SUFFICES ASSUME NEW m \in 1..Len(a), NEW o \in 1..Len(a), m < o
               PROVE  ~A!Older(a[m], a[o])
      BY DEF Newest
  <2>1. ix[o] < ix[m] /\ a[m] = b[ix[m]] /\ a[o] = b[ix[o]]
        BY <1>9
  <2>2. ix[m] \in 1..Len(b) /\ ix[o] \in 1..Len(b)
        BY <1>6, <1>9
  <2> QED BY <1>7, <2>1, <2>2
<1>11. ASSUME NEW i \in 1..Len(b), A!Matches(r, b[i])
       PROVE  Answered(r, b[i], a)
  <2>1. i \in found
        BY <1>6, <1>11
  <2>2. CASE \E m \in 1..Len(a) : ix[m] = i
        BY <1>9, <2>2 DEF Answered
  <2>3. CASE Len(a) = r.limit /\ \A m \in 1..Len(a) : i < ix[m]
    <3>1. ASSUME NEW m \in 1..Len(a) PROVE ~A!Older(a[m], b[i])
      <4>1. ix[m] \in 1..Len(b) /\ i < ix[m] /\ a[m] = b[ix[m]]
            BY <1>6, <1>9, <2>3
      <4> QED BY <1>7, <4>1
    <3> QED BY <2>3, <3>1 DEF Answered
  <2> QED BY <1>9, <2>1, <2>2, <2>3
<1>12. /\ c \in A!Calls /\ c.entry = None /\ c.logger = l0 /\ c.request = r
       /\ c.before = call[t].before /\ c.answer = a
       BY <1>2, <1>5 DEF A!Calls
<1>13. c # None
       BY <1>12, AudFacts
<1>14. /\ pc'[t] = "answered" /\ call'[t] = c
       /\ \A u \in Threads \ {t} : pc'[u] = pc[u] /\ call'[u] = call[u]
       BY <1>1, <1>8 DEF AudInv, AudTypes
<1> HIDE DEF c
<1>15. \A x \in call[t].before : A!Matches(r, x.entry) =>
             \/ Answered(r, x.entry, a)
             \/ Evicted(x.entry, l0)
             \/ x.logger \in replaced
  <2> SUFFICES ASSUME NEW x \in call[t].before, A!Matches(r, x.entry)
               PROVE  \/ Answered(r, x.entry, a)
                      \/ Evicted(x.entry, l0)
                      \/ x.logger \in replaced
      OBVIOUS
  <2>1. x \in returned /\ (x.logger = l0 \/ x.logger \in replaced)
        BY <1>1, <1>2 DEF AudCall
  <2>2. Held(x.entry, x.logger) \/ Evicted(x.entry, x.logger)
        BY <2>1 DEF AudInv, AudKept
  <2>3. CASE Held(x.entry, l0)
        BY <1>11, <2>3 DEF Held, b
  <2> QED BY <2>1, <2>2, <2>3
<1>16. AudAnswer(t)'
  <2>1. Newest(call'[t].answer)
        BY <1>10, <1>12, <1>14
  <2>2. \A x \in call'[t].before : A!Matches(call'[t].request, x.entry) =>
             \/ Answered(call'[t].request, x.entry, call'[t].answer)
             \/ Evicted(x.entry, call'[t].logger)
             \/ x.logger \in replaced
        BY <1>12, <1>14, <1>15
  <2> QED BY <1>1, <2>1, <2>2 DEF AudAnswer, Newest, Evicted, Answered
<1>17. AudCall(t)' /\ AudFlight(t)' /\ ~Flying(t)'
  <2>1. ~Flying(t)' /\ AudFlight(t)'
        BY <1>12, <1>14 DEF Flying, AudFlight
  <2>2. AudCall(t)'
        BY <1>1, <1>2, <1>3, <1>12, <1>14 DEF AudCall
  <2> QED BY <2>1, <2>2
<1>18. A!Recording' \subseteq A!Recording /\ A!Creating' \subseteq A!Creating
       BY <1>1, <1>3, <1>12, <1>14 DEF A!Recording, A!Creating
<1>19. AudRoom'
       BY <1>1, <1>18, AudRoomKept
<1>20. made' \in made..MaxEntries
       BY <1>1, AudFacts DEF AudInv, AudTypes
<1> QED BY <1>1, <1>8, <1>12, <1>13, <1>16, <1>17, <1>19, <1>20, AudLocal

LEMMA AudStep == PartsAssumption /\ AudInv /\ A!Next => AudInv'
<1> SUFFICES ASSUME PartsAssumption, AudInv, A!Next PROVE AudInv'
    OBVIOUS
<1>1. CASE A!InitAudit
      BY <1>1, AudInitAudit
<1>2. ASSUME NEW t \in Threads, A!Step(t) PROVE AudInv'
  <2>1. CASE \E r \in A!Requests : A!GetAuditLogger(t, r)
        BY <2>1, AudGet
  <2>2. CASE A!Create(t)
        BY <2>2, AudCreate
  <2>3. CASE A!Use(t)
        BY <2>3, AudUse
  <2>4. CASE A!MakeEntry(t)
        BY <2>4, AudMakes
  <2>5. CASE A!AppendEntry(t)
        BY <2>5, AudAppend
  <2>6. CASE A!LogRaises(t)
        BY <2>6, AudEnds DEF A!LogRaises
  <2>7. CASE A!Query(t)
        BY <2>7, AudQuery
  <2>8. CASE A!QueryReturns(t)
        BY <2>8, AudEnds DEF A!QueryReturns
  <2> QED BY <1>2, <2>1, <2>2, <2>3, <2>4, <2>5, <2>6, <2>7, <2>8 DEF A!Step
<1> QED BY <1>1, <1>2 DEF A!Next

LEMMA AudFrame == AudInv /\ UNCHANGED <<threadVars, auditVars>> => AudInv'
<1> SUFFICES ASSUME AudInv, UNCHANGED <<threadVars, auditVars>> PROVE AudInv'
    OBVIOUS
<1>1. UNCHANGED <<pc, call, current, buffers, made, returned, replaced>>
      BY DEF threadVars, auditVars
<1>2. AudTypes' /\ AudRecorded' /\ AudApart'
      BY <1>1 DEF AudInv, AudTypes, AudRecorded, AudApart, Times, Flying
<1>3. AudBuffers' /\ AudKept' /\ AudLoggers'
      BY <1>1 DEF AudInv, AudBuffers, AudKept, AudLoggers, Held, Evicted, A!Older
<1>4. AudRoom'
      BY <1>1 DEF AudInv, AudRoom, A!Creating, A!Recording
<1>5. \A t \in Threads : AudFlight(t)' /\ AudCall(t)' /\ AudAnswer(t)'
      BY <1>1 DEF AudInv, AudFlight, AudCall, AudAnswer, Flying, Times, Newest, Answered,
                  Evicted
<1> QED BY <1>2, <1>3, <1>4, <1>5 DEF AudInv

LEMMA AudAlways == Spec => [](used = "audit" => AudInv)
<1> DEFINE Inv == used = "audit" => AudInv
<1>1. Init => Inv
      BY AudInit, PartsAssumption DEF Init
<1>2. Inv /\ [Next]_vars => Inv'
  <2>1. CASE UNCHANGED vars
        BY <2>1, AudFrame DEF vars, threadVars, auditVars
  <2>2. CASE Next
        BY <2>2, AudStep, PartsAssumption DEF Next
  <2> QED BY <2>1, <2>2
<1> QED BY <1>1, <1>2, PTL DEF Spec

LEMMA AudSafe == PartsAssumption /\ AudInv => A!AnswerIsRight /\ A!TypeOK
<1> SUFFICES ASSUME PartsAssumption, AudInv PROVE A!AnswerIsRight /\ A!TypeOK
    OBVIOUS
<1>1. A!TypeOK
  <2>1. DOMAIN buffers = 1..Len(buffers)
        BY DEF AudInv, AudTypes
  <2>2. ASSUME NEW l \in 1..Len(buffers)
        PROVE  Len(buffers[l]) <= BufferSize
               /\ \A i \in 1..Len(buffers[l]) : buffers[l][i] \in A!Entry
        BY DEF AudInv, AudTypes
  <2>3. \A b \in A!Range(buffers) :
          Len(b) <= BufferSize /\ \A i \in 1..Len(b) : b[i] \in A!Entry
        BY <2>1, <2>2 DEF A!Range
  <2> QED BY <2>3 DEF AudInv, AudTypes, A!TypeOK
<1>2. ASSUME NEW t \in Threads, pc[t] = "answered"
      PROVE  LET a == call[t].answer
                 buffer == buffers[call[t].logger]
             IN  /\ \A i, j \in 1..Len(a) : i < j => ~A!Older(a[i], a[j])
                 /\ \A x \in call[t].before : A!Matches(call[t].request, x.entry) =>
                      \/ x.entry \in A!Range(a)
                      \/ /\ Len(a) = call[t].request.limit
                         /\ \A e \in A!Range(a) : ~A!Older(e, x.entry)
                      \/ /\ Len(buffer) = BufferSize
                         /\ \A e \in A!Range(buffer) : ~A!Older(e, x.entry)
                      \/ x.logger \in replaced
  <2> DEFINE a == call[t].answer
             buffer == buffers[call[t].logger]
  <2>1. call[t] \in A!Calls /\ call[t].logger \in 1..Len(buffers)
        BY <1>2, AudFacts DEF AudInv, AudTypes, AudCall
  <2>2. a \in Seq(A!Entry) /\ buffer \in Seq(A!Entry)
        BY <2>1 DEF AudInv, AudTypes, A!Calls
  <2>3. DOMAIN a = 1..Len(a) /\ DOMAIN buffer = 1..Len(buffer)
        BY <2>2
  <2>4. /\ Newest(a)
        /\ \A x \in call[t].before : A!Matches(call[t].request, x.entry) =>
             \/ Answered(call[t].request, x.entry, a)
             \/ Evicted(x.entry, call[t].logger)
             \/ x.logger \in replaced
        BY <1>2 DEF AudInv, AudAnswer
  <2> HIDE DEF a
  <2>5. ASSUME NEW x \in call[t].before, A!Matches(call[t].request, x.entry)
        PROVE  \/ x.entry \in A!Range(a)
               \/ /\ Len(a) = call[t].request.limit
                  /\ \A e \in A!Range(a) : ~A!Older(e, x.entry)
               \/ /\ Len(buffer) = BufferSize
                  /\ \A e \in A!Range(buffer) : ~A!Older(e, x.entry)
               \/ x.logger \in replaced
    <3>1. CASE Answered(call[t].request, x.entry, a)
          BY <2>3, <3>1 DEF Answered, A!Range
    <3>2. CASE Evicted(x.entry, call[t].logger)
          BY <2>3, <3>2 DEF Evicted, A!Range
    <3> QED BY <2>4, <2>5, <3>1, <3>2
  <2> QED BY <2>4, <2>5 DEF Newest, a
<1>3. A!AnswerIsRight
      BY <1>2 DEF A!AnswerIsRight
<1> QED BY <1>1, <1>3

(* A query has what log() had returned of, the newest first, for any       *)
(* number of callers, loggers and entries, and buffers of any size, unless *)
(* a full buffer or the limit pushed it out or its logger was replaced     *)
(* (audit.py:315-338, 361-363).                                            *)
THEOREM AuditAnswersAreRight == Spec => []AnswerIsRight
<1>1. PartsAssumption /\ (used = "audit" => AudInv) => AnswerIsRight
      BY AudSafe DEF AnswerIsRight
<1> QED BY <1>1, AudAlways, PartsAssumption, PTL

-----------------------------------------------------------------------------
(***************************************************************************)
(* The types of all the parts                                              *)
(***************************************************************************)

(* A thread that writes a file has a generation (TlsAlone); so the files   *)
(* are of generations.                                                     *)
LEMMA TlsTypeInit == PartsAssumption /\ T!Init => T!TypeOK
BY DEF PartsAssumption, T!TlsAssumption, T!Init, T!TypeOK, T!Writing, T!Generations

LEMMA TlsTypeStep == PartsAssumption /\ TlsInv /\ T!TypeOK /\ T!Next => T!TypeOK'
<1> SUFFICES ASSUME PartsAssumption, TlsInv, T!TypeOK, T!Next PROVE T!TypeOK'
    OBVIOUS
<1>1. /\ MaxGenerations \in Nat /\ None \notin Nat
      /\ TlsTypes /\ TlsAlone
      BY DEF PartsAssumption, T!TlsAssumption, TlsInv
<1>2. \A t \in Threads : pc[t] \in T!Writing => call[t] \in T!Generations
      BY <1>1 DEF TlsAlone, TlsWriters, TlsWriting, T!Writing, T!Generations
<1>a. generation \in 0..MaxGenerations /\ generation \in Nat
  <2>1. generation \in 0..MaxGenerations
        BY <1>1 DEF TlsTypes
  <2> HIDE DEF TlsTypes
  <2> QED BY <2>1, <1>1
<1> USE DEF T!TypeOK, T!Go, T!Writing
<1>3. ASSUME NEW t \in Threads, T!Call(t) PROVE T!TypeOK'
  <2>1. 0 # None /\ 0 \in {None} \cup 0..MaxGenerations
    <3> HIDE DEF T!TypeOK
    <3> QED BY <1>1
  <2>4. call' = [call EXCEPT ![t] = 0] /\ UNCHANGED <<key, cert, generation, crossing, sound>>
        BY <1>3 DEF T!Call
  <2>2. CASE pc' = [pc EXCEPT ![t] = "ensure"]
        BY <2>1, <2>2, <2>4
  <2>3. CASE pc' = [pc EXCEPT ![t] = "open key"]
        BY <2>1, <2>3, <2>4
  <2> QED BY <1>3, <2>2, <2>3 DEF T!Call
<1>4. ASSUME NEW t \in Threads, T!Reuse(t) PROVE T!TypeOK'
      BY <1>4 DEF T!Reuse
<1>5. ASSUME NEW t \in Threads, T!Generate(t) PROVE T!TypeOK'
      BY <1>5 DEF T!Generate
<1>6. ASSUME NEW t \in Threads, T!OpenKey(t) PROVE T!TypeOK'
  <2>1. generation' \in 1..MaxGenerations /\ generation' # None
    <3> HIDE DEF T!TypeOK
    <3>1. generation < MaxGenerations /\ generation' = generation + 1
          BY <1>6 DEF T!OpenKey
    <3>2. generation' \in 1..MaxGenerations /\ generation' \in Nat
          BY <1>1, <1>a, <3>1
    <3> QED BY <1>1, <3>2
  <2>2. crossing' \subseteq Threads
        BY <1>6 DEF T!OpenKey, T!Writers
  <2>3. /\ pc[t] = "open key" /\ pc' = [pc EXCEPT ![t] = "write key"]
        /\ call' = [call EXCEPT ![t] = generation'] /\ key' = Torn
        /\ UNCHANGED <<cert, sound>>
        BY <1>6 DEF T!OpenKey
  <2>4. generation' \in {None} \cup 0..MaxGenerations
    <3> HIDE DEF T!TypeOK
    <3> QED BY <1>1, <2>1
  <2>5. call' \in [Threads -> {None} \cup 0..MaxGenerations]
        BY <2>3, <2>4
  <2>6. \A u \in Threads : pc'[u] = "idle" <=> call'[u] = None
        BY <2>1, <2>3
  <2> QED BY <1>1, <2>1, <2>2, <2>3, <2>4, <2>5, <2>6
<1>7. ASSUME NEW t \in Threads, T!WriteKey(t) PROVE T!TypeOK'
  <2>1. key' \in T!Generations
        BY <1>2, <1>7 DEF T!WriteKey
  <2> QED BY <1>7, <2>1 DEF T!WriteKey
<1>8. ASSUME NEW t \in Threads, T!OpenCert(t) PROVE T!TypeOK'
      BY <1>8 DEF T!OpenCert
<1>9. ASSUME NEW t \in Threads, T!WriteCert(t) PROVE T!TypeOK'
  <2>1. cert' \in T!Generations
        BY <1>2, <1>9 DEF T!WriteCert
  <2>2. sound' \in BOOLEAN
        BY <1>9 DEF T!WriteCert
  <2> QED BY <1>9, <2>1, <2>2 DEF T!WriteCert
<1>10. ASSUME NEW t \in Threads, T!Return(t) PROVE T!TypeOK'
      BY <1>10 DEF T!Return
<1>11. T!CutShort \in BOOLEAN
      BY DEF T!CutShort
<1>12. ASSUME NEW t \in Threads, T!Fails(t) PROVE T!TypeOK'
      BY <1>11, <1>12 DEF T!Fails
<1>13. ASSUME T!Crash PROVE T!TypeOK'
      BY <1>11, <1>13 DEF T!Crash
<1>14. ASSUME T!Remove PROVE T!TypeOK'
      BY <1>14 DEF T!Remove
<1> QED
    BY <1>3, <1>4, <1>5, <1>6, <1>7, <1>8, <1>9, <1>10, <1>12, <1>13, <1>14 DEF T!Next

LEMMA TlsTypesAlways == Spec => [](used = "tls" => TlsInv /\ T!TypeOK)
<1> DEFINE Inv == used = "tls" => TlsInv /\ T!TypeOK
<1>1. Init => Inv
      BY TlsInit, TlsTypeInit, PartsAssumption DEF Init
<1>2. Inv /\ [Next]_vars => Inv'
  <2>1. CASE UNCHANGED vars
    <3>1. T!TypeOK => T!TypeOK'
          BY <2>1 DEF vars, threadVars, tlsVars, T!TypeOK
    <3> QED BY <2>1, <3>1, TlsFrame DEF vars, threadVars, tlsVars
  <2>2. CASE Next
        BY <2>2, TlsStep, TlsTypeStep, PartsAssumption DEF Next
  <2> QED BY <2>1, <2>2
<1> QED BY <1>1, <1>2, PTL DEF Spec

(* What detectors may answer of a medium. *)
IsoAnswers(m) ==
    {None, Raised}
      \cup [vendor : {"red", m.system, "debian", "openbsd"},
            version : {"told", "other", "unknown"}]

(* A medium has the sources of all media, and a base.txz if FreeBSD's.    *)
IsoMedium(m) == DOMAIN m = DOMAIN I!Plain /\ (m.base => m.system = "freebsd")

(* What the sources of a medium may be, by the system it is of.            *)
IsoSources(m) ==
    /\ IsoMedium(m)
    /\ m.system \in {"none", "fedora", "rhel", "ubuntu", "debian", "openbsd", "freebsd"}
    /\ m.system \notin {"fedora", "rhel"} =>
         m.dotTreeinfo = Absent /\ m.treeinfo = Absent /\ m.discinfo = Absent
    /\ m.system # "ubuntu" => m.diskdefines \in {Absent, {}}
    /\ m.system \notin {"ubuntu", "debian"} =>
         m.releases[1] = Absent /\ m.releases[2] = Absent
    /\ m.installAmd => m.system = "debian"
    /\ m.manifest => m.system \in {"openbsd", "freebsd"}
    /\ m.bsdrd => m.system = "openbsd"
    /\ m.system = "none" => m.label = Absent

LEMMA IsoSystems == \A m \in I!Media : IsoSources(m)
<1>1. \A s \in {"fedora", "rhel"} : \A dot, info, disc, l :
        IsoSources(I!RedHat(s, dot, info, disc, l))
      BY DEF I!RedHat, I!Plain, IsoMedium, IsoSources
<1>2. \A d, r, q, l : IsoSources(I!Ubuntu(d, r, q, l))
      BY DEF I!Ubuntu, I!Plain, IsoMedium, IsoSources
<1>3. \A d \in {Absent, {}} : \A r, q, amd, info, l :
        IsoSources(I!Debian(d, r, q, amd, info, l))
      BY DEF I!Debian, I!Plain, IsoMedium, IsoSources
<1>4. \A m, b, s, l : IsoSources(I!OpenBSD(m, b, s, l))
      BY DEF I!OpenBSD, I!Plain, IsoMedium, IsoSources
<1>5. \A m, b, r, q, l : IsoSources(I!FreeBSD(m, b, r, q, l))
      BY DEF I!FreeBSD, I!Plain, IsoMedium, IsoSources
<1>6. \A m \in I!RedHatMedia : IsoSources(m)
      BY <1>1 DEF I!RedHatMedia
<1>7. \A m \in I!UbuntuMedia : IsoSources(m)
      BY <1>2 DEF I!UbuntuMedia
<1>8. \A m \in I!DebianMedia : IsoSources(m)
      BY <1>3 DEF I!DebianMedia
<1>9. \A m \in I!OpenBSDMedia : IsoSources(m)
      BY <1>4 DEF I!OpenBSDMedia
<1>10. \A m \in I!FreeBSDMedia : IsoSources(m)
      BY <1>5 DEF I!FreeBSDMedia
<1>11. IsoSources(I!Plain)
      BY DEF I!Plain, IsoMedium, IsoSources
<1> QED BY <1>6, <1>7, <1>8, <1>9, <1>10, <1>11 DEF I!Media

LEMMA IsoPlain == IsoSources(I!Plain)
BY IsoSystems DEF I!Media

(* What the tables of the code make of the names the systems give          *)
(* themselves: each its own, but for the first word of Red Hat's.          *)
LEMMA IsoNames ==
    /\ \A s \in {"fedora", "rhel"} :
         /\ I!FamilyVendor(I!Brand(s)) = s
         /\ I!DiscinfoVendor(I!Brand(s)) = s
    /\ I!FamilyVendor(I!FirstWord(I!Brand("fedora"))) = "fedora"
    /\ I!FamilyVendor(I!FirstWord(I!Brand("rhel"))) = "red"
    /\ I!Lower(I!Brand("ubuntu")) = "ubuntu"
    /\ \A s \in {"fedora", "rhel", "ubuntu", "debian", "openbsd", "freebsd"} :
         I!LabelVendor(I!LabelName(s)) = s
<1>1. \A s \in {"fedora", "rhel"} :
        I!FamilyVendor(I!Brand(s)) = s /\ I!DiscinfoVendor(I!Brand(s)) = s
      BY DEF I!FamilyVendor, I!DiscinfoVendor, I!Brand
<1>2. I!FamilyVendor(I!FirstWord(I!Brand("fedora"))) = "fedora"
      BY DEF I!FamilyVendor, I!FirstWord, I!Brand
<1>3. I!FamilyVendor(I!FirstWord(I!Brand("rhel"))) = "red"
      BY DEF I!FamilyVendor, I!FirstWord, I!Brand, I!Lower
<1>4. I!Lower(I!Brand("ubuntu")) = "ubuntu"
      BY DEF I!Lower, I!Brand
<1>5. \A s \in {"fedora", "rhel", "ubuntu", "debian", "openbsd", "freebsd"} :
        I!LabelVendor(I!LabelName(s)) = s
      BY DEF I!LabelVendor, I!LabelName, I!Brand
<1> QED BY <1>1, <1>2, <1>3, <1>4, <1>5

LEMMA IsoNamed ==
    ASSUME NEW s \in {"fedora", "rhel", "red", "ubuntu", "debian", "openbsd", "freebsd"},
           NEW v \in {"told", "other", "unknown"}
    PROVE  I!Alias(s, v) # None /\ I!Alias(s, v) # Raised
<1>1. I!Alias(s, v) \in I!Aliases
      BY DEF I!Alias, I!Aliases
<1> QED BY <1>1, PartsAssumption DEF I!IsoAssumption

(* What the detectors that go by a name answer. *)
LEMMA IsoTreeinfo ==
    ASSUME IsoSources(medium)
    PROVE  LET said == I!TreeinfoOf(medium)
               answers == I!DetectTreeinfo(medium)
           IN  /\ answers = Raised <=> I!Tells(said, {"percent"})
               /\ I!Tells(said, {"family", "version"}) /\ answers # Raised =>
                    answers = I!Alias(medium.system, "told")
               /\ \/ answers \in {None, Raised}
                  \/ /\ medium.system \in {"fedora", "rhel"}
                     /\ answers = I!Alias(medium.system, "told")
                  \/ /\ medium.system = "rhel" /\ I!Misread(medium)
                     /\ answers = I!Alias("red", "told")
<1> DEFINE said == I!TreeinfoOf(medium)
           answers == I!DetectTreeinfo(medium)
<1>1. /\ \A s \in {"fedora", "rhel", "red"} : I!Alias(s, "told") # Raised
      /\ None # Raised
      BY IsoNamed, PartsAssumption DEF I!IsoAssumption
<1>2. said # Absent => medium.system \in {"fedora", "rhel"}
      BY DEF IsoSources, I!TreeinfoOf
<1>3. CASE I!Tells(said, {"percent"})
  <2>1. answers = Raised
        BY <1>3 DEF I!DetectTreeinfo
  <2> QED BY <2>1, <1>3
<1>4. CASE ~I!Tells(said, {"percent"}) /\ I!Tells(said, {"family", "version"})
  <2>1. said # Absent /\ I!Tells(said, {"family"})
        BY <1>4 DEF I!Tells
  <2>2. answers = I!Alias(medium.system, "told")
        BY <1>2, <1>4, <2>1, IsoNames DEF I!DetectTreeinfo
  <2> QED BY <1>1, <1>2, <1>4, <2>1, <2>2
<1>5. CASE /\ ~I!Tells(said, {"percent"}) /\ ~I!Tells(said, {"family", "version"})
           /\ I!Tells(said, {"name", "version"})
  <2>1. said # Absent /\ ~I!Tells(said, {"family"}) /\ "family" \notin said
        BY <1>5 DEF I!Tells
  <2>2. answers = I!Alias(I!FamilyVendor(I!FirstWord(I!Brand(medium.system))), "told")
        BY <1>5, <2>1 DEF I!DetectTreeinfo
  <2>3. CASE medium.system = "fedora"
        BY <1>1, <1>5, <2>2, <2>3, IsoNames
  <2>4. CASE medium.system = "rhel"
    <3>1. I!Misread(medium)
          BY <1>5, <2>1, <2>4 DEF I!Misread
    <3> QED BY <1>1, <1>5, <2>2, <2>4, <3>1, IsoNames
  <2> QED BY <1>2, <2>1, <2>3, <2>4
<1>6. CASE /\ ~I!Tells(said, {"percent"}) /\ ~I!Tells(said, {"family", "version"})
           /\ ~I!Tells(said, {"name", "version"})
  <2>1. answers = None
        BY <1>6 DEF I!DetectTreeinfo
  <2> QED BY <1>1, <1>6, <2>1
<1> QED BY <1>3, <1>4, <1>5, <1>6

LEMMA IsoByName ==
    ASSUME IsoSources(medium)
    PROVE  /\ I!Tells(medium.discinfo, {"version"}) =>
                /\ medium.system \in {"fedora", "rhel"}
                /\ I!DetectDiscinfo(medium) = I!Alias(medium.system, "told")
           /\ ~I!Tells(medium.discinfo, {"version"}) => I!DetectDiscinfo(medium) = None
           /\ I!Tells(medium.diskdefines, {"id", "release"}) => I!DetectDiskdefines(medium) # None
           /\ \/ I!DetectDiskdefines(medium) = None
              \/ /\ medium.system = "ubuntu"
                 /\ I!DetectDiskdefines(medium) = I!Alias(medium.system, "told")
           /\ ~I!Tells(medium.label, {"version"}) => I!DetectVolumeLabel(medium) = None
           /\ I!Tells(medium.label, {"version"}) =>
                /\ medium.system \in {"fedora", "rhel", "ubuntu", "debian", "openbsd", "freebsd"}
                /\ \/ I!DetectVolumeLabel(medium) = I!Alias(medium.system, "told")
                   \/ /\ "compose" \in medium.label
                      /\ I!DetectVolumeLabel(medium) = I!Alias(medium.system, "other")
<1>1. ASSUME I!Tells(medium.discinfo, {"version"})
      PROVE  /\ medium.system \in {"fedora", "rhel"}
             /\ I!DetectDiscinfo(medium) = I!Alias(medium.system, "told")
  <2>1. medium.system \in {"fedora", "rhel"}
        BY <1>1 DEF I!Tells, IsoSources
  <2> QED BY <1>1, <2>1, IsoNames DEF I!DetectDiscinfo
<1>2. ~I!Tells(medium.discinfo, {"version"}) => I!DetectDiscinfo(medium) = None
      BY DEF I!DetectDiscinfo
<1>3. \/ I!DetectDiskdefines(medium) = None
      \/ /\ medium.system = "ubuntu"
         /\ I!DetectDiskdefines(medium) = I!Alias(medium.system, "told")
  <2>1. CASE I!Tells(medium.diskdefines, {"id", "release"})
             \/ I!Tells(medium.diskdefines, {"diskname"})
    <3>1. medium.system = "ubuntu"
          BY <2>1 DEF I!Tells, IsoSources
    <3> QED BY <2>1, <3>1, IsoNames DEF I!DetectDiskdefines
  <2> QED BY <2>1 DEF I!DetectDiskdefines
<1>4. ASSUME I!Tells(medium.diskdefines, {"id", "release"})
      PROVE  I!DetectDiskdefines(medium) # None
  <2>1. medium.system = "ubuntu"
        BY <1>4 DEF I!Tells, IsoSources
  <2>2. I!DetectDiskdefines(medium) = I!Alias("ubuntu", "told")
        BY <1>4, <2>1, IsoNames DEF I!DetectDiskdefines
  <2> QED BY <2>2, IsoNamed
<1>5. ~I!Tells(medium.label, {"version"}) => I!DetectVolumeLabel(medium) = None
      BY DEF I!DetectVolumeLabel
<1>6. ASSUME I!Tells(medium.label, {"version"})
      PROVE  /\ medium.system \in {"fedora", "rhel", "ubuntu", "debian", "openbsd", "freebsd"}
             /\ \/ I!DetectVolumeLabel(medium) = I!Alias(medium.system, "told")
                \/ /\ "compose" \in medium.label
                   /\ I!DetectVolumeLabel(medium) = I!Alias(medium.system, "other")
  <2>1. medium.system \in {"fedora", "rhel", "ubuntu", "debian", "openbsd", "freebsd"}
        BY <1>6 DEF I!Tells, IsoSources
  <2>2. I!LabelVendor(I!LabelName(medium.system)) = medium.system
        BY <2>1, IsoNames
  <2> QED BY <1>6, <2>1, <2>2 DEF I!DetectVolumeLabel
<1> QED BY <1>1, <1>2, <1>3, <1>4, <1>5, <1>6

LEMMA IsoAnswered ==
    ASSUME NEW d \in 1..8, IsoSources(medium)
    PROVE  I!Detectors[d] \in IsoAnswers(medium)
<1>0. \A s \in {"red", medium.system, "debian", "openbsd"}, v \in {"told", "other", "unknown"} :
        I!Alias(s, v) \in IsoAnswers(medium)
      BY DEF IsoAnswers, I!Alias
<1>1. I!DetectTreeinfo(medium) \in IsoAnswers(medium)
      BY <1>0, IsoTreeinfo DEF IsoAnswers
<1>2. I!DetectDiscinfo(medium) \in IsoAnswers(medium)
      BY <1>0, IsoByName DEF IsoAnswers
<1>3. I!DetectDiskdefines(medium) \in IsoAnswers(medium)
      BY <1>0, IsoByName DEF IsoAnswers
<1>4. I!DetectDebianDists(medium) \in IsoAnswers(medium)
  <2>1. \/ I!DetectDebianDists(medium) = None
        \/ I!DetectDebianDists(medium) = I!Alias("debian", "told")
        \/ /\ medium.system = "ubuntu"
           /\ I!DetectDebianDists(medium) = I!Alias(medium.system, "told")
        BY Zenon DEF I!DetectDebianDists
  <2> QED BY <1>0, <2>1 DEF IsoAnswers
<1>5. I!DetectDebianNetinst(medium) \in IsoAnswers(medium)
  <2>1. \/ I!DetectDebianNetinst(medium) = None
        \/ \E v \in {"told", "unknown"} : I!DetectDebianNetinst(medium) = I!Alias("debian", v)
        BY Zenon DEF I!DetectDebianNetinst
  <2> QED BY <1>0, <2>1 DEF IsoAnswers
<1>6. I!DetectOpenBSD(medium) \in IsoAnswers(medium)
  <2>1. \/ I!DetectOpenBSD(medium) = None
        \/ \E v \in {"told", "unknown"} : I!DetectOpenBSD(medium) = I!Alias("openbsd", v)
        BY Zenon DEF I!DetectOpenBSD
  <2> QED BY <1>0, <2>1 DEF IsoAnswers
<1>7. I!DetectFreeBSD(medium) \in IsoAnswers(medium)
  <2>1. \/ I!DetectFreeBSD(medium) = None
        \/ /\ medium.base
           /\ \E v \in {"told", "unknown"} : I!DetectFreeBSD(medium) = I!Alias("freebsd", v)
        BY Zenon DEF I!DetectFreeBSD
  <2>2. medium.base => medium.system = "freebsd"
        BY DEF IsoSources, IsoMedium
  <2> QED BY <1>0, <2>1, <2>2 DEF IsoAnswers
<1>8. I!DetectVolumeLabel(medium) \in IsoAnswers(medium)
      BY <1>0, IsoByName DEF IsoAnswers
<1> QED
    BY <1>1, <1>2, <1>3, <1>4, <1>5, <1>6, <1>7, <1>8 DEF I!Detectors

IsoInv == IsoSources(medium) /\ asked \in 0..8 /\ answer \in IsoAnswers(medium)

LEMMA IsoSafe == IsoInv => I!TypeOK
<1>1. Len(I!Detectors) = 8
      BY DEF I!Detectors
<1> QED BY <1>1 DEF IsoInv, IsoSources, IsoMedium, I!TypeOK, IsoAnswers

LEMMA IsoAlways == Spec => [](used = "iso" => IsoInv)
<1> DEFINE Inv == used = "iso" => IsoInv
<1>1. Len(I!Detectors) = 8
      BY DEF I!Detectors
<1>2. IsoSources(I!Plain)
      BY IsoPlain
<1>3. Init => Inv
      BY <1>2 DEF Init, I!Init, IsoInv, IsoAnswers
<1>4. Inv /\ [Next]_vars => Inv'
  <2> SUFFICES ASSUME IsoInv, I!Next \/ UNCHANGED isoVars PROVE IsoInv'
      BY DEF Next, vars
  <2>1. CASE UNCHANGED isoVars
        BY <2>1 DEF isoVars, IsoInv, IsoSources, IsoMedium, IsoAnswers
  <2>2. CASE I!Mount
    <3>1. IsoSources(medium')
          BY <2>2, IsoSystems DEF I!Mount
    <3> QED BY <2>2, <3>1 DEF I!Mount, IsoInv, IsoAnswers
  <2>3. CASE I!Ask
    <3>1. asked \in 1..8 /\ asked' \in 0..8 /\ IsoSources(medium) /\ medium' = medium
          BY <1>1, <2>3 DEF I!Ask, IsoInv
    <3>2. answer' \in IsoAnswers(medium)
          BY <2>3, <3>1, IsoAnswered DEF I!Ask
    <3> QED BY <3>1, <3>2 DEF IsoInv
  <2>4. CASE I!Unmount
        BY <1>2, <2>4 DEF I!Unmount, IsoInv, IsoAnswers
  <2> QED BY <2>1, <2>2, <2>3, <2>4 DEF I!Next
<1> QED BY <1>3, <1>4, PTL DEF Spec

(* What detect_iso() has asked and what it was answered.                   *)
IsoSilent(n) == \A d \in 1..8 : d < n => I!Detectors[d] = None
IsoFound(d) == answer = I!Detectors[d] /\ answer # None /\ IsoSilent(d)

IsoAsked ==
    /\ medium \in I!Media
    /\ asked \in 0..8
    /\ asked > 0 => answer = None /\ IsoSilent(asked)
    /\ asked = 0 /\ medium # I!Plain =>
         (answer = None /\ IsoSilent(9)) \/ \E d \in 1..8 : IsoFound(d)

LEMMA IsoSteps ==
    ASSUME IsoAsked, I!Next \/ UNCHANGED isoVars
    PROVE  IsoAsked'
<1>1. Len(I!Detectors) = 8
      BY DEF I!Detectors
<1>2. I!Plain \in I!Media
      BY DEF I!Media
<1>3. medium' = medium => I!Detectors' = I!Detectors
      BY DEF I!Detectors
<1>4. CASE UNCHANGED isoVars
      BY <1>3, <1>4 DEF isoVars, IsoAsked, IsoSilent, IsoFound
<1>5. CASE I!Mount
      BY <1>5 DEF I!Mount, IsoAsked, IsoSilent
<1>6. CASE I!Ask
  <2>1. /\ asked \in 1..8 /\ answer = None /\ IsoSilent(asked)
        /\ medium' = medium /\ medium \in I!Media /\ I!Detectors' = I!Detectors
        /\ answer' = I!Detectors[asked]
        BY <1>3, <1>6 DEF I!Ask, IsoAsked
  <2>2. CASE answer' # None
    <3>1. asked' = 0
          BY <1>6, <2>2 DEF I!Ask
    <3>2. \E d \in 1..8 : answer' = I!Detectors'[d] /\ answer' # None
                          /\ \A e \in 1..8 : e < d => I!Detectors'[e] = None
          BY <2>1, <2>2 DEF IsoSilent
    <3> QED BY <2>1, <3>1, <3>2 DEF IsoAsked, IsoFound, IsoSilent
  <2>3. CASE answer' = None /\ asked < 8
    <3>1. asked' = asked + 1
          BY <1>1, <1>6, <2>3 DEF I!Ask
    <3>2. ASSUME NEW d \in 1..8, d < asked' PROVE I!Detectors'[d] = None
      <4>1. d < asked \/ d = asked
            BY <2>1, <3>1, <3>2
      <4> QED BY <2>1, <2>3, <4>1 DEF IsoSilent
    <3> QED BY <2>1, <2>3, <3>1, <3>2 DEF IsoAsked, IsoSilent
  <2>4. CASE answer' = None /\ ~(asked < 8)
    <3>1. asked = 8 /\ asked' = 0
          BY <1>1, <1>6, <2>1, <2>4 DEF I!Ask
    <3>2. ASSUME NEW d \in 1..8 PROVE I!Detectors'[d] = None
      <4>1. d < asked \/ d = asked
            BY <3>1
      <4> QED BY <2>1, <2>4, <4>1 DEF IsoSilent
    <3> QED BY <2>1, <2>4, <3>1, <3>2 DEF IsoAsked, IsoSilent
  <2> QED BY <2>2, <2>3, <2>4
<1>7. CASE I!Unmount
      BY <1>2, <1>7 DEF I!Unmount, IsoAsked
<1> QED BY <1>4, <1>5, <1>6, <1>7 DEF I!Next

(* A detector that answers names the medium's own system, if the medium is *)
(* not of those that are misread; only the label has another number; and a *)
(* version is unknown only when no other source has it.                    *)
IsoTrue(m, a) ==
    a \notin {None, Raised} =>
        /\ ~I!Misread(m) => a.vendor = m.system
        /\ a.version = "other" => "compose" \in m.label

LEMMA IsoTelling ==
    ASSUME IsoSources(medium), NEW d \in 1..8
    PROVE  IsoTrue(medium, I!Detectors[d])
<1> USE DEF IsoTrue, I!Alias
<1>1. IsoTrue(medium, I!DetectTreeinfo(medium))
      BY IsoTreeinfo
<1>2. IsoTrue(medium, I!DetectDiscinfo(medium))
      BY IsoByName
<1>3. IsoTrue(medium, I!DetectDiskdefines(medium))
      BY IsoByName
<1>4. IsoTrue(medium, I!DetectDebianDists(medium))
  <2> DEFINE useful == {i \in 1..2 : I!Tells(medium.releases[i], {"version"})}
             first == IF 1 \in useful THEN 1 ELSE 2
  <2>1. CASE useful = {}
        BY <2>1 DEF I!DetectDebianDists
  <2>2. CASE useful # {}
    <3>1. first \in 1..2 /\ I!Tells(medium.releases[first], {"version"})
          BY <2>2
    <3>2. medium.system \in {"ubuntu", "debian"}
          BY <3>1 DEF IsoSources, I!Tells
    <3>3. /\ medium.system = "ubuntu"
          /\ ~I!Tells(medium.releases[first], {"label"})
          => I!Misread(medium)
          BY <3>1 DEF I!Misread, I!Tells
    <3>4. I!DetectDebianDists(medium) =
            [vendor |-> IF medium.system = "ubuntu" /\ I!Tells(medium.releases[first], {"label"})
                        THEN "ubuntu" ELSE "debian", version |-> "told"]
          BY <2>2 DEF I!DetectDebianDists
    <3> HIDE DEF first
    <3> QED BY <3>2, <3>3, <3>4
  <2> QED BY <2>1, <2>2
<1>5. IsoTrue(medium, I!DetectDebianNetinst(medium))
      BY DEF I!DetectDebianNetinst, IsoSources
<1>6. IsoTrue(medium, I!DetectOpenBSD(medium))
  <2>1. medium.manifest \/ medium.bsdrd => medium.system = "openbsd" \/ I!Misread(medium)
        BY DEF IsoSources, I!Misread
  <2> QED BY <2>1 DEF I!DetectOpenBSD
<1>7. IsoTrue(medium, I!DetectFreeBSD(medium))
  <2>1. \/ I!DetectFreeBSD(medium) = None
        \/ /\ medium.base
           /\ \E v \in {"told", "unknown"} : I!DetectFreeBSD(medium) = I!Alias("freebsd", v)
        BY Zenon DEF I!DetectFreeBSD
  <2>2. medium.base => medium.system = "freebsd"
        BY DEF IsoSources, IsoMedium
  <2> QED BY <2>1, <2>2
<1>8. IsoTrue(medium, I!DetectVolumeLabel(medium))
      BY IsoByName
<1> HIDE DEF IsoTrue
<1> QED
    BY <1>1, <1>2, <1>3, <1>4, <1>5, <1>6, <1>7, <1>8 DEF I!Detectors

LEMMA IsoTold ==
    ASSUME IsoSources(medium)
    PROVE  /\ I!DetectTreeinfo(medium) = None =>
                ~I!Tells(I!TreeinfoOf(medium), {"family", "version"})
           /\ I!DetectDiscinfo(medium) = None => ~I!Tells(medium.discinfo, {"version"})
           /\ I!DetectDiskdefines(medium) = None =>
                ~I!Tells(medium.diskdefines, {"id", "release"})
           /\ I!DetectVolumeLabel(medium) = None => ~I!Tells(medium.label, {"version"})
<1>1. ASSUME I!Tells(I!TreeinfoOf(medium), {"family", "version"})
      PROVE  I!DetectTreeinfo(medium) # None
  <2>1. medium.system \in {"fedora", "rhel"}
        BY <1>1 DEF I!Tells, I!TreeinfoOf, IsoSources
  <2>2. I!Alias(medium.system, "told") # None /\ Raised # None
        BY <2>1, IsoNamed, PartsAssumption DEF I!IsoAssumption
  <2> QED BY <1>1, <2>2, IsoTreeinfo
<1>2. ASSUME I!Tells(medium.discinfo, {"version"}) PROVE I!DetectDiscinfo(medium) # None
  <2>1. /\ medium.system \in {"fedora", "rhel"}
        /\ I!DetectDiscinfo(medium) = I!Alias(medium.system, "told")
        BY <1>2, IsoByName
  <2> QED BY <2>1, IsoNamed
<1>3. ASSUME I!Tells(medium.label, {"version"}) PROVE I!DetectVolumeLabel(medium) # None
  <2>1. /\ medium.system \in {"fedora", "rhel", "ubuntu", "debian", "openbsd", "freebsd"}
        /\ \E v \in {"told", "other"} : I!DetectVolumeLabel(medium) = I!Alias(medium.system, v)
        BY <1>3, IsoByName
  <2> QED BY <2>1, IsoNamed
<1> QED BY <1>1, <1>2, <1>3, IsoByName

LEMMA IsoToldReleases ==
    ASSUME I!DetectDebianDists(medium) = None, NEW i \in 1..2
    PROVE  ~I!Tells(medium.releases[i], {"version"})
<1> SUFFICES ASSUME I!Tells(medium.releases[i], {"version"}) PROVE FALSE
    OBVIOUS
<1>1. \E s \in {"ubuntu", "debian"} : I!DetectDebianDists(medium) = I!Alias(s, "told")
  <2> DEFINE useful == {j \in 1..2 : I!Tells(medium.releases[j], {"version"})}
  <2>1. useful # {}
        OBVIOUS
  <2> QED BY <2>1 DEF I!DetectDebianDists
<1> QED BY <1>1, IsoNamed

LEMMA IsoToldInstaller ==
    /\ I!DetectDebianNetinst(medium) = None => ~medium.installAmd
    /\ I!DetectOpenBSD(medium) = None => ~(medium.manifest \/ medium.bsdrd)
    /\ I!DetectFreeBSD(medium) = None => ~medium.base
<1>1. \A s \in {"debian", "openbsd", "freebsd"} : \A v \in {"told", "unknown"} :
        I!Alias(s, v) # None
      BY IsoNamed
<1>2. medium.installAmd =>
        \E v \in {"told", "unknown"} : I!DetectDebianNetinst(medium) = I!Alias("debian", v)
      BY Zenon DEF I!DetectDebianNetinst
<1>3. medium.manifest \/ medium.bsdrd =>
        \E v \in {"told", "unknown"} : I!DetectOpenBSD(medium) = I!Alias("openbsd", v)
      BY Zenon DEF I!DetectOpenBSD
<1>4. medium.base =>
        \E v \in {"told", "unknown"} : I!DetectFreeBSD(medium) = I!Alias("freebsd", v)
      BY Zenon DEF I!DetectFreeBSD
<1> QED BY <1>1, <1>2, <1>3, <1>4

(* A medium no detector answers for tells nothing. *)
LEMMA IsoSilence ==
    ASSUME IsoSources(medium), IsoSilent(9)
    PROVE  ~I!Recognisable(medium)
<1>1. /\ I!DetectTreeinfo(medium) = None /\ I!DetectDiscinfo(medium) = None
      /\ I!DetectDiskdefines(medium) = None /\ I!DetectDebianDists(medium) = None
      /\ I!DetectDebianNetinst(medium) = None /\ I!DetectOpenBSD(medium) = None
      /\ I!DetectFreeBSD(medium) = None /\ I!DetectVolumeLabel(medium) = None
  <2>1. \A d \in 1..8 : I!Detectors[d] = None
        BY DEF IsoSilent
  <2> QED BY <2>1 DEF I!Detectors
<1>2. /\ ~I!Tells(medium.releases[1], {"version"})
      /\ ~I!Tells(medium.releases[2], {"version"})
      BY <1>1, IsoToldReleases
<1> QED
    BY <1>1, <1>2, IsoTold, IsoToldInstaller DEF I!Recognisable

(* What is left of a medium without its label. *)
LEMMA IsoUnlabelled ==
    ASSUME IsoSources(medium),
           ~I!Tells(I!TreeinfoOf(medium), {"family", "version"}),
           \A s \in {medium.discinfo, medium.releases[1], medium.releases[2]} :
             ~I!Tells(s, {"version"}),
           ~I!Tells(medium.diskdefines, {"id", "release"}),
           medium.system = "debian" /\ medium.installAmd =>
             ~I!Tells(medium.diskInfo, {"version"}),
           medium.system = "openbsd" => ~medium.sets,
           medium.system = "freebsd" =>
             \A i \in 1..2 : ~I!Tells(medium.release[i], {"version"})
    PROVE  ~I!Recognisable([medium EXCEPT !.label = Absent])
<1> DEFINE m == [medium EXCEPT !.label = Absent]
<1>1. /\ m.system = medium.system /\ m.dotTreeinfo = medium.dotTreeinfo
      /\ m.treeinfo = medium.treeinfo /\ m.discinfo = medium.discinfo
      /\ m.diskdefines = medium.diskdefines /\ m.releases = medium.releases
      /\ m.installAmd = medium.installAmd /\ m.diskInfo = medium.diskInfo
      /\ m.manifest = medium.manifest /\ m.bsdrd = medium.bsdrd /\ m.sets = medium.sets
      /\ m.base = medium.base /\ m.release = medium.release /\ m.label = Absent
      BY DEF IsoSources, IsoMedium, I!Plain
<1> HIDE DEF m
<1>2. I!TreeinfoOf(m) = I!TreeinfoOf(medium)
      BY <1>1 DEF I!TreeinfoOf
<1>3. ~I!Tells(m.label, {"version"})
      BY <1>1 DEF I!Tells
<1>4. ~I!Recognisable(m)
      BY <1>1, <1>2, <1>3 DEF I!Recognisable
<1> QED BY <1>4 DEF m

(* An answer without a version: nothing but the label has it. *)
LEMMA IsoUnknown ==
    ASSUME IsoSources(medium), ~I!Misread(medium),
           NEW d \in 1..8, IsoFound(d), answer # Raised, answer.version = "unknown"
    PROVE  ~I!Recognisable([medium EXCEPT !.label = Absent])
<1>1. d \in {5, 6, 7}
  <2>0. \A a, v : I!Alias(a, v).version = v
        BY DEF I!Alias
  <2>1. /\ I!DetectTreeinfo(medium) \in {None, Raised} \/ I!DetectTreeinfo(medium).version = "told"
        /\ I!DetectDiscinfo(medium) = None \/ I!DetectDiscinfo(medium).version = "told"
        /\ I!DetectDiskdefines(medium) = None \/ I!DetectDiskdefines(medium).version = "told"
        BY <2>0, IsoTreeinfo, IsoByName
  <2>2. I!DetectDebianDists(medium) = None \/ I!DetectDebianDists(medium).version = "told"
        BY DEF I!DetectDebianDists, I!Alias
  <2>3. I!DetectVolumeLabel(medium) = None \/ I!DetectVolumeLabel(medium).version # "unknown"
        BY <2>0, IsoByName
  <2>4. d = 1 => answer = I!DetectTreeinfo(medium)
        BY DEF IsoFound, I!Detectors
  <2>5. d = 2 => answer = I!DetectDiscinfo(medium)
        BY DEF IsoFound, I!Detectors
  <2>6. d = 3 => answer = I!DetectDiskdefines(medium)
        BY DEF IsoFound, I!Detectors
  <2>7. d = 4 => answer = I!DetectDebianDists(medium)
        BY DEF IsoFound, I!Detectors
  <2>8. d = 8 => answer = I!DetectVolumeLabel(medium)
        BY DEF IsoFound, I!Detectors
  <2>9. answer \notin {None, Raised}
        BY DEF IsoFound
  <2> QED BY <2>1, <2>2, <2>3, <2>4, <2>5, <2>6, <2>7, <2>8, <2>9
<1>2. I!DetectDebianDists(medium) = None
      BY <1>1 DEF IsoFound, IsoSilent, I!Detectors
<1>3. /\ ~I!Tells(medium.releases[1], {"version"})
      /\ ~I!Tells(medium.releases[2], {"version"})
      BY <1>2, IsoToldReleases
<1>4. /\ medium.system \in {"debian", "openbsd", "freebsd"}
      /\ medium.system = "debian" /\ medium.installAmd =>
           ~I!Tells(medium.diskInfo, {"version"})
      /\ medium.system = "openbsd" => ~medium.sets
      /\ medium.system = "freebsd" =>
           \A i \in 1..2 : ~I!Tells(medium.release[i], {"version"})
  <2>1. CASE d = 5
    <3>1. answer = I!DetectDebianNetinst(medium) /\ answer # None
          BY <2>1 DEF IsoFound, I!Detectors
    <3>2. medium.installAmd /\ ~I!Tells(medium.diskInfo, {"version"})
          BY <3>1 DEF I!DetectDebianNetinst, I!Alias
    <3> QED BY <3>2 DEF IsoSources
  <2>2. CASE d = 6
    <3>1. answer = I!DetectOpenBSD(medium) /\ answer # None
          BY <2>2 DEF IsoFound, I!Detectors
    <3>2. (medium.manifest \/ medium.bsdrd) /\ ~medium.sets
          BY <3>1 DEF I!DetectOpenBSD, I!Alias
    <3>3. medium.system = "openbsd"
          BY <3>2 DEF IsoSources, I!Misread
    <3> QED BY <3>2, <3>3
  <2>3. CASE d = 7
    <3>1. answer = I!DetectFreeBSD(medium) /\ answer # None
          BY <2>3 DEF IsoFound, I!Detectors
    <3>2. medium.base /\ ~\E i \in 1..2 : I!Tells(medium.release[i], {"version"})
          BY <3>1, Zenon DEF I!DetectFreeBSD, I!Alias
    <3>3. medium.system = "freebsd"
          BY <3>2 DEF IsoSources, IsoMedium
    <3> QED BY <3>2, <3>3
  <2> QED BY <1>1, <2>1, <2>2, <2>3
<1>5. /\ ~I!Tells(medium.discinfo, {"version"})
      /\ ~I!Tells(I!TreeinfoOf(medium), {"family", "version"})
      BY <1>4 DEF IsoSources, I!Tells, I!TreeinfoOf
<1>6. ~I!Tells(medium.diskdefines, {"id", "release"})
      BY <1>4 DEF IsoSources, I!Tells
<1> QED BY <1>3, <1>4, <1>5, <1>6, IsoUnlabelled

(* Only the treeinfo raises, and it is the first to be asked. *)
LEMMA IsoRaised ==
    ASSUME IsoSources(medium)
    PROVE  /\ IsoSilent(9) => ~I!Tells(I!TreeinfoOf(medium), {"percent"})
           /\ \A d \in 1..8 : IsoFound(d) =>
                (answer = Raised <=> I!Tells(I!TreeinfoOf(medium), {"percent"}))
<1>1. I!Detectors[1] = Raised <=> I!Tells(I!TreeinfoOf(medium), {"percent"})
  <2>1. I!Detectors[1] = I!DetectTreeinfo(medium)
        BY DEF I!Detectors
  <2> QED BY <2>1, IsoTreeinfo
<1>2. None # Raised
      BY PartsAssumption DEF I!IsoAssumption
<1>3. ASSUME NEW d \in 2..8 PROVE I!Detectors[d] # Raised
  <2>0. \A s \in {"fedora", "rhel", "red", "ubuntu", "debian", "openbsd", "freebsd"},
           v \in {"told", "other", "unknown"} : I!Alias(s, v) # Raised
        BY IsoNamed
  <2>1. /\ I!DetectDiscinfo(medium) # Raised /\ I!DetectDiskdefines(medium) # Raised
        /\ I!DetectVolumeLabel(medium) # Raised
        BY <1>2, <2>0, IsoByName
  <2>2. /\ I!DetectDebianDists(medium) # Raised
        /\ I!DetectDebianNetinst(medium) # Raised
        /\ I!DetectOpenBSD(medium) # Raised
        /\ I!DetectFreeBSD(medium) # Raised
    <3>1. \/ I!DetectDebianDists(medium) = None
          \/ \E s \in {"ubuntu", "debian"} : I!DetectDebianDists(medium) = I!Alias(s, "told")
          BY Zenon DEF I!DetectDebianDists
    <3>2. \/ I!DetectDebianNetinst(medium) = None
          \/ \E v \in {"told", "unknown"} : I!DetectDebianNetinst(medium) = I!Alias("debian", v)
          BY Zenon DEF I!DetectDebianNetinst
    <3>3. \/ I!DetectOpenBSD(medium) = None
          \/ \E v \in {"told", "unknown"} : I!DetectOpenBSD(medium) = I!Alias("openbsd", v)
          BY Zenon DEF I!DetectOpenBSD
    <3>4. \/ I!DetectFreeBSD(medium) = None
          \/ \E v \in {"told", "unknown"} : I!DetectFreeBSD(medium) = I!Alias("freebsd", v)
          BY Zenon DEF I!DetectFreeBSD
    <3> QED BY <1>2, <2>0, <3>1, <3>2, <3>3, <3>4
  <2> QED BY <2>1, <2>2 DEF I!Detectors
<1>4. IsoSilent(9) => ~I!Tells(I!TreeinfoOf(medium), {"percent"})
      BY <1>1, <1>2 DEF IsoSilent
<1>5. ASSUME NEW d \in 1..8, IsoFound(d)
      PROVE  answer = Raised <=> I!Tells(I!TreeinfoOf(medium), {"percent"})
  <2>1. CASE d = 1
        BY <1>1, <1>5, <2>1 DEF IsoFound
  <2>2. CASE d # 1
    <3>1. I!Detectors[1] = None /\ answer = I!Detectors[d] /\ d \in 2..8
          BY <1>5, <2>2 DEF IsoFound, IsoSilent
    <3> QED BY <1>1, <1>2, <1>3, <3>1
  <2> QED BY <2>1, <2>2
<1> QED BY <1>4, <1>5

(* Whatever files of a medium are missing or damaged, it is taken for the  *)
(* system it is of, with its version where a file has it, in the order in  *)
(* which iso_detect.py:59-80 asks its detectors -- but for the media of    *)
(* Misread, and for a treeinfo with a stray %, over which it raises        *)
(* whatever the other files tell.                                          *)
THEOREM DetectedRight == Spec => []DetectionIsRight
<1> DEFINE Inv == used = "iso" => IsoAsked
<1>1. Init => Inv
      BY DEF Init, I!Init, I!Media, IsoAsked
<1>2. Inv /\ [Next]_vars => Inv'
  <2> SUFFICES ASSUME IsoAsked, I!Next \/ UNCHANGED isoVars PROVE IsoAsked'
      BY DEF Next, vars
  <2> QED BY IsoSteps
<1>3. Inv => DetectionIsRight
  <2> SUFFICES ASSUME IsoAsked, asked = 0, medium # I!Plain
               PROVE  /\ answer = Raised <=> I!Tells(I!TreeinfoOf(medium), {"percent"})
                      /\ answer = None => ~I!Recognisable(medium)
                      /\ answer \notin {None, Raised} =>
                           /\ ~I!Misread(medium) => answer.vendor = medium.system
                           /\ answer.version = "other" => "compose" \in medium.label
                           /\ answer.version = "unknown" /\ ~I!Misread(medium) =>
                                ~I!Recognisable([medium EXCEPT !.label = Absent])
      BY DEF DetectionIsRight, I!DetectionIsRight
  <2>1. IsoSources(medium)
        BY IsoSystems DEF IsoAsked
  <2>2. CASE answer = None
    <3>1. IsoSilent(9)
          BY <2>2 DEF IsoAsked, IsoFound
    <3>2. None # Raised
          BY PartsAssumption DEF I!IsoAssumption
    <3> QED BY <2>1, <2>2, <3>1, <3>2, IsoSilence, IsoRaised
  <2>3. CASE answer # None
    <3>1. PICK d \in 1..8 : IsoFound(d)
          BY <2>3 DEF IsoAsked
    <3>2. IsoTrue(medium, answer)
          BY <2>1, <3>1, IsoTelling DEF IsoFound
    <3>3. answer = Raised <=> I!Tells(I!TreeinfoOf(medium), {"percent"})
          BY <2>1, <3>1, IsoRaised
    <3>4. answer \notin {None, Raised} /\ answer.version = "unknown" /\ ~I!Misread(medium) =>
            ~I!Recognisable([medium EXCEPT !.label = Absent])
          BY <2>1, <3>1, IsoUnknown
    <3> QED BY <2>3, <3>2, <3>3, <3>4 DEF IsoTrue
  <2> QED BY <2>2, <2>3
<1> QED BY <1>1, <1>2, <1>3, PTL DEF Spec

(* Every part keeps its types. *)
THEOREM PartsTypeCorrect == Spec => []TypeOK
<1>1. Spec => [](used \in {"files", "mirrors", "images", "tls", "audit", "console", "iso"})
  <2> DEFINE Inv == used \in {"files", "mirrors", "images", "tls", "audit", "console", "iso"}
  <2>1. Init => Inv
        BY DEF Init
  <2>2. Inv /\ [Next]_vars => Inv'
        BY DEF Next, vars
  <2> QED BY <2>1, <2>2, PTL DEF Spec
<1>2. /\ PartsAssumption
      /\ used \in {"files", "mirrors", "images", "tls", "audit", "console", "iso"}
      /\ used = "files" => FilInv
      /\ used = "mirrors" => MirInv
      /\ used = "images" => ImgInv
      /\ used = "tls" => TlsInv /\ T!TypeOK
      /\ used = "audit" => AudInv
      /\ used = "console" => ConsoleInv
      /\ used = "iso" => IsoInv
      => TypeOK
  <2>1. FilInv => F!TypeOK
        BY DEF FilInv, FilTypes
  <2>2. MirInv => M!TypeOK
        BY DEF MirInv
  <2>3. ImgInv => C!TypeOK
        BY DEF ImgInv
  <2>4. ConsoleInv => P!TypeOK
        BY DEF ConsoleInv, ConsoleTypes, P!TypeOK
  <2> QED BY <2>1, <2>2, <2>3, <2>4, AudSafe, IsoSafe DEF TypeOK
<1> QED
    BY <1>1, <1>2, FilAlways, MirAlways, ImgAlways, TlsTypesAlways, AudAlways,
       ConsoleAlways, IsoAlways, PartsAssumption, PTL

=============================================================================
