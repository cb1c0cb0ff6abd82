---------------------------- MODULE StagingProofs ----------------------------
(***************************************************************************)
(* What stage() guarantees for any number of callers, firmware files and   *)
(* names, as long as mkstemp() does not choose the name another call has   *)
(* freed for its link: the daemon finds whole files only, a name never     *)
(* goes unserved in between, nothing is left behind, and the firmware is   *)
(* only read.                                                              *)
(***************************************************************************)
EXTENDS Staging, TLAPS

(* No two calls use one temporary name. *)
NamesInv == \A t, u \in Threads : t # u /\ tmp[t] # None => tmp[t] # tmp[u]

(* What is under the temporary name of a call at each of its steps. *)
EntryInv ==
    \A t \in Threads :
      /\ pc[t] \in {"free", "open", "copy"} => dir[tmp[t]] \in {e \in File : e.by = t}
      /\ pc[t] = "link" => dir[tmp[t]] = None
      /\ pc[t] = "rename" => dir[tmp[t]] \in Link \cup {e \in File : e.whole}

IInv ==
    /\ TypeOK
    /\ NamesInv
    /\ EntryInv
    /\ ServedIsWhole
    /\ NoLitter
    /\ SourcesAreRead

-----------------------------------------------------------------------------
LEMMA LinkIsNoFile == \A e \in Link : e \notin File
BY DEF Link, File

LEMMA NoneIsNoEntry == None \notin Link /\ None \notin File /\ None \notin Temps /\ None \notin Jobs
BY StagingAssumption

LEMMA NamesApart == \A n \in Targets, x \in Temps : n # x
BY StagingAssumption

LEMMA InitEstablishes == Init => IInv
<1> SUFFICES ASSUME Init PROVE IInv
  OBVIOUS
<1>1. TypeOK
  BY NoneIsNoEntry DEF Init, TypeOK, Steps
<1>2. NamesInv /\ EntryInv
  BY DEF Init, NamesInv, EntryInv
<1>3. ServedIsWhole /\ NoLitter /\ SourcesAreRead
  BY NoneIsNoEntry DEF Init, ServedIsWhole, NoLitter, SourcesAreRead
<1>4. QED
  BY <1>1, <1>2, <1>3 DEF IInv

LEMMA TypeStep == TypeOK /\ [Next]_vars => TypeOK'
<1> SUFFICES ASSUME TypeOK, [Next]_vars PROVE TypeOK'
  OBVIOUS
<1> USE NoneIsNoEntry DEF TypeOK, Steps, GoTo, Return
<1>1. ASSUME NEW t \in Threads, NEW j \in Jobs, Stage(t, j) PROVE TypeOK'
  <2>1. j # None
    BY StagingAssumption
  <2>2. QED
    BY <1>1, <2>1 DEF Stage
<1>2. ASSUME NEW t \in Threads, MakeTemp(t) PROVE TypeOK'
  BY <1>2 DEF MakeTemp, File, Jobs
<1>3. ASSUME NEW t \in Threads, MakeTempFail(t) PROVE TypeOK'
  BY <1>3 DEF MakeTempFail
<1>4. ASSUME NEW t \in Threads, FreeName(t) PROVE TypeOK'
  BY <1>4 DEF FreeName
<1>5. ASSUME NEW t \in Threads, MakeLink(t) PROVE TypeOK'
  BY <1>5 DEF MakeLink, Link, Jobs
<1>6. ASSUME NEW t \in Threads, CopyOpen(t) PROVE TypeOK'
  <2>1. job[t] \in Jobs /\ tmp[t] \in Temps /\ pc[t] = "open"
    BY <1>6 DEF CopyOpen
  <2>2. CASE dir[tmp[t]] \in Link
    <3>1. dir[tmp[t]].link \in Firmware
      BY <2>2 DEF Link
    <3>2. source' \in [Firmware -> {"intact", "overwritten", "gone"}]
      BY <1>6, <2>2, <3>1 DEF CopyOpen
    <3>3. QED
      BY <1>6, <2>1, <2>2, <3>2 DEF CopyOpen
  <2>3. CASE dir[tmp[t]] \notin Link
    <3>1. [of |-> job[t].of, whole |-> FALSE, by |-> t] \in File
      BY <2>1 DEF File, Jobs
    <3>2. dir' \in [Targets \cup Temps -> Link \cup File \cup {None}]
      BY <1>6, <2>1, <2>3, <3>1 DEF CopyOpen
    <3>3. QED
      BY <1>6, <2>1, <2>3, <3>2 DEF CopyOpen
  <2>4. QED
    BY <2>2, <2>3
<1>7. ASSUME NEW t \in Threads, CopyEnd(t) PROVE TypeOK'
  BY <1>7 DEF CopyEnd, File
<1>8. ASSUME NEW t \in Threads, Rename(t) PROVE TypeOK'
  BY <1>8 DEF Rename, Jobs
<1>9. ASSUME NEW t \in Threads, GiveUp(t) PROVE TypeOK'
  BY <1>9 DEF GiveUp
<1>10. ASSUME NEW t \in Threads, NEW n \in Targets, Unstage(t, n) PROVE TypeOK'
  BY <1>10 DEF Unstage
<1>11. ASSUME NEW f \in Firmware, RemoveFirmware(f) \/ InstallFirmware(f) PROVE TypeOK'
  BY <1>11 DEF RemoveFirmware, InstallFirmware
<1>12. CASE Crash
  BY <1>12 DEF Crash
<1>13. CASE UNCHANGED vars
  BY <1>13 DEF vars
<1>14. QED
  BY <1>1, <1>2, <1>3, <1>4, <1>5, <1>6, <1>7, <1>8, <1>9, <1>10, <1>11, <1>12, <1>13
     DEF Next, Step

-----------------------------------------------------------------------------
(* A step of thread t that keeps every other thread and every entry but    *)
(* those under t's own temporary name and under targets keeps what the     *)
(* others rely on.                                                         *)
OthersKept(t) ==
    \A u \in Threads \ {t} :
      /\ pc'[u] = pc[u]
      /\ tmp'[u] = tmp[u]
      /\ tmp[u] # None => dir'[tmp[u]] = dir[tmp[u]]

LEMMA InsideHasName ==
  ASSUME TypeOK, NEW t \in Threads,
         pc[t] \in {"free", "link", "open", "copy", "rename"}
  PROVE  tmp[t] \in Temps /\ job[t] \in Jobs /\ tmp[t] # None
BY NoneIsNoEntry DEF TypeOK, Steps

LEMMA NamesStep ==
  ASSUME NamesInv, NEW t \in Threads, OthersKept(t),
         tmp'[t] = None \/ \A u \in Threads \ {t} : tmp[u] # tmp'[t]
  PROVE  NamesInv'
BY DEF NamesInv, OthersKept

LEMMA EntryStep ==
  ASSUME TypeOK, EntryInv, NEW t \in Threads, OthersKept(t),
         pc'[t] \in {"free", "open", "copy"} => dir'[tmp'[t]] \in {e \in File : e.by = t},
         pc'[t] = "link" => dir'[tmp'[t]] = None,
         pc'[t] = "rename" => dir'[tmp'[t]] \in Link \cup {e \in File : e.whole}
  PROVE  EntryInv'
<1>1. ASSUME NEW u \in Threads \ {t}, pc[u] \in {"free", "link", "open", "copy", "rename"}
      PROVE  dir'[tmp'[u]] = dir[tmp[u]]
  BY <1>1, InsideHasName DEF OthersKept
<1>2. QED
  BY <1>1 DEF EntryInv, OthersKept

(* The effect of a step of t on the directory: it changes the entry under  *)
(* one name, which no other call names.                                    *)
LEMMA OthersKeptAtName ==
  ASSUME TypeOK, NamesInv, NEW t \in Threads, NEW n \in Targets \cup Temps, NEW e,
         \A u \in Threads \ {t} : pc'[u] = pc[u] /\ tmp'[u] = tmp[u],
         dir' = [dir EXCEPT ![n] = e],
         n \in Targets \/ n = tmp[t] \/ \A u \in Threads : tmp[u] # n
  PROVE  OthersKept(t)
<1>1. ASSUME NEW u \in Threads \ {t}, tmp[u] # None PROVE dir'[tmp[u]] = dir[tmp[u]]
  <2>1. tmp[u] \in Temps
    BY <1>1 DEF TypeOK
  <2>2. n # tmp[u]
    BY <1>1, <2>1, NamesApart DEF NamesInv
  <2>3. QED
    BY <2>1, <2>2 DEF TypeOK
<1>2. QED
  BY <1>1 DEF OthersKept

(* Every step but a crash belongs to a thread or to the owner of the       *)
(* firmware; these are the steps of stage() inside the directory.          *)
LEMMA MakeTempKeeps ==
  ASSUME ~Collisions, IInv, NEW t \in Threads, MakeTemp(t)
  PROVE  NamesInv' /\ EntryInv' /\ ServedIsWhole' /\ NoLitter'
<1> USE DEF IInv
<1>1. PICK n \in Temps :
        /\ dir[n] = None
        /\ \A u \in Threads : tmp[u] # n
        /\ dir' = [dir EXCEPT ![n] = [of |-> job[t].of, whole |-> FALSE, by |-> t]]
        /\ tmp' = [tmp EXCEPT ![t] = n]
  BY DEF MakeTemp
<1>2. pc' = [pc EXCEPT ![t] = IF pc[t] = "link-name" THEN "free" ELSE "open"]
  BY DEF MakeTemp, GoTo
<1>3. job[t] \in Jobs
  BY NoneIsNoEntry DEF MakeTemp, TypeOK
<1>4. [of |-> job[t].of, whole |-> FALSE, by |-> t] \in {e \in File : e.by = t}
  BY <1>3 DEF File, Jobs
<1>5. OthersKept(t)
  BY <1>1, <1>2, OthersKeptAtName DEF TypeOK
<1>6. tmp'[t] = n /\ dir'[n] \in {e \in File : e.by = t}
  BY <1>1, <1>4 DEF TypeOK
<1>7. NamesInv'
  BY <1>1, <1>5, <1>6, NamesStep
<1>8. EntryInv'
  BY <1>2, <1>5, <1>6, EntryStep DEF TypeOK
<1>9. ServedIsWhole'
  BY <1>1, NamesApart DEF ServedIsWhole, TypeOK
<1>10. NoLitter'
  <2>1. UNCHANGED crashed
    BY DEF MakeTemp, GoTo
  <2>2. tmp[t] = None
    BY DEF MakeTemp, TypeOK
  <2>3. QED
    BY <1>1, <2>1, <2>2, NoneIsNoEntry DEF NoLitter, TypeOK
<1>11. QED
  BY <1>7, <1>8, <1>9, <1>10

LEMMA FreeNameKeeps ==
  ASSUME IInv, NEW t \in Threads, FreeName(t)
  PROVE  NamesInv' /\ EntryInv' /\ ServedIsWhole' /\ NoLitter'
<1> USE DEF IInv
<1>1. tmp[t] \in Temps /\ tmp[t] # None /\ dir[tmp[t]] # None
  BY InsideHasName, NoneIsNoEntry DEF FreeName, EntryInv
<1>2. /\ dir' = [dir EXCEPT ![tmp[t]] = None]
      /\ tmp' = tmp /\ pc' = [pc EXCEPT ![t] = "link"] /\ crashed' = crashed
  BY <1>1 DEF FreeName, GoTo
<1>3. OthersKept(t)
  BY <1>1, <1>2, OthersKeptAtName DEF TypeOK
<1>4. NamesInv'
  BY <1>2 DEF NamesInv
<1>5. EntryInv'
  BY <1>1, <1>2, <1>3, EntryStep DEF TypeOK
<1>6. ServedIsWhole' /\ NoLitter'
  BY <1>1, <1>2, NamesApart DEF ServedIsWhole, NoLitter, TypeOK
<1>7. QED
  BY <1>4, <1>5, <1>6

LEMMA MakeLinkKeeps ==
  ASSUME IInv, NEW t \in Threads, MakeLink(t)
  PROVE  NamesInv' /\ EntryInv' /\ ServedIsWhole' /\ NoLitter'
<1> USE DEF IInv
<1>1. tmp[t] \in Temps /\ tmp[t] # None /\ job[t] \in Jobs
  BY InsideHasName DEF MakeLink
<1>2. /\ dir' = [dir EXCEPT ![tmp[t]] = [link |-> job[t].of]]
      /\ tmp' = tmp /\ pc' = [pc EXCEPT ![t] = "rename"] /\ crashed' = crashed
  BY DEF MakeLink, GoTo
<1>3. [link |-> job[t].of] \in Link
  BY <1>1 DEF Link, Jobs
<1>4. OthersKept(t)
  BY <1>1, <1>2, OthersKeptAtName DEF TypeOK
<1>5. NamesInv'
  BY <1>2 DEF NamesInv
<1>6. EntryInv'
  BY <1>1, <1>2, <1>3, <1>4, EntryStep DEF TypeOK
<1>7. ServedIsWhole' /\ NoLitter'
  BY <1>1, <1>2, NamesApart DEF ServedIsWhole, NoLitter, TypeOK
<1>8. QED
  BY <1>5, <1>6, <1>7

(* Here it matters that the name holds the file of this call: copy2()      *)
(* finds no link to follow.                                                *)
LEMMA CopyOpenKeeps ==
  ASSUME IInv, NEW t \in Threads, CopyOpen(t)
  PROVE  NamesInv' /\ EntryInv' /\ ServedIsWhole' /\ NoLitter' /\ source' = source
<1> USE DEF IInv
<1>1. tmp[t] \in Temps /\ tmp[t] # None /\ job[t] \in Jobs
  BY InsideHasName DEF CopyOpen
<1>2. dir[tmp[t]] \notin Link
  BY LinkIsNoFile DEF CopyOpen, EntryInv
<1>3. /\ dir' = [dir EXCEPT ![tmp[t]] = [of |-> job[t].of, whole |-> FALSE, by |-> t]]
      /\ source' = source
      /\ tmp' = tmp /\ pc' = [pc EXCEPT ![t] = "copy"] /\ crashed' = crashed
  BY <1>2 DEF CopyOpen, GoTo
<1>4. [of |-> job[t].of, whole |-> FALSE, by |-> t] \in {e \in File : e.by = t}
  BY <1>1 DEF File, Jobs
<1>5. OthersKept(t)
  BY <1>1, <1>3, OthersKeptAtName DEF TypeOK
<1>6. NamesInv'
  BY <1>3 DEF NamesInv
<1>7. EntryInv'
  BY <1>1, <1>3, <1>4, <1>5, EntryStep DEF TypeOK
<1>8. ServedIsWhole' /\ NoLitter'
  BY <1>1, <1>3, NamesApart DEF ServedIsWhole, NoLitter, TypeOK
<1>9. QED
  BY <1>3, <1>6, <1>7, <1>8

(* The bytes arrive in every entry the call has written; the ones that are *)
(* served are whole already.                                               *)
LEMMA CopyEndEntries ==
  ASSUME IInv, NEW t \in Threads, CopyEnd(t), NEW n \in Targets \cup Temps
  PROVE  /\ dir[n] \in File <=> dir'[n] \in File
         /\ dir[n] \in File => dir'[n].by = dir[n].by /\ dir'[n].of = dir[n].of
         /\ dir[n] \in File /\ (dir[n].whole \/ dir[n].by = t) => dir'[n].whole
         /\ dir[n] \notin File => dir'[n] = dir[n]
<1>1. dir'[n] = IF dir[n] \in File /\ dir[n].by = t
                THEN [dir[n] EXCEPT !.whole = TRUE] ELSE dir[n]
  BY DEF CopyEnd, IInv, TypeOK
<1>2. QED
  BY <1>1 DEF File

LEMMA CopyEndKeeps ==
  ASSUME IInv, NEW t \in Threads, CopyEnd(t)
  PROVE  NamesInv' /\ EntryInv' /\ ServedIsWhole' /\ NoLitter'
<1> USE DEF IInv
<1>1. tmp[t] \in Temps /\ tmp[t] # None
  BY InsideHasName DEF CopyEnd
<1>2. tmp' = tmp /\ pc' = [pc EXCEPT ![t] = "rename"] /\ crashed' = crashed
  BY DEF CopyEnd, GoTo
<1>3. NamesInv'
  BY <1>2 DEF NamesInv
<1>4. EntryInv'
  <2>1. dir'[tmp[t]] \in {e \in File : e.whole}
    BY <1>1, CopyEndEntries DEF CopyEnd, EntryInv
  <2>2. ASSUME NEW u \in Threads \ {t}, pc[u] \in {"free", "link", "open", "copy", "rename"}
        PROVE  /\ dir[tmp[u]] \in File <=> dir'[tmp[u]] \in File
               /\ dir[tmp[u]] \in File => dir'[tmp[u]].by = dir[tmp[u]].by
               /\ dir[tmp[u]] \in File /\ dir[tmp[u]].whole => dir'[tmp[u]].whole
               /\ dir[tmp[u]] \notin File => dir'[tmp[u]] = dir[tmp[u]]
    BY <2>2, InsideHasName, CopyEndEntries
  <2>3. QED
    BY <1>2, <2>1, <2>2, LinkIsNoFile, NoneIsNoEntry DEF EntryInv, TypeOK
<1>5. ServedIsWhole'
  BY CopyEndEntries DEF ServedIsWhole
<1>6. NoLitter'
  BY <1>2, CopyEndEntries, NoneIsNoEntry DEF NoLitter
<1>7. QED
  BY <1>3, <1>4, <1>5, <1>6

LEMMA RenameKeeps ==
  ASSUME IInv, NEW t \in Threads, Rename(t)
  PROVE  NamesInv' /\ EntryInv' /\ ServedIsWhole' /\ NoLitter'
<1> USE DEF IInv
<1>1. tmp[t] \in Temps /\ tmp[t] # None /\ job[t].target \in Targets
  BY InsideHasName DEF Rename, Jobs
<1>2. dir[tmp[t]] \in Link \cup {e \in File : e.whole}
  BY DEF Rename, EntryInv
<1>3. /\ dir' = [dir EXCEPT ![job[t].target] = dir[tmp[t]], ![tmp[t]] = None]
      /\ tmp' = [tmp EXCEPT ![t] = None]
      /\ pc' = [pc EXCEPT ![t] = "idle"] /\ crashed' = crashed
  BY DEF Rename, Return
<1>4. OthersKept(t)
  <2>1. ASSUME NEW u \in Threads \ {t}, tmp[u] # None PROVE dir'[tmp[u]] = dir[tmp[u]]
    <3>1. tmp[u] \in Temps /\ tmp[u] # tmp[t] /\ tmp[u] # job[t].target
      BY <1>1, <2>1, NamesApart DEF TypeOK, NamesInv
    <3>2. QED
      BY <1>3, <3>1 DEF TypeOK
  <2>2. QED
    BY <1>3, <2>1 DEF OthersKept, TypeOK
<1>5. tmp'[t] = None /\ pc'[t] = "idle"
  BY <1>3 DEF TypeOK
<1>6. NamesInv'
  BY <1>4, <1>5, NamesStep
<1>7. EntryInv'
  BY <1>4, <1>5, EntryStep
<1>8. ServedIsWhole'
  BY <1>1, <1>2, <1>3, NamesApart, LinkIsNoFile DEF ServedIsWhole, TypeOK
<1>9. NoLitter'
  BY <1>1, <1>3, NamesApart DEF NoLitter, TypeOK
<1>10. QED
  BY <1>6, <1>7, <1>8, <1>9

LEMMA GiveUpKeeps ==
  ASSUME IInv, NEW t \in Threads, GiveUp(t)
  PROVE  NamesInv' /\ EntryInv' /\ ServedIsWhole' /\ NoLitter'
<1> USE DEF IInv
<1>1. tmp[t] \in Temps /\ tmp[t] # None
  BY InsideHasName DEF GiveUp
<1>2. /\ dir' = [dir EXCEPT ![tmp[t]] = None]
      /\ tmp' = [tmp EXCEPT ![t] = None] /\ crashed' = crashed
      /\ \E step \in {"idle", "copy-name"} : pc' = [pc EXCEPT ![t] = step]
  BY DEF GiveUp, GoTo, Return
<1>3. OthersKept(t)
  BY <1>1, <1>2, OthersKeptAtName DEF TypeOK
<1>4. tmp'[t] = None /\ pc'[t] \in {"idle", "copy-name"}
  BY <1>2 DEF TypeOK
<1>5. NamesInv'
  BY <1>3, <1>4, NamesStep
<1>6. EntryInv'
  BY <1>3, <1>4, EntryStep
<1>7. ServedIsWhole'
  BY <1>1, <1>2, NamesApart DEF ServedIsWhole, TypeOK
<1>8. NoLitter'
  BY <1>1, <1>2 DEF NoLitter, TypeOK
<1>9. QED
  BY <1>5, <1>6, <1>7, <1>8

(* The steps that touch no entry, and name none. *)
LEMMA OutsideKeeps ==
  ASSUME IInv, UNCHANGED <<dir, tmp, crashed>>, NEW t \in Threads,
         \E step \in {"idle", "link-name", "copy-name"} : pc' = [pc EXCEPT ![t] = step]
  PROVE  NamesInv' /\ EntryInv' /\ ServedIsWhole' /\ NoLitter'
BY DEF IInv, NamesInv, EntryInv, ServedIsWhole, NoLitter, TypeOK

LEMMA UnstageKeeps ==
  ASSUME IInv, NEW t \in Threads, NEW n \in Targets, Unstage(t, n)
  PROVE  NamesInv' /\ EntryInv' /\ ServedIsWhole' /\ NoLitter'
<1> USE DEF IInv
<1>1. dir' = [dir EXCEPT ![n] = None] /\ UNCHANGED <<source, pc, job, tmp, crashed>>
  BY DEF Unstage
<1>2. \A x \in Temps : dir'[x] = dir[x]
  BY <1>1, NamesApart DEF TypeOK
<1>3. NamesInv' /\ NoLitter'
  BY <1>1, <1>2 DEF NamesInv, NoLitter
<1>4. EntryInv'
  BY <1>1, <1>2, InsideHasName DEF EntryInv
<1>5. ServedIsWhole'
  BY <1>1, NoneIsNoEntry DEF ServedIsWhole, TypeOK
<1>6. QED
  BY <1>3, <1>4, <1>5

LEMMA SourcesStep ==
  ASSUME IInv, [Next]_vars
  PROVE  SourcesAreRead'
<1> USE DEF IInv
<1>1. ASSUME NEW t \in Threads, CopyOpen(t) PROVE SourcesAreRead'
  BY <1>1, CopyOpenKeeps DEF SourcesAreRead
<1>2. ASSUME NEW f \in Firmware, RemoveFirmware(f) \/ InstallFirmware(f) PROVE SourcesAreRead'
  BY <1>2 DEF RemoveFirmware, InstallFirmware, SourcesAreRead, TypeOK
<1>3. CASE source' = source
  BY <1>3 DEF SourcesAreRead
<1>4. QED
  BY <1>1, <1>2, <1>3 DEF Next, Step, vars, Stage, MakeTemp, MakeTempFail, FreeName,
     MakeLink, CopyEnd, Rename, GiveUp, Unstage, Crash

LEMMA StepKeeps == ~Collisions /\ IInv /\ [Next]_vars => IInv'
<1> SUFFICES ASSUME ~Collisions, IInv, [Next]_vars PROVE IInv'
  OBVIOUS
<1> DEFINE Rest == NamesInv /\ EntryInv /\ ServedIsWhole /\ NoLitter
<1>1. ASSUME NEW t \in Threads, Step(t) PROVE Rest'
  <2>1. ASSUME MakeTempFail(t) PROVE Rest'
    <3>1. UNCHANGED <<dir, tmp, crashed>>
      BY <2>1 DEF MakeTempFail, GoTo, Return, IInv, TypeOK
    <3>2. \E step \in {"idle", "link-name", "copy-name"} : pc' = [pc EXCEPT ![t] = step]
      BY <2>1 DEF MakeTempFail, GoTo, Return
    <3>3. QED
      BY <3>1, <3>2, OutsideKeeps
  <2>2. QED
    BY <1>1, <2>1, MakeTempKeeps, FreeNameKeeps, MakeLinkKeeps, CopyOpenKeeps,
       CopyEndKeeps, RenameKeeps, GiveUpKeeps DEF Step
<1>2. ASSUME NEW t \in Threads, NEW j \in Jobs, Stage(t, j) PROVE Rest'
  <2>1. \E step \in {"idle", "link-name", "copy-name"} : pc' = [pc EXCEPT ![t] = step]
    BY <1>2 DEF Stage
  <2>2. QED
    BY <1>2, <2>1, OutsideKeeps DEF Stage
<1>3. ASSUME NEW t \in Threads, NEW n \in Targets, Unstage(t, n) PROVE Rest'
  BY <1>3, UnstageKeeps
<1>4. ASSUME NEW f \in Firmware, RemoveFirmware(f) \/ InstallFirmware(f) PROVE Rest'
  BY <1>4 DEF RemoveFirmware, InstallFirmware, IInv, NamesInv, EntryInv, ServedIsWhole, NoLitter
<1>5. ASSUME Crash PROVE Rest'
  BY <1>5 DEF Crash, IInv, NamesInv, EntryInv, ServedIsWhole, NoLitter
<1>6. ASSUME UNCHANGED vars PROVE Rest'
  BY <1>6 DEF vars, IInv, NamesInv, EntryInv, ServedIsWhole, NoLitter
<1>7. Rest'
  BY <1>1, <1>2, <1>3, <1>4, <1>5, <1>6 DEF Next
<1>8. QED
  BY <1>7, TypeStep, SourcesStep DEF IInv

-----------------------------------------------------------------------------
(* The directory of a state, as the daemon sees it. *)
View == [n \in Targets |-> Served(n)]

(* A step that keeps every served entry is none of the abstract directory. *)
LEMMA ViewKept ==
  ASSUME \A n \in Targets : dir'[n] = dir[n]
  PROVE  View' = View
BY DEF View, Served

(* Every step of stage() and unstage() is a step of ServedDirectory: the   *)
(* rename places a file, unstage() removes one, and the others show the    *)
(* daemon nothing new.                                                     *)
LEMMA StepImplements ==
  ASSUME IInv, [Next]_vars
  PROVE  [Directory!Next]_View
<1> USE DEF IInv
<1>1. ASSUME NEW t \in Threads, Rename(t) PROVE Directory!Next
  <2> DEFINE target == job[t].target
             e == dir[tmp[t]]
  <2>1. tmp[t] \in Temps /\ job[t] \in Jobs /\ target \in Targets
    BY <1>1, InsideHasName DEF Rename, Jobs
  <2>2. e \in Link \cup {x \in File : x.whole}
    BY <1>1 DEF Rename, EntryInv
  <2>3. PICK f \in Firmware :
          (e \in Link => f = e.link) /\ (e \in File => f = e.of)
    BY <2>2, LinkIsNoFile DEF Link, File
  <2>4. \A n \in Targets : dir'[n] = IF n = target THEN e ELSE dir[n]
    BY <1>1, <2>1, NamesApart DEF Rename, TypeOK
  <2>5. \A n \in Targets : Served(n)' = IF n = target THEN f ELSE Served(n)
    BY <2>2, <2>3, <2>4, LinkIsNoFile DEF Served
  <2>6. View' = [View EXCEPT ![target] = f]
    BY <2>1, <2>5 DEF View
  <2>7. QED
    BY <2>1, <2>6 DEF Directory!Next, Directory!Place, View
<1>2. ASSUME NEW t \in Threads, NEW n \in Targets, Unstage(t, n) PROVE Directory!Next
  <2>1. \A m \in Targets : dir'[m] = IF m = n THEN None ELSE dir[m]
    BY <1>2 DEF Unstage, TypeOK
  <2>2. \A m \in Targets : Served(m)' = IF m = n THEN None ELSE Served(m)
    BY <2>1, NoneIsNoEntry DEF Served
  <2>3. View' = [View EXCEPT ![n] = None]
    BY <2>2 DEF View
  <2>4. QED
    BY <2>3 DEF Directory!Next, Directory!Remove, View
<1>3. ASSUME NEW t \in Threads, CopyEnd(t) PROVE View' = View
  <2>1. \A n \in Targets : Served(n)' = Served(n)
    BY <1>3, CopyEndEntries, LinkIsNoFile DEF ServedIsWhole, Served
  <2>2. QED
    BY <2>1 DEF View
<1>4. ASSUME NEW t \in Threads, MakeTemp(t) \/ FreeName(t) \/ MakeLink(t) \/ CopyOpen(t) \/ GiveUp(t)
      PROVE  View' = View
  <2>1. \E x \in Temps : \E e : dir' = [dir EXCEPT ![x] = e]
    <3>1. CASE MakeTemp(t)
      BY <3>1 DEF MakeTemp
    <3>2. CASE FreeName(t) \/ MakeLink(t) \/ GiveUp(t)
      BY <3>2, InsideHasName DEF FreeName, MakeLink, GiveUp
    <3>3. CASE CopyOpen(t)
      <4>1. tmp[t] \in Temps /\ dir[tmp[t]] \notin Link
        BY <3>3, InsideHasName, LinkIsNoFile DEF CopyOpen, EntryInv
      <4>2. QED
        BY <3>3, <4>1 DEF CopyOpen
    <3>4. QED
      BY <1>4, <3>1, <3>2, <3>3
  <2>2. \A n \in Targets : dir'[n] = dir[n]
    BY <2>1, NamesApart DEF TypeOK
  <2>3. QED
    BY <2>2, ViewKept
<1>5. CASE dir' = dir
  BY <1>5, ViewKept
<1>6. QED
  BY <1>1, <1>2, <1>3, <1>4, <1>5 DEF Next, Step, vars, Stage, MakeTempFail,
     RemoveFirmware, InstallFirmware, Crash

LEMMA InitImplements == Init => Directory!Init
BY NoneIsNoEntry DEF Init, Directory!Init, Served

-----------------------------------------------------------------------------
(* Every variable keeps its shape, and a call has a temporary name exactly *)
(* at the steps that work on one, collisions or not.                       *)
THEOREM StagingTypeCorrect == Spec => []TypeOK
<1>1. Init => TypeOK
  BY InitEstablishes DEF IInv
<1>2. QED
  BY <1>1, TypeStep, PTL DEF Spec

LEMMA StagingInvariant == ~Collisions => (Spec => []IInv)
<1> SUFFICES ASSUME ~Collisions PROVE Spec => []IInv
  OBVIOUS
<1>1. IInv /\ [Next]_vars => IInv'
  BY StepKeeps
<1>2. QED
  BY <1>1, InitEstablishes, PTL DEF Spec

(* "Staging uses atomic tmp-then-rename to avoid serving partial files":   *)
(* with any number of callers, failures at every system call and crashes,  *)
(* what the daemon finds under a target is a link or a whole copy.         *)
THEOREM StagingServesWhole == ~Collisions => (Spec => []ServedIsWhole)
<1> SUFFICES ASSUME ~Collisions PROVE Spec => []ServedIsWhole
  OBVIOUS
<1>1. IInv => ServedIsWhole
  BY DEF IInv
<1>2. QED
  BY <1>1, StagingInvariant, PTL

(* Whichever way a call ends, fallback included, it leaves no temporary    *)
(* entry, unless the process dies.                                         *)
THEOREM StagingLeavesNothing == ~Collisions => (Spec => []NoLitter)
<1> SUFFICES ASSUME ~Collisions PROVE Spec => []NoLitter
  OBVIOUS
<1>1. IInv => NoLitter
  BY DEF IInv
<1>2. QED
  BY <1>1, StagingInvariant, PTL

(* The firmware is only read: the one way to write through a link is the   *)
(* collision of names that the run staging_names exhibits.                 *)
THEOREM StagingOnlyReads == ~Collisions => (Spec => []SourcesAreRead)
<1> SUFFICES ASSUME ~Collisions PROVE Spec => []SourcesAreRead
  OBVIOUS
<1>1. IInv => SourcesAreRead
  BY DEF IInv
<1>2. QED
  BY <1>1, StagingInvariant, PTL

(* stage() and unstage() are atomic for the daemon: they implement         *)
(* ServedDirectory, where a whole file gives way to another in one step.   *)
THEOREM StagingImplements == ~Collisions => (Spec => ImplementsDirectory)
<1> SUFFICES ASSUME ~Collisions PROVE Spec => ImplementsDirectory
  OBVIOUS
<1>1. IInv /\ [Next]_vars => [Directory!Next]_View
  BY StepImplements
<1>2. QED
  BY <1>1, InitImplements, StagingInvariant, PTL
     DEF Spec, ImplementsDirectory, Directory!Spec, View

(* A step that takes the entry of a target away is unstage()'s: every      *)
(* other entry removed is under a temporary name, and a rename brings the  *)
(* target an entry.                                                        *)
TakenAway(n) == dir[n] # None /\ dir'[n] = None

LEMMA OnlyUnstageTakes ==
    ASSUME TypeOK, [Next]_vars, NEW n \in Targets, TakenAway(n)
    PROVE  \E t \in Threads : Unstage(t, n)
<1>0. n \in DOMAIN dir /\ n \notin Temps /\ dir'[n] # dir[n]
  BY NamesApart DEF TypeOK, TakenAway
<1>1. ASSUME NEW t \in Threads,
             MakeTemp(t) \/ FreeName(t) \/ MakeLink(t) \/ CopyOpen(t) \/ GiveUp(t)
      PROVE  FALSE
  <2>1. PICK x \in Temps : \E e : dir' = [dir EXCEPT ![x] = e] \/ dir' = dir
    <3>1. CASE MakeTemp(t)
      BY <3>1 DEF MakeTemp
    <3>2. CASE FreeName(t) \/ MakeLink(t) \/ CopyOpen(t) \/ GiveUp(t)
      <4>1. tmp[t] \in Temps
        BY <3>2 DEF FreeName, MakeLink, CopyOpen, GiveUp, TypeOK
      <4>2. \E e : dir' = [dir EXCEPT ![tmp[t]] = e] \/ dir' = dir
        BY <3>2 DEF FreeName, MakeLink, CopyOpen, GiveUp
      <4>3. QED
        BY <4>1, <4>2
    <3>3. QED
      BY <1>1, <3>1, <3>2
  <2>2. QED
    BY <1>0, <2>1
<1>2. ASSUME NEW t \in Threads, CopyEnd(t) PROVE FALSE
  <2>1. \/ dir'[n] = dir[n]
        \/ dir[n] \in File /\ dir'[n] = [dir[n] EXCEPT !.whole = TRUE]
    BY <1>0, <1>2 DEF CopyEnd
  <2>2. dir[n] \in File => [dir[n] EXCEPT !.whole = TRUE] \in File
    BY DEF File
  <2>3. QED
    BY <1>0, <2>1, <2>2, NoneIsNoEntry DEF TakenAway
<1>3. ASSUME NEW t \in Threads, Rename(t) PROVE FALSE
  <2>1. /\ dir' = [dir EXCEPT ![job[t].target] = dir[tmp[t]], ![tmp[t]] = None]
        /\ dir[tmp[t]] # None /\ tmp[t] \in Temps
    BY <1>3 DEF Rename, TypeOK
  <2>2. dir'[n] = dir[n] \/ dir'[n] = dir[tmp[t]]
    BY <1>0, <2>1
  <2>3. QED
    BY <1>0, <2>1, <2>2 DEF TakenAway
<1>4. ASSUME NEW t \in Threads, NEW x \in Targets, Unstage(t, x) PROVE x = n
  BY <1>0, <1>4 DEF Unstage
<1>5. dir' # dir
  BY <1>0
<1>6. QED
  BY <1>1, <1>2, <1>3, <1>4, <1>5 DEF Next, Step, vars, Stage, MakeTempFail,
     RemoveFirmware, InstallFirmware, Crash

(* Staging a name anew never leaves the daemon a moment without it, also   *)
(* when two calls have chosen one temporary name (staging.py:147, 168,     *)
(* 186).                                                                   *)
THEOREM StagingNeverUnserves == Spec => NeverUnserved
<1>1. TypeOK /\ [Next]_vars =>
        [\A n \in Targets :
           dir[n] # None /\ dir'[n] = None => \E t \in Threads : Unstage(t, n)]_vars
  BY OnlyUnstageTakes DEF TakenAway
<1>2. QED
  BY <1>1, StagingTypeCorrect, PTL DEF Spec, NeverUnserved

=============================================================================
