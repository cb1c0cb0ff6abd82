---------------------------- MODULE SeparateParts ----------------------------
(***************************************************************************)
(* The parts of the program that work beside the provisioning core and     *)
(* share nothing with it or with each other but the threads that call      *)
(* them: the keys, secrets and named objects of FileStore, the mirrors of  *)
(* Mirrors, the images of CloudImages, the certificates of TlsFiles, the   *)
(* audit log of AuditLog, the console of ConsoleProxy and the detection    *)
(* of IsoDetect.                                                           *)
(*                                                                         *)
(* What each can do it can do while the others rest, so a behaviour uses   *)
(* one of them: used says which.                                           *)
(***************************************************************************)
CONSTANTS
    Threads, None, Torn, Absent, Raised,
    Keys, Values, FileOf, Own,
    Names,
    Images, Filenames, Sources, Remote, Part,
    MaxGenerations,
    Kinds, BufferSize, MaxEntries, MaxLoggers,
    MaxConnections

VARIABLES
    used,                                             \* the part in use
    pc, call,                                         \* what the threads do
    disk, copy, kept, crossed,                        \* of FileStore
    mirrors, saved, filled, snap, bound, trust, mixed, raced,  \* of Mirrors
    present, file, meta, size, excused,               \* of CloudImages
    key, cert, generation, crossing, sound,           \* of TlsFiles
    current, buffers, made, returned, replaced,       \* of AuditLog
    writer, reader, link, taken,                      \* of ConsoleProxy
    medium, asked, answer                             \* of IsoDetect

F == INSTANCE FileStore
M == INSTANCE Mirrors
C == INSTANCE CloudImages
T == INSTANCE TlsFiles WITH made <- generation, trust <- sound
A == INSTANCE AuditLog
P == INSTANCE ConsoleProxy WITH crossed <- taken
I == INSTANCE IsoDetect

threadVars == <<pc, call>>
fileVars == <<disk, copy, kept, crossed>>
mirrorVars == <<mirrors, saved, filled, snap, bound, trust, mixed, raced>>
imageVars == <<present, file, meta, size, excused>>
tlsVars == <<key, cert, generation, crossing, sound>>
auditVars == <<current, buffers, made, returned, replaced>>
consoleVars == <<writer, reader, link, taken>>
isoVars == <<medium, asked, answer>>
vars == <<used, threadVars, fileVars, mirrorVars, imageVars, tlsVars, auditVars,
          consoleVars, isoVars>>

ASSUME PartsAssumption ==
    /\ F!StoreAssumption /\ M!MirrorsAssumption /\ C!ImagesAssumption
    /\ T!TlsAssumption /\ A!AuditAssumption /\ P!ConsoleAssumption
    /\ I!IsoAssumption

TypeOK ==
    CASE used = "files"   -> F!TypeOK
      [] used = "mirrors" -> M!TypeOK
      [] used = "images"  -> C!TypeOK
      [] used = "tls"     -> T!TypeOK
      [] used = "audit"   -> A!TypeOK
      [] used = "console" -> P!TypeOK
      [] used = "iso"     -> I!TypeOK

Init ==
    /\ used \in {"files", "mirrors", "images", "tls", "audit", "console", "iso"}
    /\ F!Init /\ M!Init /\ C!Init /\ T!Init /\ A!Init /\ P!Init /\ I!Init

Next ==
    /\ UNCHANGED used
    /\ \/ /\ used = "files" /\ F!Next
          /\ UNCHANGED <<mirrorVars, imageVars, tlsVars, auditVars, consoleVars, isoVars>>
       \/ /\ used = "mirrors" /\ M!Next
          /\ UNCHANGED <<fileVars, imageVars, tlsVars, auditVars, consoleVars, isoVars>>
       \/ /\ used = "images" /\ C!Next
          /\ UNCHANGED <<fileVars, mirrorVars, tlsVars, auditVars, consoleVars, isoVars>>
       \/ /\ used = "tls" /\ T!Next
          /\ UNCHANGED <<fileVars, mirrorVars, imageVars, auditVars, consoleVars, isoVars>>
       \/ /\ used = "audit" /\ A!Next
          /\ UNCHANGED <<fileVars, mirrorVars, imageVars, tlsVars, consoleVars, isoVars>>
       \/ /\ used = "console" /\ P!Next
          /\ UNCHANGED <<fileVars, mirrorVars, imageVars, tlsVars, auditVars, isoVars>>
       \/ /\ used = "iso" /\ I!Next
          /\ UNCHANGED <<threadVars, fileVars, mirrorVars, imageVars, tlsVars, auditVars,
                         consoleVars>>

Spec == Init /\ [][Next]_vars

-----------------------------------------------------------------------------
(***************************************************************************)
(* Properties                                                              *)
(***************************************************************************)

(* A key, a secret or a named object that a call has stored stays as it is *)
(* until another call changes it (secrets.py:82-91, auth.py:100-107).      *)
ChangesAreKept == used = "files" => F!ChangesAreKept

(* What mirrors.json would load is what the manager has in memory, after a *)
(* save that no other one met (repo_mirror.py:89).                         *)
FileIsMemory == used = "mirrors" => M!FileIsMemory

(* A mirror with a last_sync has its files (repo_mirror.py:140-145).       *)
SyncedIsThere == used = "mirrors" => M!SyncedIsThere

(* An image with metadata has its file, as its source delivered it         *)
(* (cloud_image.py:132-158).                                               *)
ListedIsDelivered == used = "images" => C!ListedIsDelivered

(* The key and the certificate a call returns belong together              *)
(* (tls.py:114-126, 184-188).                                              *)
PairMatches == used = "tls" => T!PairMatches

(* query() has what was logged before it, newest first (audit.py:315-338). *)
AnswerIsRight == used = "audit" => A!AnswerIsRight

(* No open connection is out of the reach of close() (console.py:113-122). *)
ConnectionIsOwned == used = "console" => P!ConnectionIsOwned

(* No medium is taken for another system's, and one that tells what it is  *)
(* is recognised unless its treeinfo raises (iso_detect.py:59-80).         *)
DetectionIsRight == used = "iso" => I!DetectionIsRight

=============================================================================
