------------------------------ MODULE FileStore ------------------------------
(***************************************************************************)
(* The stores that keep objects in JSON files and have no lock: the API    *)
(* keys of tftpos/auth.py and the secrets of tftpos/secrets.py, all in one *)
(* file, and the distros and hosts of tftpos/named_objects.py, one file    *)
(* each.                                                                   *)
(*                                                                         *)
(* A call reads the file (Read), changes its own copy, truncates the file  *)
(* (Open) and writes all of the copy (Write).  Adding a named object reads *)
(* nothing, and deleting one unlinks its file.                             *)
(***************************************************************************)
EXTENDS FiniteSets

CONSTANTS
    Threads,   \* callers
    Keys,      \* objects
    Values,    \* what an object can be: a key enabled or revoked, a text
    FileOf,    \* the file each object is kept in
    Own,       \* the files of NamedObjectStore, of one object each
    None,      \* no object, no call
    Torn       \* a file that cannot be parsed

Files == {FileOf[k] : k \in Keys}
KeysOf(f) == {k \in Keys : FileOf[k] = f}
Content(f) == [KeysOf(f) -> Values \cup {None}]
Copy == UNION {Content(f) : f \in Files}

(* "add" is add_distro() or add_host(), "put" every other change of an     *)
(* object, "touch" validate(), which writes last_used_at.                  *)
Calls == [op : {"add", "put", "touch", "delete"}, key : Keys, value : Values]

(* What the constants have to be. *)
StoreAssumption ==
    /\ Own \subseteq Files
    /\ \A k, l \in Keys : FileOf[k] = FileOf[l] /\ FileOf[k] \in Own => k = l
    /\ None \notin Values \cup Calls \cup Copy
    /\ Torn \notin Values \cup Copy \cup {None}

VARIABLES
    disk,     \* the files; one that does not exist holds no object
    pc,       \* what each thread does next
    call,     \* its call, or None
    copy,     \* what it has read and changed, or None
    (* History variables: *)
    kept,     \* the objects as the calls that have returned left them, or
              \* Torn: two calls have worked on the file at once, or one has
              \* left it truncated, and none has rewritten it alone since
    crossed   \* threads whose call has met another on its file

vars == <<disk, pc, call, copy, kept, crossed>>

TypeOK ==
    /\ disk \in [Files -> Copy \cup {Torn}]
    /\ \A f \in Files : disk[f] = Torn \/ disk[f] \in Content(f)
    /\ pc \in [Threads -> {"idle", "read", "open", "write"}]
    /\ call \in [Threads -> Calls \cup {None}]
    /\ \A t \in Threads : pc[t] = "idle" <=> call[t] = None
    /\ copy \in [Threads -> Copy \cup {None}]
    /\ \A t \in Threads : pc[t] \in {"open", "write"} <=> copy[t] # None
    /\ kept \in [Keys -> Values \cup {None, Torn}]
    /\ crossed \subseteq {t \in Threads : call[t] # None}

NoObjects(f) == [k \in KeysOf(f) |-> None]

Init ==
    /\ disk = [f \in Files |-> NoObjects(f)]
    /\ pc = [t \in Threads |-> "idle"]
    /\ call = [t \in Threads |-> None]
    /\ copy = [t \in Threads |-> None]
    /\ kept = [k \in Keys |-> None]
    /\ crossed = {}

-----------------------------------------------------------------------------
GoTo(t, step) == pc' = [pc EXCEPT ![t] = step]

Return(t) ==
    /\ GoTo(t, "idle")
    /\ call' = [call EXCEPT ![t] = None]
    /\ copy' = [copy EXCEPT ![t] = None]
    /\ crossed' = crossed \ {t}

Busy(f) == {u \in Threads : call[u] # None /\ FileOf[call[u].key] = f}

Doubt(files) == kept' = [k \in Keys |-> IF FileOf[k] \in files THEN Torn ELSE kept[k]]

Target(t) == FileOf[call[t].key]

(* A call begins; the calls each kind of store has. *)
Begin(t, c) ==
    LET f == FileOf[c.key]
    IN  /\ pc[t] = "idle"
        /\ c.op = "add" => f \in Own
        /\ c.op = "touch" => f \notin Own
        /\ c.op = "delete" => f \notin Own
        /\ call' = [call EXCEPT ![t] = c]
        /\ IF Busy(f) = {} THEN UNCHANGED <<kept, crossed>>
           ELSE crossed' = crossed \cup Busy(f) \cup {t} /\ Doubt({f})
        /\ IF c.op = "add"
           THEN /\ copy' = [copy EXCEPT ![t] = [k \in {c.key} |-> c.value]]
                /\ GoTo(t, "open")
           ELSE GoTo(t, "read") /\ UNCHANGED copy
        /\ UNCHANGED disk

(* A slip: only the object of the call is written. *)
ChangedAlone(c, objects) ==
    [k \in DOMAIN objects |->
       IF k # c.key THEN None
       ELSE CASE c.op = "put"    -> c.value
              [] c.op = "delete" -> None
              [] c.op = "touch"  -> objects[k]]

(* What the call makes of the objects it has read. *)
Changed(c, objects) ==
    [objects EXCEPT ![c.key] = CASE c.op = "put"    -> c.value
                                 [] c.op = "delete" -> None
                                 [] c.op = "touch"  -> @]

(* A put of an object that is not there is create_key() or set(), or a     *)
(* revoke() or an update that returns; a deletion or a validate() returns, *)
(* and so does the validate() of a key that is not enabled.                *)
Read(t) ==
    LET objects == disk[Target(t)]
        c == call[t]
    IN  /\ pc[t] = "read"
        /\ objects # Torn
        /\ \/ /\ objects[c.key] # None \/ (c.op = "put" /\ Target(t) \notin Own)
              /\ copy' = [copy EXCEPT ![t] = Changed(c, objects)]
              /\ GoTo(t, "open")
              /\ UNCHANGED <<call, crossed>>
           \/ (objects[c.key] = None \/ c.op = "touch") /\ Return(t)
        /\ UNCHANGED <<disk, kept>>

(* A file that cannot be parsed: JSONDecodeError. *)
ReadFails(t) ==
    /\ pc[t] = "read"
    /\ disk[Target(t)] = Torn
    /\ Return(t)
    /\ UNCHANGED <<disk, kept>>

Open(t) ==
    /\ pc[t] = "open"
    /\ disk' = [disk EXCEPT ![Target(t)] = Torn]
    /\ GoTo(t, "write")
    /\ UNCHANGED <<call, copy, kept, crossed>>

(* What a write can leave in the file: the copy; with another call at work *)
(* on the file, the two texts mingled, or nothing of it when that call has *)
(* unlinked the file that was opened.                                      *)
Written(t) ==
    LET f == Target(t)
        gone == f \in Own /\ disk[f] = NoObjects(f)
    IN  CASE t \notin crossed -> {copy[t]}
          [] t \in crossed /\ gone -> {disk[f]}
          [] t \in crossed /\ ~gone ->
               {copy[t], Torn} \cup (IF f \in Own THEN {disk[f]} ELSE {})

(* The last of the calls at work on a file makes it certain again.         *)
Write(t) ==
    LET f == Target(t)
    IN  /\ pc[t] = "write"
        /\ \E x \in Written(t) : disk' = [disk EXCEPT ![f] = x]
        /\ IF Busy(f) = {t} /\ disk'[f] # Torn
           THEN kept' = [k \in Keys |->
                          CASE FileOf[k] = f /\ kept[k] = Torn       -> disk'[f][k]
                            [] kept[k] # Torn /\ k = call[t].key     -> copy[t][k]
                            [] OTHER                                 -> kept[k]]
           ELSE UNCHANGED kept
        /\ Return(t)

(* The file cannot be opened, or not be written. *)
WriteFails(t) ==
    /\ pc[t] \in {"open", "write"}
    /\ Doubt(IF pc[t] = "write" THEN {Target(t)} ELSE {})
    /\ Return(t)
    /\ UNCHANGED disk

(* delete_distro(), delete_host(). *)
Unlink(t, k) ==
    LET f == FileOf[k]
    IN  /\ pc[t] = "idle"
        /\ f \in Own
        /\ disk[f] # NoObjects(f)
        /\ disk' = [disk EXCEPT ![f] = NoObjects(f)]
        /\ crossed' = crossed \cup Busy(f)
        /\ IF Busy(f) = {} THEN kept' = [kept EXCEPT ![k] = None] ELSE Doubt({f})
        /\ UNCHANGED <<pc, call, copy>>

(* The process dies. *)
Crash ==
    /\ \E t \in Threads : pc[t] # "idle"
    /\ pc' = [t \in Threads |-> "idle"]
    /\ call' = [t \in Threads |-> None]
    /\ copy' = [t \in Threads |-> None]
    /\ crossed' = {}
    /\ Doubt({Target(t) : t \in {u \in Threads : pc[u] = "write"}})
    /\ UNCHANGED disk

Next ==
    \/ \E t \in Threads :
         \/ \E c \in Calls : Begin(t, c)
         \/ Read(t)
         \/ ReadFails(t)
         \/ Open(t)
         \/ Write(t)
         \/ WriteFails(t)
         \/ \E k \in Keys : Unlink(t, k)
    \/ Crash

Spec == Init /\ [][Next]_vars

-----------------------------------------------------------------------------
(***************************************************************************)
(* Properties                                                              *)
(***************************************************************************)

(* What a call has stored stays until another call changes that object:    *)
(* calls for other objects rewrite the same file (a validate() does, to    *)
(* note the time), fail or are cut short, and calls on other files come    *)
(* between.  Only a file that two calls work on at once, or that a failed  *)
(* write left truncated, may lose it (secrets.py:82-91, auth.py:100-107).  *)
ChangesAreKept ==
    \A k \in Keys :
      LET f == FileOf[k]
      IN  kept[k] # Torn /\ Busy(f) = {} => disk[f] # Torn /\ disk[f][k] = kept[k]

=============================================================================
