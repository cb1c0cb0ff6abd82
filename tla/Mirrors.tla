------------------------------- MODULE Mirrors -------------------------------
(***************************************************************************)
(* RepoManager of tftpos/repo_mirror.py: the mirrors in memory, the file   *)
(* mirrors.json every change rewrites, and the directories of the mirrors. *)
(*                                                                         *)
(* One manager is used by several threads without a lock.  A call changes  *)
(* the dict first; _save() then makes the text from the dict (Snapshot),   *)
(* truncates the file (Open) and writes (Write).  A sync runs for long     *)
(* between its look into the dict and its change of the mirror, and a      *)
(* removal deletes the directory after it has saved.  Every mirror has the *)
(* directory of its name, as add_mirror() gives it when local_path is      *)
(* relative.                                                               *)
(***************************************************************************)
EXTENDS FiniteSets

CONSTANTS
    Threads,   \* callers of the manager
    Names,     \* names of mirrors
    None,      \* no call
    Torn       \* a file that cannot be parsed

Mirror == {"absent", "new", "synced"}   \* last_sync is None, or set
Listing == [Names -> Mirror]
Calls == [op : {"add", "remove", "sync"}, name : Names]

(* What the constants have to be. *)
MirrorsAssumption == Torn \notin Listing /\ None \notin Calls

VARIABLES
    mirrors,  \* self._mirrors
    saved,    \* what mirrors.json lists, or Torn when it cannot be parsed
    filled,   \* names whose directory holds what a sync has fetched
    pc,       \* what each thread does next
    call,     \* its call, or None
    snap,     \* the text its _save() is to write
    bound,    \* whether the mirror its sync works on is still the one listed
    (* History variables: *)
    trust,    \* how the last save ended: alone ("saved"), in a failure
              \* ("behind"), or while another save ran or failed ("mixed")
    mixed,    \* threads whose save has another running or failing beside it
    raced     \* names of a mirror that was removed while it was added or
              \* synced, or loaded from the file of a mixed save

vars == <<mirrors, saved, filled, pc, call, snap, bound, trust, mixed, raced>>

Empty == [n \in Names |-> "absent"]
Steps == {"idle", "add", "sync", "save", "open", "write", "rmtree"}
Saving == {t \in Threads : pc[t] \in {"open", "write"}}

TypeOK ==
    /\ mirrors \in Listing
    /\ saved \in Listing \cup {Torn}
    /\ filled \subseteq Names
    /\ pc \in [Threads -> Steps]
    /\ call \in [Threads -> Calls \cup {None}]
    /\ \A t \in Threads : pc[t] = "idle" <=> call[t] = None
    /\ snap \in [Threads -> Listing]
    /\ bound \in [Threads -> BOOLEAN]
    /\ trust \in {"saved", "behind", "mixed"}
    /\ mixed \subseteq Threads
    /\ raced \subseteq Names

Init ==
    /\ mirrors = Empty
    /\ saved = Empty
    /\ filled = {}
    /\ pc = [t \in Threads |-> "idle"]
    /\ call = [t \in Threads |-> None]
    /\ snap = [t \in Threads |-> Empty]
    /\ bound = [t \in Threads |-> FALSE]
    /\ trust = "saved"
    /\ mixed = {}
    /\ raced = {}

-----------------------------------------------------------------------------
GoTo(t, step) == pc' = [pc EXCEPT ![t] = step]

Begin(t, op, n, step) ==
    /\ pc[t] = "idle"
    /\ call' = [call EXCEPT ![t] = [op |-> op, name |-> n]]
    /\ GoTo(t, step)
    /\ raced' = IF \E u \in Threads : /\ call[u] # None
                                      /\ call[u].name = n
                                      /\ "remove" \in {op, call[u].op}
                THEN raced \cup {n} ELSE raced

Return(t) ==
    /\ GoTo(t, "idle")
    /\ call' = [call EXCEPT ![t] = None]

(* The dict gets another mirror of that name, or none: a sync under way    *)
(* keeps the one it has looked up.                                         *)
Unbound(n) == [u \in Threads |-> bound[u] /\ call[u].name # n]

(* add_mirror(): an existing name is refused; the paths are resolved       *)
(* between the test and the assignment.                                    *)
Add(t, n) ==
    /\ mirrors[n] = "absent"
    /\ Begin(t, "add", n, "add")
    /\ UNCHANGED <<mirrors, saved, filled, snap, bound, trust, mixed>>

AddBind(t) ==
    /\ pc[t] = "add"
    /\ mirrors' = [mirrors EXCEPT ![call[t].name] = "new"]
    /\ bound' = Unbound(call[t].name)
    /\ GoTo(t, "save")
    /\ UNCHANGED <<saved, filled, call, snap, trust, mixed, raced>>

(* A slip: the directory goes before the list is saved. *)
RemoveTreeFirst(t, n) ==
    /\ mirrors[n] # "absent"
    /\ Begin(t, "remove", n, "save")
    /\ mirrors' = [mirrors EXCEPT ![n] = "absent"]
    /\ bound' = Unbound(n)
    /\ filled' = filled \ {n}
    /\ UNCHANGED <<saved, snap, trust, mixed>>

(* remove_mirror() up to its save. *)
Remove(t, n) ==
    /\ mirrors[n] # "absent"
    /\ Begin(t, "remove", n, "save")
    /\ mirrors' = [mirrors EXCEPT ![n] = "absent"]
    /\ bound' = Unbound(n)
    /\ UNCHANGED <<saved, filled, snap, trust, mixed>>

(* shutil.rmtree(ignore_errors=True): something may be left. *)
RemoveTree(t) ==
    /\ pc[t] = "rmtree"
    /\ filled' \in {filled, filled \ {call[t].name}}
    /\ Return(t)
    /\ UNCHANGED <<mirrors, saved, snap, bound, trust, mixed, raced>>

(* sync_mirror(): the mirror is looked up, rsync or wget runs. *)
Sync(t, n) ==
    /\ mirrors[n] # "absent"
    /\ Begin(t, "sync", n, "sync")
    /\ bound' = [bound EXCEPT ![t] = TRUE]
    /\ UNCHANGED <<mirrors, saved, filled, snap, trust, mixed>>

(* A slip: last_sync is not saved. *)
SyncEndUnsaved(t) ==
    LET n == call[t].name
    IN  /\ pc[t] = "sync"
        /\ filled' = filled \cup {n}
        /\ mirrors' = IF bound[t] THEN [mirrors EXCEPT ![n] = "synced"] ELSE mirrors
        /\ bound' = [bound EXCEPT ![t] = FALSE]
        /\ Return(t)
        /\ UNCHANGED <<saved, snap, trust, mixed, raced>>

(* It has ended well: last_sync is set on the mirror that was looked up.   *)
SyncEnd(t) ==
    LET n == call[t].name
    IN  /\ pc[t] = "sync"
        /\ filled' = filled \cup {n}
        /\ mirrors' = IF bound[t] THEN [mirrors EXCEPT ![n] = "synced"] ELSE mirrors
        /\ bound' = [bound EXCEPT ![t] = FALSE]
        /\ GoTo(t, "save")
        /\ UNCHANGED <<saved, call, snap, trust, mixed, raced>>

(* It has failed, which leaves a directory filled before as the tool left  *)
(* it.                                                                     *)
SyncFails(t) ==
    /\ pc[t] = "sync"
    /\ bound' = [bound EXCEPT ![t] = FALSE]
    /\ Return(t)
    /\ UNCHANGED <<mirrors, saved, filled, snap, trust, mixed, raced>>

-----------------------------------------------------------------------------
(* _save() *)
Snapshot(t) ==
    /\ pc[t] = "save"
    /\ snap' = [snap EXCEPT ![t] = mirrors]
    /\ mixed' = IF Saving # {} THEN Saving \cup {t} ELSE {}
    /\ GoTo(t, "open")
    /\ UNCHANGED <<mirrors, saved, filled, call, bound, trust, raced>>

Open(t) ==
    /\ pc[t] = "open"
    /\ saved' = Torn
    /\ GoTo(t, "write")
    /\ UNCHANGED <<mirrors, filled, call, snap, bound, trust, mixed, raced>>

(* With another save's text in the file the two may be mingled.  A removal *)
(* goes on with the directory.                                             *)
Write(t) ==
    /\ pc[t] = "write"
    /\ saved' \in {snap[t]} \cup (IF t \in mixed THEN {Torn} ELSE {})
    /\ snap' = [snap EXCEPT ![t] = Empty]
    /\ mixed' = mixed \ {t}
    /\ trust' = IF t \in mixed THEN "mixed" ELSE "saved"
    /\ IF call[t].op = "remove" THEN GoTo(t, "rmtree") /\ UNCHANGED call ELSE Return(t)
    /\ UNCHANGED <<mirrors, filled, bound, raced>>

(* The dict has changed size while it was listed, or the disk is full: the *)
(* error ends the call, and the dict keeps the change.                     *)
SaveFail(t) ==
    /\ pc[t] \in {"save", "open", "write"}
    /\ snap' = [snap EXCEPT ![t] = Empty]
    /\ mixed' = Saving \ {t}
    /\ trust' = IF trust = "mixed" \/ t \in mixed THEN "mixed" ELSE "behind"
    /\ Return(t)
    /\ UNCHANGED <<mirrors, saved, filled, bound, raced>>

(* The process dies; __init__() loads the file, _load() takes one that     *)
(* cannot be parsed for an empty one.                                      *)
Loaded(file) == IF file = Torn THEN Empty ELSE file

Restart ==
    /\ mirrors' = Loaded(saved)
    /\ pc' = [t \in Threads |-> "idle"]
    /\ call' = [t \in Threads |-> None]
    /\ snap' = [t \in Threads |-> Empty]
    /\ bound' = [t \in Threads |-> FALSE]
    /\ trust' = "saved"
    /\ mixed' = {}
    /\ raced' = IF trust = "mixed" \/ mixed # {} THEN Names ELSE raced
    /\ UNCHANGED <<saved, filled>>

Next ==
    \/ \E t \in Threads :
         \/ \E n \in Names : Add(t, n) \/ Remove(t, n) \/ Sync(t, n)
         \/ AddBind(t)
         \/ SyncEnd(t)
         \/ SyncFails(t)
         \/ Snapshot(t)
         \/ Open(t)
         \/ Write(t)
         \/ SaveFail(t)
         \/ RemoveTree(t)
    \/ Restart

Spec == Init /\ [][Next]_vars

-----------------------------------------------------------------------------
(***************************************************************************)
(* Properties                                                              *)
(***************************************************************************)

(* "Mirror metadata is persisted in data_dir/mirrors.json"                 *)
(* (repo_mirror.py:89): when no call has still to save and the last save   *)
(* went through alone, a restart would find the mirrors there are, however *)
(* the changes of several calls came between each other's saves.           *)
FileIsMemory ==
    trust = "saved" /\ (\A t \in Threads : pc[t] \notin {"save", "open", "write"})
      => Loaded(saved) = mirrors

(* A mirror that says when it was synced has what the sync has fetched:    *)
(* through failing saves, crashes and restarts remove_mirror() never       *)
(* leaves such an entry without its directory, for it saves first          *)
(* (repo_mirror.py:140-145).  Not so when it was removed while a call was  *)
(* adding or syncing it.                                                   *)
SyncedIsThere == \A n \in Names \ raced : mirrors[n] = "synced" => n \in filled

=============================================================================
