----------------------------- MODULE CloudImages -----------------------------
(***************************************************************************)
(* import_cloud_image(), delete_image() and list_images() of               *)
(* tftpos/cloud_image.py: a directory for each image, with the image file  *)
(* and image.json, which names the file and its size.                      *)
(*                                                                         *)
(* An import writes the file in place, then the metadata; each of its      *)
(* steps may fail, and leaves what there is.  A deletion finds the image   *)
(* by its metadata and removes one entry after another.  The length of a   *)
(* file stands for its contents: what a source has delivered -- less than  *)
(* it holds when the server closes a download's connection early, which no *)
(* code notices -- or Part, what is there while a copy goes on.            *)
(***************************************************************************)
EXTENDS FiniteSets

CONSTANTS
    Threads,    \* callers
    Images,     \* {vendor}-{version}-{arch}
    Filenames,  \* names of image files, as the sources give them
    Sources,    \* what sources hold
    Remote,     \* those that are URLs
    Part,       \* a copy that is not finished
    Torn,       \* metadata that cannot be parsed
    None        \* no file, no metadata, no call

(* What a finished copy of source s is: all of it or, from a URL, what the *)
(* peer sent before it closed the connection.  copyfileobj() reads until   *)
(* nothing comes, and nobody compares that with a length.                  *)
DeliveredBy(s) == {s} \cup (IF s \in Remote THEN {[short |-> s]} ELSE {})

Delivered == UNION {DeliveredBy(s) : s \in Sources}

Metadata == [filename : Filenames, size_bytes : Delivered \cup {Part}]
Imports == [op : {"import"}, image : Images, filename : Filenames, source : Sources]
Deletions == [op : {"delete"}, image : Images]

(* What the constants have to be. *)
ImagesAssumption ==
    /\ Remote \subseteq Sources
    /\ Part \notin Delivered \cup {None}
    /\ None \notin Delivered \cup Metadata \cup Imports \cup Deletions
    /\ Torn \notin Metadata \cup {None}

VARIABLES
    present,  \* the images that have a directory
    file,     \* the files in it
    meta,     \* its image.json
    pc,       \* what each thread does next
    call,     \* its call, or None
    size,     \* what stat() has told an import
    excused   \* history variable: why an image may not be what its metadata
              \* says: two calls "crossed", its file is "rewritten" by another
              \* import, a deletion is not "complete"

vars == <<present, file, meta, pc, call, size, excused>>

Steps == {"idle", "open", "copy", "stat", "meta", "write", "rmtree"}

TypeOK ==
    /\ present \subseteq Images
    /\ file \in [Images -> [Filenames -> Delivered \cup {Part, None}]]
    /\ meta \in [Images -> Metadata \cup {Torn, None}]
    /\ \A i \in Images \ present :
         meta[i] = None /\ \A f \in Filenames : file[i][f] = None
    /\ pc \in [Threads -> Steps]
    /\ call \in [Threads -> Imports \cup Deletions \cup {None}]
    /\ \A t \in Threads : pc[t] = "idle" <=> call[t] = None
    /\ size \in [Threads -> Delivered \cup {Part, None}]
    /\ \A t \in Threads : pc[t] \in {"meta", "write"} <=> size[t] # None
    /\ excused \in [Images -> SUBSET {"crossed", "rewritten", "incomplete"}]

Init ==
    /\ present = {}
    /\ file = [i \in Images |-> [f \in Filenames |-> None]]
    /\ meta = [i \in Images |-> None]
    /\ pc = [t \in Threads |-> "idle"]
    /\ call = [t \in Threads |-> None]
    /\ size = [t \in Threads |-> None]
    /\ excused = [i \in Images |-> {}]

-----------------------------------------------------------------------------
GoTo(t, step) == pc' = [pc EXCEPT ![t] = step]

Return(t) ==
    /\ GoTo(t, "idle")
    /\ call' = [call EXCEPT ![t] = None]
    /\ size' = [size EXCEPT ![t] = None]

Excuse(i, why) == excused' = [excused EXCEPT ![i] = @ \cup why]

Crossing(i) ==
    IF \E u \in Threads : call[u] # None /\ call[u].image = i THEN {"crossed"} ELSE {}

(* A copy or a text that another call writes beside it may be mingled. *)
Mingled(i, written, broken) ==
    written \cup (IF "crossed" \in excused[i] THEN {broken} ELSE {})

(* import_cloud_image(): the directory is made.  A local source that does  *)
(* not exist ends the call here.                                           *)
Import(t, c) ==
    /\ pc[t] = "idle"
    /\ present' = present \cup {c.image}
    /\ call' = [call EXCEPT ![t] = c]
    /\ GoTo(t, "open")
    /\ Excuse(c.image, Crossing(c.image))
    /\ UNCHANGED <<file, meta, size>>

(* _download_file() or copy2(): the file is truncated or made ... *)
Open(t) ==
    LET i == call[t].image
        f == call[t].filename
    IN  /\ pc[t] = "open"
        /\ i \in present
        /\ file' = [file EXCEPT ![i][f] = Part]
        /\ Excuse(i, IF meta[i] \in Metadata /\ meta[i].filename = f THEN {"rewritten"} ELSE {})
        /\ GoTo(t, "copy")
        /\ UNCHANGED <<present, meta, call, size>>

(* ... and filled, unless it has been deleted under the writer's hands. *)
Copy(t) ==
    LET i == call[t].image
        f == call[t].filename
    IN  /\ pc[t] = "copy"
        /\ IF file[i][f] = None THEN UNCHANGED file
           ELSE \E x \in Mingled(i, DeliveredBy(call[t].source), Part) :
                  file' = [file EXCEPT ![i][f] = x]
        /\ GoTo(t, "stat")
        /\ UNCHANGED <<present, meta, call, size, excused>>

(* dest_file.stat(), which raises when there is no file. *)
Stat(t) ==
    LET found == file[call[t].image][call[t].filename]
    IN  /\ pc[t] = "stat"
        /\ found # None
        /\ size' = [size EXCEPT ![t] = found]
        /\ GoTo(t, "meta")
        /\ UNCHANGED <<present, file, meta, call, excused>>

(* _save_metadata(): write_text() truncates, then writes. *)
SaveOpen(t) ==
    /\ pc[t] = "meta"
    /\ call[t].image \in present
    /\ meta' = [meta EXCEPT ![call[t].image] = Torn]
    /\ GoTo(t, "write")
    /\ UNCHANGED <<present, file, call, size, excused>>

SaveWrite(t) ==
    LET i == call[t].image
        saved == [filename |-> call[t].filename, size_bytes |-> size[t]]
    IN  /\ pc[t] = "write"
        /\ IF meta[i] = None THEN UNCHANGED meta
           ELSE \E x \in Mingled(i, {saved}, Torn) : meta' = [meta EXCEPT ![i] = x]
        /\ excused' = [excused EXCEPT ![i] = @ \cap {"crossed"}]
        /\ Return(t)
        /\ UNCHANGED <<present, file>>

(* A slip: an error of the transfer does not end the import. *)
ImportFailsLate(t) ==
    /\ pc[t] \in {"open", "copy", "stat", "meta", "write"}
    /\ IF pc[t] = "copy" THEN GoTo(t, "stat") /\ UNCHANGED <<call, size>> ELSE Return(t)
    /\ UNCHANGED <<present, file, meta, excused>>

(* Any step of an import may raise; nothing is undone. *)
ImportFails(t) ==
    /\ pc[t] \in {"open", "copy", "stat", "meta", "write"}
    /\ Return(t)
    /\ UNCHANGED <<present, file, meta, excused>>

(* delete_image(): an image without metadata that can be parsed is not     *)
(* found.                                                                  *)
Delete(t, i) ==
    /\ pc[t] = "idle"
    /\ meta[i] \in Metadata
    /\ call' = [call EXCEPT ![t] = [op |-> "delete", image |-> i]]
    /\ GoTo(t, "rmtree")
    /\ Excuse(i, Crossing(i) \cup {"incomplete"})
    /\ UNCHANGED <<present, file, meta, size>>

(* shutil.rmtree(), in the order the directory lists its entries. *)
RemoveEntry(t) ==
    LET i == call[t].image
    IN  /\ pc[t] = "rmtree"
        /\ \/ /\ meta[i] # None
              /\ meta' = [meta EXCEPT ![i] = None]
              /\ UNCHANGED file
           \/ \E f \in Filenames :
                /\ file[i][f] # None
                /\ file' = [file EXCEPT ![i][f] = None]
                /\ UNCHANGED meta
        /\ UNCHANGED <<present, pc, call, size, excused>>

RemoveDirectory(t) ==
    LET i == call[t].image
    IN  /\ pc[t] = "rmtree"
        /\ meta[i] = None
        /\ \A f \in Filenames : file[i][f] = None
        /\ present' = present \ {i}
        /\ excused' = [excused EXCEPT ![i] = @ \cap {"crossed"}]
        /\ Return(t)
        /\ UNCHANGED <<file, meta>>

(* An entry cannot be removed, or is gone already. *)
DeleteFails(t) ==
    /\ pc[t] = "rmtree"
    /\ Return(t)
    /\ UNCHANGED <<present, file, meta, excused>>

(* The process dies. *)
Crash ==
    /\ \E t \in Threads : pc[t] # "idle"
    /\ pc' = [t \in Threads |-> "idle"]
    /\ call' = [t \in Threads |-> None]
    /\ size' = [t \in Threads |-> None]
    /\ UNCHANGED <<present, file, meta, excused>>

Next ==
    \/ \E t \in Threads :
         \/ \E c \in Imports : Import(t, c)
         \/ Open(t)
         \/ Copy(t)
         \/ Stat(t)
         \/ SaveOpen(t)
         \/ SaveWrite(t)
         \/ ImportFails(t)
         \/ \E i \in Images : Delete(t, i)
         \/ RemoveEntry(t)
         \/ RemoveDirectory(t)
         \/ DeleteFails(t)
    \/ Crash

Spec == Init /\ [][Next]_vars

-----------------------------------------------------------------------------
(***************************************************************************)
(* Properties                                                              *)
(***************************************************************************)

(* An image that list_images() shows has its file, as its source has      *)
(* delivered it and of the size the metadata says: whatever step of an     *)
(* import fails, and wherever the process dies, the metadata is written    *)
(* last (cloud_image.py:132-158).  A download that the server ends early   *)
(* is no failure to the code, and is listed with the size it came to.      *)
(* Two things break the property, and only until the next import is        *)
(* through: an import that reuses the file name overwrites the file under  *)
(* the old metadata, and a deletion cut short may leave them behind.       *)
ListedIsDelivered ==
    \A i \in Images :
      excused[i] = {} /\ meta[i] \in Metadata
        => /\ file[i][meta[i].filename] = meta[i].size_bytes
           /\ meta[i].size_bytes \in Delivered

=============================================================================
