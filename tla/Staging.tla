------------------------------- MODULE Staging -------------------------------
(***************************************************************************)
(* stage() and unstage() of tftpos/staging.py: firmware placed in the      *)
(* directory an external TFTP daemon serves, by several callers at once.   *)
(*                                                                         *)
(* A call works on a temporary name of the directory and renames it over   *)
(* its target.  A symbolic link cannot be made over the file mkstemp()     *)
(* created, so the name is freed first (FreeName) and taken again by the   *)
(* link (MakeLink); when that fails the call falls back to a copy under    *)
(* another name.  copy2() opens the name (CopyOpen), and the bytes follow  *)
(* (CopyEnd).  Each system call is one step; a call may fail at each, and  *)
(* the process may die between any two.                                    *)
(***************************************************************************)
EXTENDS Naturals, FiniteSets

CONSTANTS
    Threads,    \* callers of stage() and unstage()
    Firmware,   \* firmware files, outside the directory
    Targets,    \* names the daemon serves
    Temps,      \* the names mkstemp() can choose
    Collisions, \* whether mkstemp() may choose a name another call has freed
    None        \* no entry, no name

(* An entry of the directory: a link to a firmware file, or a file that    *)
(* holds a copy of one, the whole of it or not, and who wrote it.          *)
Link == [link: Firmware]
File == [of: Firmware, whole: BOOLEAN, by: Threads]

(* The arguments of stage(). *)
Jobs == [of: Firmware, target: Targets, symlink: BOOLEAN]

ASSUME StagingAssumption ==
    /\ Targets \cap Temps = {}
    /\ Collisions \in BOOLEAN
    /\ None \notin Link \cup File
    /\ None \notin Temps \cup Jobs

VARIABLES
    dir,      \* the directory
    source,   \* what has become of the firmware files
    pc,       \* what each thread does next
    job,      \* the arguments of each call of stage()
    tmp,      \* tmp_name of each thread, or None
    crashed   \* history variable: the process died in the middle of a call

vars == <<dir, source, pc, job, tmp, crashed>>

Steps == {"idle", "link-name", "free", "link", "copy-name", "open", "copy", "rename"}

TypeOK ==
    /\ dir \in [Targets \cup Temps -> Link \cup File \cup {None}]
    /\ source \in [Firmware -> {"intact", "overwritten", "gone"}]
    /\ pc \in [Threads -> Steps]
    /\ job \in [Threads -> Jobs \cup {None}]
    /\ \A t \in Threads : pc[t] = "idle" <=> job[t] = None
    /\ tmp \in [Threads -> Temps \cup {None}]
    /\ \A t \in Threads : pc[t] \in {"idle", "link-name", "copy-name"} <=> tmp[t] = None
    /\ crashed \in BOOLEAN

Init ==
    /\ dir = [n \in Targets \cup Temps |-> None]
    /\ source = [f \in Firmware |-> "intact"]
    /\ pc = [t \in Threads |-> "idle"]
    /\ job = [t \in Threads |-> None]
    /\ tmp = [t \in Threads |-> None]
    /\ crashed = FALSE

-----------------------------------------------------------------------------
GoTo(t, step) == pc' = [pc EXCEPT ![t] = step] /\ UNCHANGED <<job, crashed>>

Return(t) ==
    /\ pc' = [pc EXCEPT ![t] = "idle"]
    /\ job' = [job EXCEPT ![t] = None]
    /\ tmp' = [tmp EXCEPT ![t] = None]
    /\ UNCHANGED crashed

(* stage(): refused when the firmware is missing; an existing target is    *)
(* not looked at.                                                          *)
Stage(t, j) ==
    /\ pc[t] = "idle"
    /\ source[j.of] # "gone"
    /\ pc' = [pc EXCEPT ![t] = IF j.symlink THEN "link-name" ELSE "copy-name"]
    /\ job' = [job EXCEPT ![t] = j]
    /\ UNCHANGED <<dir, source, tmp, crashed>>

(* mkstemp() creates a file under a name the directory does not have.      *)
MakeTemp(t) ==
    /\ pc[t] \in {"link-name", "copy-name"}
    /\ \E n \in Temps :
         /\ dir[n] = None
         /\ Collisions \/ \A u \in Threads : tmp[u] # n
         /\ dir' = [dir EXCEPT ![n] = [of |-> job[t].of, whole |-> FALSE, by |-> t]]
         /\ tmp' = [tmp EXCEPT ![t] = n]
    /\ GoTo(t, IF pc[t] = "link-name" THEN "free" ELSE "open")
    /\ UNCHANGED source

(* It fails (a full or read-only disk): the link falls back to a copy,     *)
(* whose failure is the caller's.                                          *)
MakeTempFail(t) ==
    /\ pc[t] \in {"link-name", "copy-name"}
    /\ IF pc[t] = "link-name" THEN GoTo(t, "copy-name") /\ UNCHANGED tmp ELSE Return(t)
    /\ UNCHANGED <<dir, source>>

(* os.unlink(tmp_name): "need the name free for symlink".  When another    *)
(* call has removed it already, the error leads to the copy.               *)
FreeName(t) ==
    /\ pc[t] = "free"
    /\ dir' = [dir EXCEPT ![tmp[t]] = None]
    /\ IF dir[tmp[t]] # None
       THEN GoTo(t, "link") /\ UNCHANGED tmp
       ELSE GoTo(t, "copy-name") /\ tmp' = [tmp EXCEPT ![t] = None]
    /\ UNCHANGED source

(* A slip: the link is made under the name that is served. *)
MakeLinkInPlace(t) ==
    /\ pc[t] = "link"
    /\ dir[tmp[t]] = None
    /\ dir' = [dir EXCEPT ![job[t].target] = None, ![tmp[t]] = [link |-> job[t].of]]
    /\ GoTo(t, "rename")
    /\ UNCHANGED <<source, tmp>>

MakeLink(t) ==
    /\ pc[t] = "link"
    /\ dir[tmp[t]] = None
    /\ dir' = [dir EXCEPT ![tmp[t]] = [link |-> job[t].of]]
    /\ GoTo(t, "rename")
    /\ UNCHANGED <<source, tmp>>

(* copy2() opens the firmware, then the temporary name: the file it finds  *)
(* there is truncated, a link is followed, and a missing file is created.  *)
CopyOpen(t) ==
    /\ pc[t] = "open"
    /\ source[job[t].of] # "gone"
    /\ dir[tmp[t]] # [link |-> job[t].of]
    /\ IF dir[tmp[t]] \in Link
       THEN /\ source' = [source EXCEPT ![dir[tmp[t]].link] = "overwritten"]
            /\ UNCHANGED dir
       ELSE /\ dir' = [dir EXCEPT ![tmp[t]] = [of |-> job[t].of, whole |-> FALSE, by |-> t]]
            /\ UNCHANGED source
    /\ GoTo(t, "copy")
    /\ UNCHANGED tmp

CopyEnd(t) ==
    /\ pc[t] = "copy"
    /\ dir' = [n \in DOMAIN dir |->
                IF dir[n] \in File /\ dir[n].by = t THEN [dir[n] EXCEPT !.whole = TRUE] ELSE dir[n]]
    /\ GoTo(t, "rename")
    /\ UNCHANGED <<source, tmp>>

(* A slip: a copy that fails is served all the same. *)
RenameEarly(t) ==
    /\ pc[t] \in {"rename", "copy"}
    /\ dir[tmp[t]] # None
    /\ dir' = [dir EXCEPT ![job[t].target] = dir[tmp[t]], ![tmp[t]] = None]
    /\ Return(t)
    /\ UNCHANGED source

(* os.replace(): the target is the new entry from now on. *)
Rename(t) ==
    /\ pc[t] = "rename"
    /\ dir[tmp[t]] # None
    /\ dir' = [dir EXCEPT ![job[t].target] = dir[tmp[t]], ![tmp[t]] = None]
    /\ Return(t)
    /\ UNCHANGED source

(* A slip: the temporary entry stays. *)
GiveUpLittering(t) ==
    /\ pc[t] \in {"link", "open", "copy", "rename"}
    /\ IF pc[t] = "link" \/ (pc[t] = "rename" /\ dir[tmp[t]] \in Link)
       THEN GoTo(t, "copy-name") /\ tmp' = [tmp EXCEPT ![t] = None]
       ELSE Return(t)
    /\ UNCHANGED <<dir, source>>

(* A slip: the fallback keeps the name it had. *)
GiveUpKeepingName(t) ==
    /\ pc[t] \in {"link", "open", "copy", "rename"}
    /\ dir' = [dir EXCEPT ![tmp[t]] = None]
    /\ IF pc[t] = "link" \/ (pc[t] = "rename" /\ dir[tmp[t]] \in Link)
       THEN GoTo(t, "copy-name") /\ UNCHANGED tmp
       ELSE Return(t)
    /\ UNCHANGED source

(* os.symlink, copy2 or os.replace fails: the name is unlinked, whatever   *)
(* is there by now.  A link falls back to a copy, a copy raises.           *)
GiveUp(t) ==
    /\ pc[t] \in {"link", "open", "copy", "rename"}
    /\ dir' = [dir EXCEPT ![tmp[t]] = None]
    /\ IF pc[t] = "link" \/ (pc[t] = "rename" /\ dir[tmp[t]] \in Link)
       THEN GoTo(t, "copy-name") /\ tmp' = [tmp EXCEPT ![t] = None]
       ELSE Return(t)
    /\ UNCHANGED source

(* unstage() of a file or a link. *)
Unstage(t, n) ==
    /\ pc[t] = "idle"
    /\ dir[n] # None
    /\ dir' = [dir EXCEPT ![n] = None]
    /\ UNCHANGED <<source, pc, job, tmp, crashed>>

(* Somebody removes a firmware file, or puts it there again. *)
RemoveFirmware(f) ==
    /\ source[f] # "gone"
    /\ source' = [source EXCEPT ![f] = "gone"]
    /\ UNCHANGED <<dir, pc, job, tmp, crashed>>

InstallFirmware(f) ==
    /\ source[f] = "gone"
    /\ source' = [source EXCEPT ![f] = "intact"]
    /\ UNCHANGED <<dir, pc, job, tmp, crashed>>

(* The process dies; what is in the directory stays. *)
Crash ==
    /\ \E t \in Threads : pc[t] # "idle"
    /\ crashed' = TRUE
    /\ pc' = [t \in Threads |-> "idle"]
    /\ job' = [t \in Threads |-> None]
    /\ tmp' = [t \in Threads |-> None]
    /\ UNCHANGED <<dir, source>>

Step(t) ==
    \/ MakeTemp(t)
    \/ MakeTempFail(t)
    \/ FreeName(t)
    \/ MakeLink(t)
    \/ CopyOpen(t)
    \/ CopyEnd(t)
    \/ Rename(t)
    \/ GiveUp(t)

Next ==
    \/ \E t \in Threads :
         \/ Step(t)
         \/ \E j \in Jobs : Stage(t, j)
         \/ \E n \in Targets : Unstage(t, n)
    \/ \E f \in Firmware : RemoveFirmware(f) \/ InstallFirmware(f)
    \/ Crash

Spec == Init /\ [][Next]_vars

-----------------------------------------------------------------------------
(***************************************************************************)
(* Properties                                                              *)
(***************************************************************************)

(* "Staging uses atomic tmp-then-rename to avoid serving partial files"    *)
(* (DEPLOYMENT.md:327, staging.py:133-135): whatever fails, and wherever   *)
(* the process dies, what the daemon finds under a target is a link or a   *)
(* whole copy.                                                             *)
ServedIsWhole == \A n \in Targets : dir[n] \in File => dir[n].whole

(* stage() and unstage() implement ServedDirectory: in all their steps,    *)
(* their fallbacks and failures, the daemon sees one whole file give way   *)
(* to another at once, or a name disappear.                                *)
Served(n) ==
    CASE dir[n] \in Link -> dir[n].link
      [] dir[n] \in File -> IF dir[n].whole THEN dir[n].of ELSE "part"
      [] OTHER -> None

Directory == INSTANCE ServedDirectory WITH served <- [n \in Targets |-> Served(n)]
ImplementsDirectory == Directory!Spec

(* Staging a name anew never leaves the daemon a moment without it: only   *)
(* unstage() takes a target away (staging.py:147, 168, 186).               *)
NeverUnserved ==
    [][\A n \in Targets :
         dir[n] # None /\ dir'[n] = None
           => \E t \in Threads : Unstage(t, n)]_vars

(* However a call ends, fallback and failures included, it leaves no       *)
(* .stage-* entry behind; only a crash does (staging.py:148-153, 169-174,  *)
(* 187-192).  A call in progress has at most the one it names.             *)
NoLitter ==
    ~crashed => \A n \in Temps : dir[n] # None => \E t \in Threads : tmp[t] = n

(* "Use atomic tmp-then-rename to avoid TOCTOU races" (staging.py:133):    *)
(* whatever other calls do meanwhile, staging only reads the firmware.     *)
SourcesAreRead == \A f \in Firmware : source[f] # "overwritten"

=============================================================================
