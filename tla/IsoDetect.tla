------------------------------ MODULE IsoDetect ------------------------------
(***************************************************************************)
(* detect_iso() of tftpos/iso_detect.py: the detectors a mounted medium is *)
(* shown to, in the order of the code, until one answers.                  *)
(*                                                                         *)
(* A source of a medium is absent, or the set of what it tells: a file     *)
(* that cannot be read or parsed is there and tells nothing.  What a       *)
(* system puts on its media are the media of Media, and what it calls      *)
(* itself there Brand and LabelName; the numbers are left out: an answer   *)
(* has the version of the medium ("told"), another number of its label     *)
(* ("other"), or "unknown".  A directory that cannot be listed, which      *)
(* raises, is left out too.                                                *)
(***************************************************************************)
EXTENDS Naturals, Sequences

CONSTANTS
    Absent,   \* a source that is not there
    Raised,   \* the exception detect_iso() may end with
    None      \* no answer

(* What a detector may answer of some medium. *)
Aliases ==
    [vendor : {"fedora", "rhel", "red", "ubuntu", "debian", "openbsd", "freebsd"},
     version : {"told", "other", "unknown"}]

IsoAssumption == Raised \notin Aliases /\ None \notin Aliases \cup {Raised}

VARIABLES
    medium,   \* what is mounted
    asked,    \* index of the detector being asked, 0 when detect_iso() is over
    answer    \* what it has answered

-----------------------------------------------------------------------------
Plain ==
    [system |-> "none", dotTreeinfo |-> Absent, treeinfo |-> Absent,
     discinfo |-> Absent, diskdefines |-> Absent,
     releases |-> <<Absent, Absent>>, installAmd |-> FALSE, diskInfo |-> Absent,
     manifest |-> FALSE, bsdrd |-> FALSE, sets |-> FALSE,
     base |-> FALSE, release |-> <<Absent, Absent>>, label |-> Absent]

Telling(fields) == {Absent} \cup SUBSET fields

(* What a system calls itself in the files and the label of its media. *)
Brand(s) ==
    CASE s = "fedora"  -> "Fedora"
      [] s = "rhel"    -> "Red Hat Enterprise Linux"
      [] s = "ubuntu"  -> "Ubuntu"
      [] s = "debian"  -> "Debian"
      [] s = "openbsd" -> "OpenBSD"
      [] s = "freebsd" -> "FreeBSD"
LabelName(s) == IF s = "rhel" THEN "RHEL" ELSE Brand(s)

(* What may be mounted.  Files of a medium may be missing or damaged, each *)
(* by itself, but none is there that is another system's.  A treeinfo with *)
(* a "percent" has a stray % in its family, its version or its name.       *)
RedHat(s, dot, info, disc, l) ==
    [Plain EXCEPT !.system = s, !.dotTreeinfo = dot, !.treeinfo = info,
                  !.discinfo = disc, !.label = l]
RedHatMedia ==
    {RedHat(s, dot, info, disc, l) :
        s \in {"fedora", "rhel"}, dot \in Telling({"family", "name", "version", "percent"}),
        info \in Telling({"family", "name", "version", "percent"}), disc \in Telling({"version"}),
        l \in Telling({"version"}) \cup {{"version", "compose"}}}
Ubuntu(d, r, q, l) ==
    [Plain EXCEPT !.system = "ubuntu", !.diskdefines = d, !.releases = <<r, q>>, !.label = l]
UbuntuMedia ==
    {Ubuntu(d, r, q, l) :
        d \in Telling({"id", "release", "diskname"}), r \in Telling({"label", "version"}),
        q \in Telling({"label", "version"}), l \in Telling({"version"})}
Debian(d, r, q, amd, info, l) ==
    [Plain EXCEPT !.system = "debian", !.diskdefines = d, !.releases = <<r, q>>,
                  !.installAmd = amd, !.diskInfo = info, !.label = l]
DebianMedia ==
    {Debian(d, r, q, amd, info, l) :
        d \in {Absent, {}}, r \in Telling({"version"}), q \in Telling({"version"}),
        amd \in BOOLEAN, info \in Telling({"version"}), l \in Telling({"version"})}
OpenBSD(m, b, s, l) ==
    [Plain EXCEPT !.system = "openbsd", !.manifest = m, !.bsdrd = b, !.sets = s, !.label = l]
OpenBSDMedia ==
    {OpenBSD(m, b, s, l) :
        m \in BOOLEAN, b \in BOOLEAN, s \in BOOLEAN, l \in Telling({"version"})}
FreeBSD(m, b, r, q, l) ==
    [Plain EXCEPT !.system = "freebsd", !.manifest = m, !.base = b,
                  !.release = <<r, q>>, !.label = l]
FreeBSDMedia ==
    {FreeBSD(m, b, r, q, l) :
        m \in BOOLEAN, b \in BOOLEAN, r \in Telling({"version"}),
        q \in Telling({"version"}), l \in Telling({"version"})}
Media ==
    {Plain} \cup RedHatMedia \cup UbuntuMedia \cup DebianMedia \cup OpenBSDMedia
    \cup FreeBSDMedia

Tells(source, fields) == source # Absent /\ fields \subseteq source

-----------------------------------------------------------------------------
Alias(vendor, version) == [vendor |-> vendor, version |-> version]

(* The first of .treeinfo and treeinfo that is there is the one parsed.    *)
TreeinfoOf(m) == IF m.dotTreeinfo # Absent THEN m.dotTreeinfo ELSE m.treeinfo

FirstWord(text) == IF text = "Red Hat Enterprise Linux" THEN "Red" ELSE text

Lower(text) ==
    CASE text = "Red" -> "red" [] text = "Ubuntu" -> "ubuntu" [] OTHER -> text

(* _TREEINFO_FAMILY_MAP, or else the family itself. *)
FamilyVendor(family) ==
    CASE family = "Fedora" -> "fedora"
      [] family \in {"Red Hat Enterprise Linux", "RHEL"} -> "rhel"
      [] OTHER -> Lower(family)

(* A family that is missing is the first word of the name.  Only reading   *)
(* the file is guarded: a value that does not interpolate raises from      *)
(* get(), and nothing in detect_iso() stops it.                            *)
DetectTreeinfo(m) ==
    LET said == TreeinfoOf(m)
        family == IF Tells(said, {"family"}) THEN Brand(m.system) ELSE FirstWord(Brand(m.system))
    IN  IF Tells(said, {"percent"}) THEN Raised
        ELSE IF Tells(said, {"family", "version"}) \/ Tells(said, {"name", "version"})
        THEN Alias(FamilyVendor(family), "told")
        ELSE None

(* _DISCINFO_PATTERNS. *)
DiscinfoVendor(text) ==
    CASE text = "Red Hat Enterprise Linux" -> "rhel" [] text = "Fedora" -> "fedora"

DetectDiscinfo(m) ==
    IF Tells(m.discinfo, {"version"})
    THEN Alias(DiscinfoVendor(Brand(m.system)), "told") ELSE None

(* DISTRIB_ID and DISTRIB_RELEASE, or else DISKNAME. *)
DetectDiskdefines(m) ==
    IF Tells(m.diskdefines, {"id", "release"}) \/ Tells(m.diskdefines, {"diskname"})
    THEN Alias(Lower(Brand(m.system)), "told") ELSE None

(* The first Release file with a version, a codename or a suite.  What its *)
(* label and origin do not call Ubuntu is Debian.                          *)
DetectDebianDists(m) ==
    LET useful == {i \in 1..2 : Tells(m.releases[i], {"version"})}
        first == IF 1 \in useful THEN 1 ELSE 2
    IN  IF useful = {} THEN None
        ELSE Alias(IF m.system = "ubuntu" /\ Tells(m.releases[first], {"label"})
                   THEN "ubuntu" ELSE "debian", "told")

DetectDebianNetinst(m) ==
    IF m.installAmd
    THEN Alias("debian", IF Tells(m.diskInfo, {"version"}) THEN "told" ELSE "unknown")
    ELSE None

DetectOpenBSD(m) ==
    IF m.manifest \/ m.bsdrd
    THEN Alias("openbsd", IF m.sets THEN "told" ELSE "unknown") ELSE None

(* RELEASE, or else release, has the version. *)
DetectFreeBSD(m) ==
    IF m.base
    THEN Alias("freebsd", IF \E i \in 1..2 : Tells(m.release[i], {"version"})
                          THEN "told" ELSE "unknown")
    ELSE None

(* The patterns of _parse_volume_id(). *)
LabelVendor(text) ==
    CASE text = "Fedora"  -> "fedora"
      [] text = "RHEL"    -> "rhel"
      [] text = "Ubuntu"  -> "ubuntu"
      [] text = "Debian"  -> "debian"
      [] text = "FreeBSD" -> "freebsd"
      [] text = "OpenBSD" -> "openbsd"

(* The last number of a Fedora label, the first of another.  Labels that   *)
(* end in the number of a compose have it after the version.               *)
DetectVolumeLabel(m) ==
    LET vendor == LabelVendor(LabelName(m.system))
    IN  IF Tells(m.label, {"version"})
        THEN Alias(vendor, IF vendor = "fedora" /\ "compose" \in m.label
                           THEN "other" ELSE "told")
        ELSE None

(* A slip: Debian's installer is looked for before its Release files. *)
NetinstFirst ==
    <<DetectTreeinfo(medium), DetectDiscinfo(medium), DetectDiskdefines(medium),
      DetectDebianNetinst(medium), DetectDebianDists(medium), DetectOpenBSD(medium),
      DetectFreeBSD(medium), DetectVolumeLabel(medium)>>

(* The answers of the detectors, in the order in which they are asked. *)
Detectors ==
    <<DetectTreeinfo(medium), DetectDiscinfo(medium), DetectDiskdefines(medium),
      DetectDebianDists(medium), DetectDebianNetinst(medium), DetectOpenBSD(medium),
      DetectFreeBSD(medium), DetectVolumeLabel(medium)>>

-----------------------------------------------------------------------------
TypeOK ==
    /\ DOMAIN medium = DOMAIN Plain
    /\ asked \in 0..Len(Detectors)
    /\ answer \in {None, Raised}
         \cup [vendor : {"red", medium.system, "debian", "openbsd"},
               version : {"told", "other", "unknown"}]

Init ==
    /\ medium = Plain
    /\ asked = 0
    /\ answer = None

(* detect_iso() of a medium. *)
Mount ==
    /\ medium = Plain
    /\ \E m \in Media : medium' = m
    /\ asked' = 1
    /\ answer' = None

Ask ==
    /\ asked > 0
    /\ answer' = Detectors[asked]
    /\ asked' = IF answer' = None /\ asked < Len(Detectors) THEN asked + 1 ELSE 0
    /\ UNCHANGED medium

Unmount ==
    /\ asked = 0 /\ medium # Plain
    /\ medium' = Plain
    /\ answer' = None
    /\ UNCHANGED asked

Next == Mount \/ Ask \/ Unmount

-----------------------------------------------------------------------------
(* The files that are taken for another system's: the name of Red Hat      *)
(* Enterprise Linux without a family, a Release file of Ubuntu that does   *)
(* not say so, and the MANIFEST of a FreeBSD tree at the root.             *)
Misread(m) ==
    \/ m.system = "rhel" /\ Tells(TreeinfoOf(m), {"name", "version"})
                         /\ "family" \notin TreeinfoOf(m)
    \/ m.system = "ubuntu" /\ \E i \in 1..2 :
                                Tells(m.releases[i], {"version"}) /\ "label" \notin m.releases[i]
    \/ m.system = "freebsd" /\ m.manifest

(* Whether some file of the medium tells the system, with its version. *)
Recognisable(m) ==
    \/ Tells(TreeinfoOf(m), {"family", "version"})
    \/ \E s \in {m.discinfo, m.label, m.releases[1], m.releases[2]} : Tells(s, {"version"})
    \/ Tells(m.diskdefines, {"id", "release"})
    \/ m.system = "debian" /\ m.installAmd /\ Tells(m.diskInfo, {"version"})
    \/ m.system = "openbsd" /\ (m.manifest \/ m.bsdrd) /\ m.sets
    \/ m.system = "freebsd" /\ m.base /\ \E i \in 1..2 : Tells(m.release[i], {"version"})

(* A medium is never taken for another system, whatever of it is missing   *)
(* or damaged, but in the cases of Misread; its version is the medium's,   *)
(* or unknown when no file besides the label tells it; and detection ends  *)
(* without an answer only when no file tells the system -- or, whatever    *)
(* the others tell, when it raises over a stray % in the treeinfo.  Only   *)
(* the label of a Fedora compose yields another number                     *)
(* (iso_detect.py:59-80, 116-126).                                         *)
DetectionIsRight ==
    asked = 0 /\ medium # Plain =>
        /\ answer = Raised <=> Tells(TreeinfoOf(medium), {"percent"})
        /\ answer = None => ~Recognisable(medium)
        /\ answer \notin {None, Raised} =>
             /\ ~Misread(medium) => answer.vendor = medium.system
             /\ answer.version = "other" => "compose" \in medium.label
             /\ answer.version = "unknown" /\ ~Misread(medium) =>
                  ~Recognisable([medium EXCEPT !.label = Absent])

=============================================================================
