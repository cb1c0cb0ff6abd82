--------------------------- MODULE FirmwareEngine ---------------------------
(***************************************************************************)
(* FirmwareEngine of tftpos/engine.py, serve() and stage() end to end: the *)
(* matcher's rule, its profile through the cache, the plugin of the rule's *)
(* os_family, and the directory of the TFTP daemon.                        *)
(*                                                                         *)
(* HostMatcher is extended; the cached loader is an instance of TTLCache,  *)
(* whose keys are the names of profiles, and the directory one of          *)
(* ServedDirectory, which Staging implements.  Profile files are edited,   *)
(* and caches invalidated, while calls run.  Time stands still: an entry   *)
(* that expires makes the loader read its file again, and lasts no longer  *)
(* than it does here.                                                      *)
(***************************************************************************)
EXTENDS HostMatcher, Integers, FiniteSets

CONSTANTS
    Threads,     \* threads that call the engine
    Rules,       \* the configured rules, in the order of the file
    RuleLists,   \* the configurations the matcher's answers are checked for
    Profiles,    \* names of profiles
    Contents,    \* what is in the file of each profile, edit after edit: a
                 \* ProvisionProfile, or None where the file does not exist
    Plugins,     \* the registry: for each os_family the versions its plugin
                 \* supports, none of them standing for all
    Tree,        \* the firmware files there are
    Filename,    \* the plugins' file name, a name for everything
    OwnName,     \* the name a caller may give each host's file instead
    MaxSize,     \* maxsize of the cache
    MaxEdits,    \* bound: edits of the profile files
    None

(* StaticFirmwarePlugin's path, {os_family}/{os_version}/{filename}: the   *)
(* part of it that profiles differ in.                                     *)
Firmware == [os_family : STRING, os_version : STRING]
Targets == {Filename} \cup {OwnName[h] : h \in Hosts}

HostRule ==
    [profile : Profiles, os_family : STRING, os_version : STRING, priority : Int,
     when : UNION {[C -> SUBSET Hosts] : C \in SUBSET Range(Criteria)}]
Calls ==
    [host : Hosts, name : Targets, rule : HostRule, began : 0 .. MaxEdits, clean : BOOLEAN]

ASSUME EngineAssumption ==
    /\ IsFiniteSet(Profiles)
    /\ MaxSize \in Nat \ {0}
    /\ MaxEdits \in Nat
    /\ Rules \in Seq(HostRule)
    /\ RuleLists \subseteq Seq(HostRule)
    /\ Tree \subseteq Firmware
    /\ \A p \in Profiles : Contents[p] \in [0 .. MaxEdits -> Firmware \cup {None}]
    /\ \A h \in Hosts : OwnName[h] # Filename
    /\ \A g, h \in Hosts : OwnName[g] = OwnName[h] => g = h
    /\ None \notin Firmware \cup Profiles \cup Calls
    /\ None \notin [stamp: 0..0, value: 0..MaxEdits]

VARIABLES
    at,        \* where each thread is in serve() or stage()
    call,      \* the arguments of its call and the rule it has found
    profile,   \* the ProvisionProfile it has loaded
    path,      \* the firmware it has resolved
    cache, now, version, pc, key, loaded, changed, cleared, inflight,  \* of TTLCache
    served     \* of ServedDirectory

Cache == INSTANCE TTLCache WITH
           Keys <- Profiles, TTL <- 0, MaxLoad <- 0, MaxClock <- 0
Dir == INSTANCE ServedDirectory WITH Firmware <- Tree

engine == <<at, call, profile, path>>
caching == <<cache, now, version, pc, key, loaded, changed, cleared, inflight>>
vars == <<engine, caching, served>>

TypeOK ==
    /\ Cache!TypeOK
    /\ served \in [Targets -> Tree \cup {None}]
    /\ at \in [Threads -> {"idle", "profile", "loading", "plugin", "stage"}]
    /\ \A t \in Threads : at[t] = "loading" <=> pc[t] # "idle"
    /\ \A t \in Threads : at[t] = "idle" <=> call[t] = None
    /\ profile \in [Threads -> Firmware \cup {None}]
    /\ \A t \in Threads : at[t] = "plugin" <=> profile[t] # None
    /\ path \in [Threads -> Tree \cup {None}]
    /\ \A t \in Threads : at[t] = "stage" <=> path[t] # None

Init ==
    /\ Cache!Init
    /\ Dir!Init
    /\ at = [t \in Threads |-> "idle"]
    /\ call = [t \in Threads |-> None]
    /\ profile = [t \in Threads |-> None]
    /\ path = [t \in Threads |-> None]

-----------------------------------------------------------------------------
Content(p) == Contents[p][version[p]]

GoTo(t, step) == at' = [at EXCEPT ![t] = step]

Return(t) ==
    /\ GoTo(t, "idle")
    /\ call' = [call EXCEPT ![t] = None]
    /\ profile' = [profile EXCEPT ![t] = None]
    /\ path' = [path EXCEPT ![t] = None]

(* resolve_rule(), which raises when no rule matches. *)
RuleOf == [h \in {g \in Hosts : HasMatch(Rules, g)} |-> Match(Rules, h)]

(* stage() of host h under name n.  For the properties a call remembers    *)
(* the version of its profile's file, and whether that was neither edited  *)
(* nor stored by a load already under way since the last invalidation.     *)
Stage(t, h, n) ==
    /\ at[t] = "idle"
    /\ h \in DOMAIN RuleOf
    /\ LET r == RuleOf[h]
       IN  call' = [call EXCEPT ![t] =
             [host |-> h, name |-> n, rule |-> r, began |-> version[r.profile],
              clean |-> cleared[r.profile] = version[r.profile] /\ r.profile \notin inflight]]
    /\ GoTo(t, "profile")
    /\ UNCHANGED <<profile, path, caching, served>>

(* What load_profile_for_rule() makes up when there is no file. *)
Synthesized(r) == [os_family |-> r.os_family, os_version |-> r.os_version]

(* load_profile_for_rule(): the cached loader for a file that exists. *)
LoadProfile(t) ==
    LET r == call[t].rule
    IN  /\ at[t] = "profile"
        /\ IF Content(r.profile) # None
           THEN /\ Cache!Call(t, r.profile)
                /\ GoTo(t, "loading")
                /\ UNCHANGED profile
           ELSE /\ profile' = [profile EXCEPT ![t] = Synthesized(r)]
                /\ GoTo(t, "plugin")
                /\ UNCHANGED caching
        /\ UNCHANGED <<call, path, served>>

(* A step of the cached loader. *)
LoaderStep(t) ==
    \/ Cache!Get(t)
    \/ Cache!Recheck(t)
    \/ Content(key[t]) # None /\ Cache!Load(t)
    \/ Cache!LoadRaises(t)
    \/ Cache!Put(t)

(* It goes on, or returns a profile, or raises what load_profile() raised. *)
Loading(t) ==
    /\ at[t] = "loading"
    /\ LoaderStep(t)
    /\ IF pc'[t] # "idle" THEN UNCHANGED engine
       ELSE IF pc[t] = "load" THEN Return(t)
       ELSE /\ profile' = [profile EXCEPT ![t] = Contents[key[t]][Cache!Answer(t)]]
            /\ GoTo(t, "plugin")
            /\ UNCHANGED <<call, path>>
    /\ UNCHANGED served

(* A slip: the profile's os_family is not compared with the plugin's. *)
ValidAnyFamily(f, p) ==
    f \in DOMAIN Plugins /\ (Plugins[f] = {} \/ p.os_version \in Plugins[f])

(* registry.get(f) knows a plugin and its validate_profile() has no        *)
(* errors.  That a profile must have a name is left out: those of the      *)
(* model all have one.                                                     *)
Valid(f, p) ==
    /\ f \in DOMAIN Plugins
    /\ p.os_family = f
    /\ Plugins[f] = {} \/ p.os_version \in Plugins[f]

(* The rest of serve(): the plugin validates the profile and resolves it   *)
(* to a firmware file that exists, or something is raised.                 *)
Resolve(t) ==
    LET f == call[t].rule.os_family
        p == profile[t]
    IN  /\ at[t] = "plugin"
        /\ IF Valid(f, p) /\ p \in Tree
           THEN /\ path' = [path EXCEPT ![t] = p]
                /\ profile' = [profile EXCEPT ![t] = None]
                /\ GoTo(t, "stage")
                /\ UNCHANGED call
           ELSE Return(t)
        /\ UNCHANGED <<caching, served>>

(* stage_firmware(): the file is in place, or an OSError is raised. *)
Place(t) ==
    /\ at[t] = "stage"
    /\ Dir!Place(call[t].name, path[t])
    /\ Return(t)
    /\ UNCHANGED caching

PlaceRaises(t) ==
    /\ at[t] = "stage"
    /\ Return(t)
    /\ UNCHANGED <<caching, served>>

-----------------------------------------------------------------------------
(* A slip: one profile at most is invalidated. *)
InvalidateCachesOne ==
    /\ \E p \in Profiles : cache' = [cache EXCEPT ![p] = None]
    /\ cleared' = version
    /\ inflight' = {key[t] : t \in {u \in Threads : pc[u] = "put"}}
    /\ UNCHANGED <<now, version, pc, key, loaded, changed, engine, served>>

(* invalidate_caches() *)
InvalidateCaches == Cache!Clear /\ UNCHANGED <<engine, served>>

(* The administrator edits, creates or removes a profile, or unstages. *)
EditProfile(p) == Cache!Edit(p) /\ UNCHANGED <<engine, served>>
Unstage(n) == served[n] # None /\ Dir!Remove(n) /\ UNCHANGED <<engine, caching>>

Next ==
    \/ \E t \in Threads :
         \/ \E h \in Hosts : \E n \in {Filename, OwnName[h]} : Stage(t, h, n)
         \/ LoadProfile(t)
         \/ Loading(t)
         \/ Resolve(t)
         \/ Place(t)
         \/ PlaceRaises(t)
    \/ InvalidateCaches
    \/ \E p \in Profiles : EditProfile(p)
    \/ \E n \in Targets : Unstage(n)

Spec == Init /\ [][Next]_vars

-----------------------------------------------------------------------------
(***************************************************************************)
(* Properties                                                              *)
(***************************************************************************)

(* Whichever host a call is for, the matcher gives it the best answer, in  *)
(* this configuration and in every other of RuleLists (matcher.py:17-44).  *)
AnsweredBest == {h \in Hosts : \A rs \in RuleLists : BestAnswer(rs, h)}

MatchIsBest == \A t \in Threads : call[t] # None => call[t].host \in AnsweredBest

(* Under the name given for it a host finds only firmware of the os_family *)
(* of its rule, in a version the family's plugin supports, whatever the    *)
(* profile files were changed to and whoever else stages (engine.py:119).  *)
(* It is not so under the default name, which all hosts share.             *)
ServedIsAllowed ==
    \A h \in Hosts :
      served[OwnName[h]] # None =>
        /\ served[OwnName[h]].os_family = RuleOf[h].os_family
        /\ LET versions == Plugins[served[OwnName[h]].os_family]
           IN  versions = {} \/ served[OwnName[h]].os_version \in versions

(* Once invalidate_caches() has returned, a host staged anew gets what its *)
(* profile's file says, through all the steps from the rule to the         *)
(* directory -- unless a load was under way at the invalidation, or the    *)
(* file changes again before the call is done (engine.py:150-152).         *)
CurrentAfterInvalidate ==
    [][\A t \in Threads :
         LET c == call[t]
             p == c.rule.profile
         IN  Place(t) /\ c.clean /\ version[p] = c.began =>
               served'[c.name] = IF Content(p) # None THEN Content(p)
                                 ELSE Synthesized(c.rule)]_vars

=============================================================================
