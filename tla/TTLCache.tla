------------------------------ MODULE TTLCache ------------------------------
(***************************************************************************)
(* The cached profile loader of FirmwareEngine (tftpos/engine.py): the     *)
(* wrapper ttl_cache() puts around load_profile() and the TTLCacheWrapper  *)
(* it keeps the results in (tftpos/cache.py).                              *)
(*                                                                         *)
(* Every method of TTLCacheWrapper is one step under its lock.  The        *)
(* wrapper holds the lock in none of the moments between them: it looks    *)
(* up, looks up again, reads the file and stores what it read, while other *)
(* threads do the same, the file is edited, and caches are cleared.        *)
(*                                                                         *)
(* A key is the path of a profile; its value is the version of the file    *)
(* that was read, counted by the edits.  Time is in ticks.  The hit and    *)
(* miss counters are left out.                                             *)
(***************************************************************************)
EXTENDS Integers, FiniteSets

CONSTANTS
    Keys,        \* paths of profiles
    Threads,     \* threads that serve clients
    MaxSize,     \* maxsize of the cache
    TTL,         \* ttl of the cache, in ticks
    MaxLoad,     \* bound: ticks from reading a file to storing its profile
    MaxClock,    \* bound: ticks
    MaxEdits,    \* bound: edits of the files
    None         \* no entry, no call

ASSUME CacheAssumption ==
    /\ IsFiniteSet(Keys)
    /\ MaxSize \in Nat \ {0}
    /\ TTL \in Nat /\ MaxLoad \in Nat /\ MaxClock \in Nat
    /\ MaxEdits \in Nat
    /\ None \notin Keys
    /\ None \notin [stamp: 0..MaxClock, value: 0..MaxEdits]

Versions == 0..MaxEdits
Entry == [stamp: 0..MaxClock, value: Versions]

VARIABLES
    cache,     \* wrapper._cache: the entry of each key, or None
    now,       \* time.monotonic()
    version,   \* of each profile file
    pc,        \* what each thread does next
    key,       \* the path each thread was called for
    loaded,    \* the version a thread has read and will store, and when
    changed,   \* history variable: when each version was replaced, or -1
    cleared,   \* history variable: the version of each file at the last clear()
    inflight   \* history variable: keys some load read before the last clear()
               \* and stored, or will store, after it

vars == <<cache, now, version, pc, key, loaded, changed, cleared, inflight>>
env == <<now, version, changed>>

Entries == {k \in Keys : cache[k] # None}
Expired(e) == now - e.stamp > TTL

TypeOK ==
    /\ cache \in [Keys -> Entry \cup {None}]
    /\ Cardinality(Entries) <= MaxSize
    /\ now \in 0..MaxClock
    /\ version \in [Keys -> Versions]
    /\ pc \in [Threads -> {"idle", "get", "recheck", "load", "put"}]
    /\ key \in [Threads -> Keys \cup {None}]
    /\ \A t \in Threads : pc[t] = "idle" <=> key[t] = None
    /\ loaded \in [Threads -> Entry \cup {None}]
    /\ \A t \in Threads : pc[t] = "put" <=> loaded[t] # None
    /\ changed \in [Keys -> [Versions -> -1..MaxClock]]
    /\ cleared \in [Keys -> Versions]
    /\ inflight \subseteq Keys

Init ==
    /\ cache = [k \in Keys |-> None]
    /\ now = 0
    /\ version = [k \in Keys |-> 0]
    /\ pc = [t \in Threads |-> "idle"]
    /\ key = [t \in Threads |-> None]
    /\ loaded = [t \in Threads |-> None]
    /\ changed = [k \in Keys |-> [v \in Versions |-> -1]]
    /\ cleared = [k \in Keys |-> 0]
    /\ inflight = {}

-----------------------------------------------------------------------------
Return(t) ==
    /\ pc' = [pc EXCEPT ![t] = "idle"]
    /\ key' = [key EXCEPT ![t] = None]
    /\ loaded' = [loaded EXCEPT ![t] = None]

GoTo(t, step) ==
    /\ pc' = [pc EXCEPT ![t] = step]
    /\ UNCHANGED <<key, loaded>>

(* load_profile_for_rule() calls the cached loader with the path of a      *)
(* profile that exists; without one it does not use the cache.             *)
Call(t, k) ==
    /\ pc[t] = "idle"
    /\ pc' = [pc EXCEPT ![t] = "get"]
    /\ key' = [key EXCEPT ![t] = k]
    /\ UNCHANGED <<cache, loaded, cleared, inflight, env>>

(* A slip: an entry's age is not looked at. *)
GetUnaged(t) ==
    /\ pc[t] = "get"
    /\ IF cache[key[t]] = None THEN GoTo(t, "recheck") ELSE Return(t)
    /\ UNCHANGED <<cache, cleared, inflight, env>>

(* TTLCacheWrapper.get: a hit, a miss, or an expired entry to be deleted. *)
Get(t) ==
    LET e == cache[key[t]]
    IN  /\ pc[t] = "get"
        /\ IF e # None /\ ~Expired(e) THEN Return(t) ELSE GoTo(t, "recheck")
        /\ cache' = IF e # None /\ Expired(e) THEN [cache EXCEPT ![key[t]] = None] ELSE cache
        /\ UNCHANGED <<cleared, inflight, env>>

(* wrapped(): the second look, for what another thread stored meanwhile. *)
Recheck(t) ==
    LET e == cache[key[t]]
    IN  /\ pc[t] = "recheck"
        /\ IF e # None /\ ~Expired(e) THEN Return(t) ELSE GoTo(t, "load")
        /\ UNCHANGED <<cache, cleared, inflight, env>>

(* load_profile() reads the file, or raises: the file was removed          *)
(* meanwhile, or is no profile.                                            *)
Load(t) ==
    /\ pc[t] = "load"
    /\ loaded' = [loaded EXCEPT ![t] = [stamp |-> now, value |-> version[key[t]]]]
    /\ pc' = [pc EXCEPT ![t] = "put"]
    /\ UNCHANGED <<cache, key, cleared, inflight, env>>

LoadRaises(t) ==
    /\ pc[t] = "load"
    /\ Return(t)
    /\ UNCHANGED <<cache, cleared, inflight, env>>

(* A slip: room is made only when there is one entry too many. *)
MakeRoomLate(k) ==
    IF cache[k] = None /\ Cardinality(Entries) > MaxSize
    THEN {j \in Entries : \A i \in Entries : cache[j].stamp <= cache[i].stamp}
    ELSE {}

(* The entries put() may evict to make room for k: min() over the stamps   *)
(* takes the first of several oldest ones.                                 *)
MakeRoom(k) ==
    IF cache[k] = None /\ Cardinality(Entries) >= MaxSize
    THEN {j \in Entries : \A i \in Entries : cache[j].stamp <= cache[i].stamp}
    ELSE {}

(* TTLCacheWrapper.put, and the wrapper's return. *)
Put(t) ==
    LET k == key[t]
        e == [stamp |-> now, value |-> loaded[t].value]
    IN  /\ pc[t] = "put"
        /\ IF MakeRoom(k) = {} THEN cache' = [cache EXCEPT ![k] = e]
           ELSE \E j \in MakeRoom(k) : cache' = [cache EXCEPT ![j] = None, ![k] = e]
        /\ Return(t)
        /\ UNCHANGED <<cleared, inflight, env>>

-----------------------------------------------------------------------------
(* invalidate(), and invalidate_matching() with a predicate that is true   *)
(* of the keys ks.                                                         *)
Invalidate(ks) ==
    /\ ks \cap Entries # {}
    /\ cache' = [k \in Keys |-> IF k \in ks THEN None ELSE cache[k]]
    /\ UNCHANGED <<pc, key, loaded, cleared, inflight, env>>

(* A slip: the entries are left to expire. *)
ClearLazily ==
    /\ cleared' = version
    /\ inflight' = {key[t] : t \in {u \in Threads : pc[u] = "put"}}
    /\ UNCHANGED <<cache, pc, key, loaded, env>>

(* clear(), which FirmwareEngine.invalidate_caches() and                   *)
(* clear_all_caches() call.                                                *)
Clear ==
    /\ cache' = [k \in Keys |-> None]
    /\ cleared' = version
    /\ inflight' = {key[t] : t \in {u \in Threads : pc[u] = "put"}}
    /\ UNCHANGED <<pc, key, loaded, env>>

(* Somebody edits a profile file. *)
Edit(k) ==
    /\ Cardinality({e \in Keys \X Versions : changed[e[1]][e[2]] # -1}) < MaxEdits
    /\ version' = [version EXCEPT ![k] = @ + 1]
    /\ changed' = [changed EXCEPT ![k][version[k]] = now]
    /\ UNCHANGED <<cache, now, pc, key, loaded, cleared, inflight>>

Tick ==
    /\ now < MaxClock
    /\ \A t \in Threads : pc[t] = "put" => now - loaded[t].stamp < MaxLoad
    /\ now' = now + 1
    /\ UNCHANGED <<cache, version, pc, key, loaded, changed, cleared, inflight>>

Next ==
    \/ \E t \in Threads :
         \/ \E k \in Keys : Call(t, k)
         \/ Get(t)
         \/ Recheck(t)
         \/ Load(t)
         \/ LoadRaises(t)
         \/ Put(t)
    \/ \E ks \in SUBSET Keys : Invalidate(ks)
    \/ Clear
    \/ \E k \in Keys : Edit(k)
    \/ Tick

Spec == Init /\ [][Next]_vars

-----------------------------------------------------------------------------
(***************************************************************************)
(* Properties                                                              *)
(***************************************************************************)

(* The version a call of t returns, in the step that ends it. *)
Returns(t) ==
    \/ pc[t] = "put" /\ pc'[t] = "idle"
    \/ pc[t] \in {"get", "recheck"} /\ pc'[t] = "idle"

Answer(t) == IF pc[t] = "put" THEN loaded[t].value ELSE cache[key[t]].value

(* "The cache automatically expires entries after ttl seconds"             *)
(* (cache.py:198-199): no call returns a profile that was edited more than *)
(* TTL ago, plus the time a slow load may sit between reading the file and *)
(* put(), which stamps the entry with the time of the put.                 *)
StalenessBound ==
    [][\A t \in Threads : Returns(t) =>
         LET gone == changed[key[t]][Answer(t)]
         IN  gone = -1 \/ now - gone <= TTL + MaxLoad]_vars

(* After invalidate_caches() (engine.py:150) a call returns what the files *)
(* held at that moment or later, unless a load had read its file before    *)
(* the clear() and stored the profile after it (cache.py:224-225).         *)
ClearTakesEffect ==
    [][\A t \in Threads :
         Returns(t) /\ key[t] \notin inflight => Answer(t) >= cleared[key[t]]]_vars

=============================================================================
