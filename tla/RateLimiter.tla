----------------------------- MODULE RateLimiter -----------------------------
(***************************************************************************)
(* RateLimiter of tftpos/rate_limit.py: a token bucket per key, shared by  *)
(* the threads of a server.  check() and cleanup() read the clock BEFORE   *)
(* they take the lock, so a thread may work with a reading that other      *)
(* threads have already gone past: last_refill can move backwards and the  *)
(* elapsed time can be negative.                                           *)
(*                                                                         *)
(* Tokens are measured in units of which a request costs Unit and a full   *)
(* bucket holds capacity = burst * Unit.  At a positive rate the unit of   *)
(* time is what it takes to earn one of them, so that a tick adds rate =   *)
(* 1; with requests_per_minute = 0 it adds rate = 0.  That is the code's   *)
(* arithmetic in exact numbers: what its floats round is not modelled, nor *)
(* is a negative rate, which would take tokens away.                       *)
(***************************************************************************)
EXTENDS Integers

CONSTANTS
    Keys,      \* clients
    Threads,   \* threads that call the limiter
    Unit,      \* units of a token: the ticks that earn one at rate 1
    Rates,     \* units a tick may earn: 1, or 0 for no requests per minute
    Capacities,  \* bursts, in units
    MaxAge,    \* cleanup's max_age_seconds, in ticks
    MaxLag,    \* the longest a thread takes from reading the clock to its lock
    MaxClock,  \* bound: ticks
    None

(* What a burst c of one key may cost: check() lets the first request of   *)
(* an unknown key pass even with a burst of zero.                          *)
AllowanceOf(c) == IF c >= Unit THEN c ELSE Unit

(* A bucket may owe tokens. *)
Bucket == [tokens: Int, last_refill: Nat]

(* A bucket must not be forgotten before it is full again.  cleanup()'s    *)
(* default is an hour; the default tiers refill within 30 seconds.         *)
ASSUME LimiterAssumption ==
    /\ Unit \in Nat \ {0}
    /\ Rates \subseteq {0, 1}
    /\ Capacities \subseteq Nat
    /\ MaxAge \in Nat
    /\ MaxLag \in Nat
    /\ MaxClock \in Nat
    /\ \A c \in Capacities : MaxAge >= AllowanceOf(c) + 2 * MaxLag
    /\ None \notin Bucket

VARIABLES
    rate,     \* self._rate
    capacity, \* self._burst
    clock,    \* time.monotonic()
    buckets,  \* self._buckets
    pc,       \* what each thread does next
    now,      \* the clock each thread has read
    key,      \* the key each thread checks
    since,    \* history variable: when the observed window of a key began
    spent     \* history variable: units granted to requests of that window

limiter == <<rate, capacity>>

vars == <<limiter, clock, buckets, pc, now, key, since, spent>>

Allowance == AllowanceOf(capacity)

(* The shape of the state; no bucket ever holds more than the burst. *)
TypeOK ==
    /\ rate \in Rates
    /\ capacity \in Capacities
    /\ clock \in Nat
    /\ buckets \in [Keys -> Bucket \cup {None}]
    /\ \A k \in Keys : buckets[k] # None => buckets[k].tokens <= capacity
    /\ pc \in [Threads -> {"idle", "check", "cleanup"}]
    /\ now \in [Threads -> Nat]
    /\ key \in [Threads -> Keys]
    /\ since \in [Keys -> Nat]
    /\ spent \in [Keys -> Nat]

-----------------------------------------------------------------------------
(* A slip: the refill is not capped. *)
RefilledUncapped(b, n) == b.tokens + rate * (n - b.last_refill)

(* The tokens of bucket b for a caller whose clock shows n. *)
Refilled(b, n) ==
    LET filled == b.tokens + rate * (n - b.last_refill)
    IN  IF filled > capacity THEN capacity ELSE filled

(* A slip: the time since the last refill is not counted. *)
RetryAfterUnrefilled(k, n) ==
    IF buckets[k] = None \/ rate = 0 \/ buckets[k].tokens >= Unit
    THEN 0
    ELSE Unit - buckets[k].tokens

(* retry_after(): how long a caller whose clock shows n has to wait.  With *)
(* a rate of zero it answers 0, token or no token.                         *)
RetryAfter(k, n) ==
    IF buckets[k] = None \/ rate = 0 \/ Refilled(buckets[k], n) >= Unit
    THEN 0
    ELSE Unit - Refilled(buckets[k], n)

(* check() answers True: an unknown key passes, whatever the burst is. *)
Granted(k, n) == buckets[k] = None \/ Refilled(buckets[k], n) >= Unit

(* The bucket check() leaves behind. *)
Charged(k, n) ==
    IF buckets[k] = None
    THEN [tokens |-> capacity - Unit, last_refill |-> n]
    ELSE [tokens |-> Refilled(buckets[k], n) - (IF Granted(k, n) THEN Unit ELSE 0),
          last_refill |-> n]

-----------------------------------------------------------------------------
Init ==
    /\ rate \in Rates
    /\ capacity \in Capacities
    /\ clock = 0
    /\ buckets = [k \in Keys |-> None]
    /\ pc = [t \in Threads |-> "idle"]
    /\ now = [t \in Threads |-> 0]
    /\ key \in [Threads -> Keys]
    /\ since = [k \in Keys |-> 0]
    /\ spent = [k \in Keys |-> 0]

(* Time passes, but not so far that a thread is overtaken by MaxLag. *)
Tick ==
    /\ clock < MaxClock
    /\ \A t \in Threads : pc[t] # "idle" => clock - now[t] < MaxLag
    /\ clock' = clock + 1
    /\ UNCHANGED <<limiter, buckets, pc, now, key, since, spent>>

(* check() and cleanup(): now = time.monotonic(), outside the lock. *)
ReadClock(t, k, next) ==
    /\ pc[t] = "idle"
    /\ now' = [now EXCEPT ![t] = clock]
    /\ key' = [key EXCEPT ![t] = k]
    /\ pc' = [pc EXCEPT ![t] = next]
    /\ UNCHANGED <<limiter, clock, buckets, since, spent>>

Arrive(t, k) == ReadClock(t, k, "check")

CleanupBegin(t) == ReadClock(t, key[t], "cleanup")

(* A thread returns; its locals are dropped. *)
Return(t) ==
    /\ pc' = [pc EXCEPT ![t] = "idle"]
    /\ now' = [now EXCEPT ![t] = 0]
    /\ UNCHANGED <<limiter, clock, key>>

(* check(), under the lock.  The request belongs to the observed window of *)
(* its key when it arrived in it.                                          *)
Check(t) ==
    LET k == key[t]
        n == now[t]
    IN  /\ pc[t] = "check"
        /\ buckets' = [buckets EXCEPT ![k] = Charged(k, n)]
        /\ spent' = IF Granted(k, n) /\ n >= since[k]
                    THEN [spent EXCEPT ![k] = @ + Unit]
                    ELSE spent
        /\ Return(t)
        /\ UNCHANGED since

(* cleanup(), under the lock, of the buckets not refilled for a time.  At  *)
(* a rate of zero no time spent waiting pays for the burst a forgotten     *)
(* bucket comes back with, and the observed window of its key begins anew. *)
Forget(t, age) ==
    LET forgotten == {k \in Keys : buckets[k] # None /\ now[t] - buckets[k].last_refill > age}
        renewed   == IF rate = 0 THEN forgotten ELSE {}
    IN  /\ pc[t] = "cleanup"
        /\ buckets' = [k \in Keys |-> IF k \in forgotten THEN None ELSE buckets[k]]
        /\ since' = [k \in Keys |-> IF k \in renewed THEN clock ELSE since[k]]
        /\ spent' = [k \in Keys |-> IF k \in renewed THEN 0 ELSE spent[k]]
        /\ Return(t)

(* A slip: every bucket that is not brand new counts as stale. *)
CleanupEager(t) == Forget(t, 0)

(* cleanup(): buckets not refilled for max_age go. *)
Cleanup(t) == Forget(t, MaxAge)

(* reset() forgets every bucket; the observed windows begin anew. *)
Reset ==
    /\ buckets' = [k \in Keys |-> None]
    /\ since' = [k \in Keys |-> clock]
    /\ spent' = [k \in Keys |-> 0]
    /\ UNCHANGED <<limiter, clock, pc, now, key>>

(* An observer begins a new window of key k, at any moment. *)
Observe(k) ==
    /\ since' = [since EXCEPT ![k] = clock]
    /\ spent' = [spent EXCEPT ![k] = 0]
    /\ UNCHANGED <<limiter, clock, buckets, pc, now, key>>

Next ==
    \/ Tick
    \/ \E t \in Threads, k \in Keys : Arrive(t, k)
    \/ \E t \in Threads :
         \/ Check(t)
         \/ CleanupBegin(t)
         \/ Cleanup(t)
    \/ Reset
    \/ \E k \in Keys : Observe(k)

Spec == Init /\ [][Next]_vars

-----------------------------------------------------------------------------
(***************************************************************************)
(* Properties                                                              *)
(***************************************************************************)

(* "Tokens are added at a fixed rate up to a burst capacity"               *)
(* (rate_limit.py:58): of the requests of one key that arrive in any       *)
(* window of time, no more pass than the burst and what the window's       *)
(* length earns -- although threads apply their clock readings out of      *)
(* order, and across a cleanup that forgets the bucket.  At a rate of zero *)
(* a window earns nothing, and ends when the bucket is forgotten.          *)
WindowBound == \A k \in Keys : spent[k] <= Allowance + rate * (clock - since[k])

(* "Seconds until the next token becomes available" (rate_limit.py:128-    *)
(* 145), of a key that no other request touches meanwhile: a request that  *)
(* reads the clock before the wait is over does not pass, one that reads   *)
(* it then does.  Where no token ever becomes available -- the rate is     *)
(* zero, or the burst below one token -- the wait tells nothing: a request *)
(* that does not pass at once passes at no later time either, although at  *)
(* a rate of zero the answer is 0.                                         *)
RetryAfterIsExact ==
    \A k \in Keys :
      LET wait == RetryAfter(k, clock)
      IN  /\ \A n \in clock .. (clock + wait - 1) : ~Granted(k, n)
          /\ IF rate > 0 /\ capacity >= Unit
             THEN Granted(k, clock + wait)
             ELSE ~Granted(k, clock) =>
                    \A n \in clock .. (clock + MaxAge) : ~Granted(k, n)

=============================================================================
