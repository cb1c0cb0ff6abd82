-------------------------- MODULE RateLimiterProofs --------------------------
(***************************************************************************)
(* WindowBound and RetryAfterIsExact of RateLimiter hold for every number  *)
(* of keys and threads, every positive rate and a rate of zero, every      *)
(* burst, and every cleanup age that satisfies LimiterAssumption, in exact *)
(* arithmetic.                                                             *)
(***************************************************************************)
EXTENDS RateLimiter, TLAPS

(* How far a bucket with a burst below one token starts in the red. *)
Debt == Allowance - capacity

(* A thread in the middle of a call is at most MaxLag behind the clock. *)
LagBound ==
    \A t \in Threads :
      pc[t] # "idle" => now[t] <= clock /\ clock - now[t] <= MaxLag

(* What a bucket of the limiter owes the observed window of its key.       *)
(* tokens - last_refill only falls when refills are capped or tokens are   *)
(* spent, and does not change when last_refill moves, backwards or not.    *)
BucketInv(k) ==
    buckets[k] # None =>
      /\ buckets[k].last_refill <= clock
      /\ buckets[k].tokens - buckets[k].last_refill + clock >= -Debt
      /\ buckets[k].tokens >= -Debt - MaxLag
      /\ spent[k] > 0 =>
           buckets[k].tokens - buckets[k].last_refill + spent[k] <= capacity - since[k]

(* A bucket that cleanup has removed had been full for MaxLag at least. *)
ForgottenInv(k) ==
    buckets[k] = None /\ spent[k] > 0 => spent[k] <= clock - MaxLag - since[k]

(* At a rate of zero tokens and grants only change against one another,    *)
(* and no window with a grant outlives the bucket.                         *)
IdleInv(k) ==
    /\ buckets[k] = None => spent[k] = 0
    /\ buckets[k] # None =>
         /\ buckets[k].tokens >= -Debt
         /\ buckets[k].tokens + spent[k] <= capacity

KeyInv(k) ==
    /\ since[k] <= clock
    /\ rate = 1 => BucketInv(k) /\ ForgottenInv(k)
    /\ rate = 0 => IdleInv(k)

IInv ==
    /\ TypeOK
    /\ LagBound
    /\ \A k \in Keys : KeyInv(k)

-----------------------------------------------------------------------------
(* The parameters of the arithmetic, as facts about integers. *)
LEMMA Parameters ==
    ASSUME TypeOK
    PROVE  /\ Unit \in Nat /\ Unit > 0 /\ capacity \in Nat /\ MaxAge \in Nat /\ MaxLag \in Nat
           /\ Allowance \in Nat /\ Allowance >= capacity /\ Allowance >= Unit
           /\ Debt \in Nat /\ Debt = Allowance - capacity /\ capacity - Unit >= -Debt
           /\ MaxAge >= Allowance + 2 * MaxLag
BY LimiterAssumption DEF Allowance, AllowanceOf, Debt, TypeOK

(* The limiter keeps its rate and its burst. *)
LEMMA SameParameters ==
    ASSUME UNCHANGED limiter
    PROVE  rate' = rate /\ capacity' = capacity /\ Allowance' = Allowance /\ Debt' = Debt
BY DEF limiter, Allowance, AllowanceOf, Debt

(* A tick earns one unit, or none. *)
LEMMA Earned ==
    ASSUME TypeOK
    PROVE  /\ rate = 0 \/ rate = 1
           /\ \A d \in Int : rate * d = IF rate = 0 THEN 0 ELSE d
<1>1. rate = 0 \/ rate = 1
  BY LimiterAssumption DEF TypeOK
<1>2. ASSUME NEW d \in Int PROVE rate * d = IF rate = 0 THEN 0 ELSE d
  <2>1. CASE rate = 0
    <3>1. 0 * d = 0
      OBVIOUS
    <3>2. QED
      BY <2>1, <3>1
  <2>2. CASE rate = 1
    <3>1. 1 * d = d
      OBVIOUS
    <3>2. QED
      BY <2>2, <3>1
  <2>3. QED
    BY <1>1, <2>1, <2>2
<1>3. QED
  BY <1>1, <1>2

(* What check() does to a bucket that exists, for a clock reading n: the   *)
(* level tokens - rate * last_refill never rises, a grant lowers it by     *)
(* Unit, and the tokens stay above any level the refill alone would have   *)
(* left.                                                                   *)
LEMMA ChargedBucket ==
    ASSUME TypeOK, NEW k \in Keys, NEW n \in Nat, buckets[k] # None
    PROVE  LET b == buckets[k]
               c == Charged(k, n)
               cost == IF Granted(k, n) THEN Unit ELSE 0
               earned == IF rate = 0 THEN 0 ELSE n - b.last_refill
           IN  /\ c \in Bucket
               /\ c.last_refill = n
               /\ c.tokens + cost <= capacity
               /\ c.tokens + cost <= b.tokens + earned
               /\ \/ c.tokens >= 0
                  \/ c.tokens = b.tokens + earned
<1> DEFINE earned == IF rate = 0 THEN 0 ELSE n - buckets[k].last_refill
<1>1. buckets[k].tokens \in Int /\ buckets[k].last_refill \in Nat /\ earned \in Int
  BY DEF Bucket, TypeOK
<1>2. rate * (n - buckets[k].last_refill) = earned
  BY <1>1, Earned
<1>3. /\ Refilled(buckets[k], n) \in Int
      /\ Refilled(buckets[k], n) <= capacity
      /\ Refilled(buckets[k], n) <= buckets[k].tokens + earned
      /\ \/ Refilled(buckets[k], n) = capacity
         \/ Refilled(buckets[k], n) = buckets[k].tokens + earned
  <2> HIDE DEF earned
  <2>1. QED
    BY <1>1, <1>2, Parameters DEF Refilled
<1> HIDE DEF earned
<1>4. CASE Granted(k, n)
  <2>1. Refilled(buckets[k], n) >= Unit
    BY <1>4 DEF Granted
  <2>2. Charged(k, n) = [tokens |-> Refilled(buckets[k], n) - Unit, last_refill |-> n]
    BY <1>4 DEF Charged
  <2>3. QED
    BY <1>1, <1>3, <1>4, <2>1, <2>2, Parameters DEF Bucket, earned
<1>5. CASE ~Granted(k, n)
  <2>1. Charged(k, n) = [tokens |-> Refilled(buckets[k], n), last_refill |-> n]
    BY <1>3, <1>5 DEF Charged
  <2>2. QED
    BY <1>1, <1>3, <1>5, <2>1, Parameters DEF Bucket, earned
<1>6. QED
  BY <1>4, <1>5 DEF earned

(* The bucket the first request of a key gets. *)
LEMMA NewBucket ==
    ASSUME TypeOK, NEW k \in Keys, NEW n \in Nat, buckets[k] = None
    PROVE  /\ Granted(k, n)
           /\ Charged(k, n) = [tokens |-> capacity - Unit, last_refill |-> n]
           /\ Charged(k, n) \in Bucket
           /\ capacity - Unit <= capacity
BY Parameters DEF Granted, Charged, Bucket

-----------------------------------------------------------------------------
LEMMA InitEstablishes == Init => IInv
<1> SUFFICES ASSUME Init PROVE IInv
  OBVIOUS
<1>1. TypeOK
  BY DEF Init, TypeOK
<1>2. QED
  BY <1>1 DEF Init, IInv, LagBound, KeyInv, BucketInv, ForgottenInv, IdleInv

(* check() keeps the invariant of the key it charges. *)
LEMMA CheckPreserves ==
    ASSUME IInv, NEW t \in Threads, Check(t)
    PROVE  IInv'
<1>a. PICK k \in Keys, n \in Nat : k = key[t] /\ n = now[t]
  BY DEF IInv, TypeOK
<1> DEFINE cost == IF Granted(k, n) THEN Unit ELSE 0
<1>0. /\ k \in Keys /\ n \in Nat /\ clock \in Nat /\ n <= clock /\ clock - n <= MaxLag
      /\ since[k] \in Nat /\ spent[k] \in Nat /\ since[k] <= clock /\ KeyInv(k) /\ TypeOK
  BY <1>a DEF IInv, TypeOK, LagBound, KeyInv, Check
<1>1. /\ buckets' = [buckets EXCEPT ![k] = Charged(k, n)]
      /\ spent' = IF Granted(k, n) /\ n >= since[k]
                  THEN [spent EXCEPT ![k] = @ + Unit] ELSE spent
      /\ UNCHANGED <<clock, since, key>>
      /\ UNCHANGED limiter
      /\ pc' = [pc EXCEPT ![t] = "idle"]
      /\ now' = [now EXCEPT ![t] = 0]
  BY <1>a DEF Check, Return
<1>2. /\ Charged(k, n) \in Bucket
      /\ Charged(k, n).last_refill = n
      /\ Charged(k, n).tokens \in Int
      /\ Charged(k, n).tokens <= capacity
  <2>1. CASE buckets[k] = None
    BY <2>1, <1>0, NewBucket, Parameters
  <2>2. CASE buckets[k] # None
    <3>1. cost \in Nat
      BY <1>0, Parameters
    <3>2. /\ Charged(k, n) \in Bucket
          /\ Charged(k, n).last_refill = n
          /\ Charged(k, n).tokens + cost <= capacity
      BY <2>2, <1>0, ChargedBucket
    <3> HIDE DEF cost
    <3>3. QED
      BY <3>1, <3>2, <1>0, Parameters DEF Bucket
  <2>3. QED
    BY <2>1, <2>2
<1>3. buckets'[k] = Charged(k, n) /\ buckets'[k] # None
  BY <1>0, <1>1, <1>2, LimiterAssumption DEF TypeOK
<1>4. TypeOK'
  <2>1. spent' \in [Keys -> Nat]
    BY <1>0, <1>1, Parameters DEF TypeOK
  <2>2. buckets' \in [Keys -> Bucket \cup {None}]
    BY <1>0, <1>1, <1>2 DEF TypeOK
  <2>3. ASSUME NEW j \in Keys, buckets'[j] # None PROVE buckets'[j].tokens <= capacity'
    BY <2>3, <1>0, <1>1, <1>2, <1>3, SameParameters DEF TypeOK
  <2>4. QED
    BY <2>1, <2>2, <2>3, <1>0, <1>1, SameParameters DEF TypeOK
<1>5. LagBound'
  BY <1>0, <1>1 DEF IInv, TypeOK, LagBound
<1>6. cost \in Nat /\ spent'[k] = IF n >= since[k] THEN spent[k] + cost ELSE spent[k]
  BY <1>0, <1>1, Parameters DEF TypeOK
<1> HIDE DEF cost
<1>7. ASSUME rate = 1 PROVE BucketInv(k)'
  <2>0. BucketInv(k) /\ ForgottenInv(k)
    BY <1>0, <1>7 DEF KeyInv
  <2> DEFINE c == Charged(k, n)
  <2>1. CASE buckets[k] = None
    <3>1. c.tokens = capacity - Unit /\ cost = Unit
      BY <2>1, <1>0, NewBucket DEF cost
    <3>2. spent[k] > 0 => spent[k] <= n - since[k]
      BY <2>1, <2>0, <1>0, Parameters DEF ForgottenInv
    <3>3. QED
      BY <3>1, <3>2, <1>0, <1>1, <1>2, <1>3, <1>6, Parameters, SameParameters DEF BucketInv
  <2>2. CASE buckets[k] # None
    <3> DEFINE b == buckets[k]
    <3>1. b.tokens \in Int /\ b.last_refill \in Nat
      BY <2>2, <1>0 DEF TypeOK, Bucket
    <3>2. /\ c.tokens + cost <= capacity
          /\ c.tokens + cost <= b.tokens + (n - b.last_refill)
          /\ c.tokens >= 0 \/ c.tokens = b.tokens + (n - b.last_refill)
      BY <2>2, <1>0, <1>7, ChargedBucket DEF cost
    <3>3. /\ b.tokens - b.last_refill + clock >= -Debt
          /\ spent[k] > 0 => b.tokens - b.last_refill + spent[k] <= capacity - since[k]
      BY <2>2, <2>0 DEF BucketInv
    <3> HIDE DEF b, c
    <3>4. c.tokens \in Int
      BY <1>2 DEF c
    <3>5. c.tokens - n + clock >= -Debt /\ c.tokens >= -Debt - MaxLag
      BY <3>1, <3>2, <3>3, <3>4, <1>0, Parameters
    <3>6. spent'[k] > 0 => c.tokens - n + spent'[k] <= capacity - since[k]
      <4>1. CASE spent[k] > 0
        BY <4>1, <3>1, <3>2, <3>3, <3>4, <1>0, <1>6, Parameters
      <4>2. CASE spent[k] = 0
        BY <4>2, <3>2, <3>4, <1>0, <1>6, Parameters
      <4>3. QED
        BY <4>1, <4>2, <1>0
    <3>7. QED
      BY <3>5, <3>6, <1>0, <1>1, <1>2, <1>3, SameParameters DEF BucketInv, c
  <2>3. QED
    BY <2>1, <2>2
<1>8. ASSUME rate = 0 PROVE IdleInv(k)'
  <2>0. IdleInv(k)
    BY <1>0, <1>8 DEF KeyInv
  <2> DEFINE c == Charged(k, n)
  <2>1. c.tokens \in Int /\ buckets'[k] = c /\ buckets'[k] # None
    BY <1>2, <1>3
  <2>2. c.tokens >= -Debt /\ c.tokens + spent[k] + cost <= capacity
    <3>1. CASE buckets[k] = None
      BY <3>1, <2>0, <1>0, NewBucket, Parameters DEF IdleInv, cost
    <3>2. CASE buckets[k] # None
      <4> DEFINE b == buckets[k]
      <4>1. b.tokens \in Int
        BY <3>2, <1>0 DEF TypeOK, Bucket
      <4>2. /\ c.tokens + cost <= b.tokens + 0
            /\ c.tokens >= 0 \/ c.tokens = b.tokens + 0
        BY <3>2, <1>0, <1>8, ChargedBucket DEF cost
      <4>3. b.tokens >= -Debt /\ b.tokens + spent[k] <= capacity
        BY <3>2, <2>0 DEF IdleInv
      <4> HIDE DEF b, c
      <4>4. QED
        BY <4>1, <4>2, <4>3, <2>1, <1>0, <1>6, Parameters
    <3>3. QED
      BY <3>1, <3>2
  <2> HIDE DEF c
  <2>3. QED
    BY <2>1, <2>2, <1>0, <1>1, <1>6, Parameters, SameParameters DEF IdleInv
<1>9. ASSUME NEW j \in Keys PROVE KeyInv(j)'
  <2>1. CASE j = k
    BY <2>1, <1>0, <1>1, <1>3, <1>7, <1>8, SameParameters DEF KeyInv, ForgottenInv
  <2>2. CASE j # k
    <3>1. buckets'[j] = buckets[j] /\ spent'[j] = spent[j]
      BY <2>2, <1>0, <1>1 DEF TypeOK
    <3>2. QED
      BY <3>1, <1>1, SameParameters DEF IInv, KeyInv, BucketInv, ForgottenInv, IdleInv
  <2>3. QED
    BY <2>1, <2>2
<1>10. QED
  BY <1>4, <1>5, <1>9 DEF IInv

(* At a positive rate cleanup() forgets only buckets that had been full    *)
(* for a while, so that the full bucket the next request gets is one it    *)
(* had earned; at a rate of zero the window ends with the bucket.          *)
LEMMA CleanupPreserves ==
    ASSUME IInv, NEW t \in Threads, Cleanup(t)
    PROVE  IInv'
<1> DEFINE forgotten == {k \in Keys : buckets[k] # None /\ now[t] - buckets[k].last_refill > MaxAge}
           renewed == IF rate = 0 THEN forgotten ELSE {}
<1>0. now[t] \in Nat /\ clock \in Nat /\ now[t] <= clock /\ TypeOK
  BY DEF IInv, TypeOK, LagBound, Cleanup, Forget
<1>1. /\ UNCHANGED <<clock, key>>
      /\ UNCHANGED limiter
      /\ pc' = [pc EXCEPT ![t] = "idle"]
      /\ now' = [now EXCEPT ![t] = 0]
      /\ buckets' = [k \in Keys |-> IF k \in forgotten THEN None ELSE buckets[k]]
      /\ since' = [k \in Keys |-> IF k \in renewed THEN clock ELSE since[k]]
      /\ spent' = [k \in Keys |-> IF k \in renewed THEN 0 ELSE spent[k]]
  BY DEF Cleanup, Forget, Return
<1> HIDE DEF renewed, forgotten
<1>2. TypeOK'
  BY <1>0, <1>1, SameParameters DEF TypeOK
<1>3. LagBound'
  BY <1>0, <1>1 DEF IInv, TypeOK, LagBound
<1>4. ASSUME NEW k \in Keys PROVE KeyInv(k)'
  <2>0. since[k] \in Nat /\ spent[k] \in Nat /\ KeyInv(k)
    BY DEF IInv, TypeOK
  <2>1. CASE k \in forgotten /\ rate = 1
    <3>0. buckets[k] # None /\ now[t] - buckets[k].last_refill > MaxAge
      BY <2>1 DEF forgotten
    <3>1. buckets[k].tokens \in Int /\ buckets[k].last_refill \in Nat
      BY <3>0 DEF IInv, TypeOK, Bucket
    <3>2. buckets'[k] = None /\ spent'[k] = spent[k] /\ since'[k] = since[k]
      BY <2>1, <1>1 DEF renewed
    <3>3. /\ buckets[k].tokens >= -Debt - MaxLag
          /\ spent[k] > 0 =>
               buckets[k].tokens - buckets[k].last_refill + spent[k] <= capacity - since[k]
      BY <2>0, <2>1, <3>0 DEF KeyInv, BucketInv
    <3>4. spent[k] > 0 => spent[k] <= clock - MaxLag - since[k]
      BY <3>0, <3>1, <3>3, <2>0, <1>0, Parameters
    <3>5. QED
      BY <3>2, <3>4, <2>0, <2>1, <1>1, SameParameters DEF KeyInv, BucketInv, ForgottenInv
  <2>2. CASE k \in forgotten /\ rate = 0
    <3>1. buckets'[k] = None /\ spent'[k] = 0 /\ since'[k] = clock
      BY <2>2, <1>1 DEF renewed
    <3>2. QED
      BY <3>1, <2>2, <1>0, <1>1, SameParameters DEF KeyInv, IdleInv
  <2>3. CASE k \notin forgotten
    <3>1. buckets'[k] = buckets[k] /\ spent'[k] = spent[k] /\ since'[k] = since[k]
      BY <2>3, <1>1 DEF renewed
    <3>2. QED
      BY <3>1, <2>0, <1>1, SameParameters DEF KeyInv, BucketInv, ForgottenInv, IdleInv
  <2>4. QED
    BY <2>1, <2>2, <2>3, <1>0, Earned
<1>5. QED
  BY <1>2, <1>3, <1>4 DEF IInv

LEMMA NextPreserves == IInv /\ [Next]_vars => IInv'
<1> SUFFICES ASSUME IInv, [Next]_vars PROVE IInv'
  OBVIOUS
<1>0. TypeOK /\ LagBound /\ \A k \in Keys : KeyInv(k)
  BY DEF IInv
<1>1. CASE Tick
  <2>1. TypeOK' /\ LagBound'
    BY <1>0, <1>1, Parameters, SameParameters DEF Tick, LagBound, TypeOK
  <2>2. ASSUME NEW k \in Keys PROVE KeyInv(k)'
    <3>1. /\ since[k] \in Nat /\ spent[k] \in Nat /\ clock \in Nat /\ clock' = clock + 1
          /\ buckets' = buckets /\ spent' = spent /\ since' = since /\ UNCHANGED limiter
          /\ buckets[k] # None => buckets[k].tokens \in Int /\ buckets[k].last_refill \in Nat
          /\ KeyInv(k)
      BY <1>0, <1>1 DEF Tick, TypeOK, Bucket
    <3>2. QED
      BY <3>1, <1>0, Parameters, SameParameters DEF KeyInv, BucketInv, ForgottenInv, IdleInv
  <2>3. QED
    BY <2>1, <2>2 DEF IInv
<1>2. ASSUME NEW t \in Threads, NEW k \in Keys, NEW next \in {"check", "cleanup"},
             ReadClock(t, k, next)
      PROVE  IInv'
  <2>1. TypeOK'
    BY <1>0, <1>2, SameParameters DEF ReadClock, TypeOK
  <2>2. LagBound'
    BY <1>0, <1>2, Parameters DEF ReadClock, LagBound, TypeOK
  <2>3. UNCHANGED limiter /\ UNCHANGED <<clock, buckets, since, spent>>
    BY <1>2 DEF ReadClock
  <2>4. QED
    BY <1>0, <2>1, <2>2, <2>3, SameParameters
       DEF IInv, KeyInv, BucketInv, ForgottenInv, IdleInv
<1>3. ASSUME NEW t \in Threads, NEW k \in Keys, Arrive(t, k) PROVE IInv'
  BY <1>2, <1>3 DEF Arrive
<1>4. ASSUME NEW t \in Threads, Check(t) PROVE IInv'
  BY <1>4, CheckPreserves
<1>5. ASSUME NEW t \in Threads, CleanupBegin(t) PROVE IInv'
  BY <1>0, <1>2, <1>5 DEF CleanupBegin, TypeOK
<1>6. ASSUME NEW t \in Threads, Cleanup(t) PROVE IInv'
  BY <1>6, CleanupPreserves
<1>7. CASE Reset
  <2>1. TypeOK' /\ LagBound'
    BY <1>0, <1>7, SameParameters DEF Reset, LagBound, TypeOK
  <2>2. ASSUME NEW k \in Keys PROVE KeyInv(k)'
    BY <1>0, <1>7, SameParameters DEF Reset, KeyInv, BucketInv, ForgottenInv, IdleInv, TypeOK
  <2>3. QED
    BY <2>1, <2>2 DEF IInv
<1>8. ASSUME NEW k \in Keys, Observe(k) PROVE IInv'
  <2>1. TypeOK' /\ LagBound'
    BY <1>0, <1>8, SameParameters DEF Observe, LagBound, TypeOK
  <2>2. ASSUME NEW j \in Keys PROVE KeyInv(j)'
    <3>0. /\ UNCHANGED limiter /\ clock' = clock /\ buckets' = buckets
          /\ since' = [since EXCEPT ![k] = clock] /\ spent' = [spent EXCEPT ![k] = 0]
          /\ clock \in Nat /\ since \in [Keys -> Nat] /\ spent \in [Keys -> Nat] /\ KeyInv(j)
      BY <1>0, <1>8 DEF Observe, TypeOK
    <3>1. CASE j = k
      <4>1. since'[j] = clock /\ spent'[j] = 0
        BY <3>0, <3>1
      <4>2. /\ spent[j] \in Nat /\ capacity \in Nat
            /\ buckets[j] # None => buckets[j].tokens \in Int /\ buckets[j].tokens <= capacity
        BY <1>0, Parameters DEF TypeOK, Bucket
      <4>3. QED
        BY <3>0, <4>1, <4>2, SameParameters DEF KeyInv, BucketInv, ForgottenInv, IdleInv
    <3>2. CASE j # k
      <4>1. since'[j] = since[j] /\ spent'[j] = spent[j]
        BY <3>0, <3>2
      <4>2. QED
        BY <3>0, <4>1, SameParameters DEF KeyInv, BucketInv, ForgottenInv, IdleInv
    <3>3. QED
      BY <3>1, <3>2
  <2>3. QED
    BY <2>1, <2>2 DEF IInv
<1>9. CASE UNCHANGED vars
  <2>1. UNCHANGED limiter /\ UNCHANGED <<clock, buckets, pc, now, key, since, spent>>
    BY <1>9 DEF vars
  <2>2. QED
    BY <1>0, <2>1, SameParameters
       DEF IInv, TypeOK, LagBound, KeyInv, BucketInv, ForgottenInv, IdleInv
<1>10. QED
  BY <1>1, <1>3, <1>4, <1>5, <1>6, <1>7, <1>8, <1>9 DEF Next

LEMMA InvariantImpliesBound == IInv => WindowBound
<1> SUFFICES ASSUME IInv, NEW k \in Keys
             PROVE  spent[k] <= Allowance + rate * (clock - since[k])
  BY DEF WindowBound
<1>1. /\ spent[k] \in Nat /\ since[k] \in Nat /\ clock \in Nat /\ since[k] <= clock
      /\ KeyInv(k) /\ TypeOK
      /\ buckets[k] # None => buckets[k].tokens \in Int /\ buckets[k].last_refill \in Nat
  BY DEF IInv, KeyInv, TypeOK, Bucket
<1>2. rate * (clock - since[k]) = IF rate = 0 THEN 0 ELSE clock - since[k]
  BY <1>1, Earned
<1>3. CASE rate = 0
  <2>1. spent[k] <= Allowance
    BY <1>1, <1>3, Parameters DEF KeyInv, IdleInv
  <2>2. QED
    BY <2>1, <1>1, <1>2, <1>3, Parameters
<1>4. CASE rate = 1
  <2>1. spent[k] <= Allowance + (clock - since[k])
    <3>1. CASE buckets[k] = None
      BY <3>1, <1>1, <1>4, Parameters DEF KeyInv, ForgottenInv
    <3>2. CASE buckets[k] # None
      BY <3>2, <1>1, <1>4, Parameters DEF KeyInv, BucketInv
    <3>3. QED
      BY <3>1, <3>2
  <2>2. QED
    BY <2>1, <1>1, <1>2, <1>4, Parameters
<1>5. QED
  BY <1>1, <1>3, <1>4, Earned

(* The arithmetic of the wait: it is what is missing from one token, and   *)
(* so the refill reaches a token after it and not a tick sooner.  Where    *)
(* nothing is earned, or the burst is below one token, no refill does.     *)
LEMMA WaitIsExact ==
    ASSUME TypeOK, NEW k \in Keys
    PROVE  LET wait == RetryAfter(k, clock)
           IN  /\ \A n \in clock .. (clock + wait - 1) : ~Granted(k, n)
               /\ IF rate > 0 /\ capacity >= Unit
                  THEN Granted(k, clock + wait)
                  ELSE ~Granted(k, clock) =>
                         \A n \in clock .. (clock + MaxAge) : ~Granted(k, n)
<1> DEFINE wait == RetryAfter(k, clock)
           b == buckets[k]
<1>1. /\ clock \in Nat /\ Unit \in Nat /\ Unit > 0 /\ capacity \in Nat /\ MaxAge \in Nat
      /\ rate = 0 \/ rate = 1
  BY Parameters, Earned DEF TypeOK
<1>2. CASE b = None
  <2>1. wait = 0 /\ \A n \in Nat : Granted(k, n)
    BY <1>2 DEF RetryAfter, Granted
  <2>2. QED
    BY <2>1, <1>1
<1>3. CASE b # None
  <2>1. b.tokens \in Int /\ b.last_refill \in Nat
    BY <1>3 DEF TypeOK, Bucket
  <2>2. CASE rate = 0
    <3>1. ASSUME NEW n \in Nat PROVE Refilled(b, n) = IF b.tokens > capacity THEN capacity ELSE b.tokens
      <4>1. rate * (n - b.last_refill) = 0
        BY <2>1, <2>2, Earned
      <4>2. QED
        BY <4>1, <2>1 DEF Refilled
    <3>2. wait = 0
      BY <2>2 DEF RetryAfter
    <3>3. \A n \in Nat : Granted(k, n) <=> Granted(k, clock)
      BY <3>1, <1>1, <1>3 DEF Granted
    <3>4. QED
      BY <3>2, <3>3, <2>2, <1>1
  <2>3. CASE rate = 1
    <3>1. ASSUME NEW n \in Nat
          PROVE  Refilled(b, n) = IF b.tokens + (n - b.last_refill) > capacity
                                  THEN capacity ELSE b.tokens + (n - b.last_refill)
      <4>1. rate * (n - b.last_refill) = n - b.last_refill
        BY <2>1, <2>3, Earned
      <4>2. QED
        BY <4>1 DEF Refilled
    <3>2. CASE Refilled(b, clock) >= Unit
      <4>1. wait = 0 /\ Granted(k, clock) /\ capacity >= Unit
        BY <3>1, <3>2, <2>1, <2>3, <1>1 DEF RetryAfter, Granted
      <4>2. QED
        BY <4>1, <2>3, <1>1
    <3>3. CASE ~(Refilled(b, clock) >= Unit) /\ capacity >= Unit
      <4>1. /\ b.tokens + (clock - b.last_refill) < Unit
            /\ wait = Unit - (b.tokens + (clock - b.last_refill))
        BY <3>1, <3>3, <2>1, <2>3, <1>1, <1>3 DEF RetryAfter
      <4>2. wait \in Nat /\ wait > 0
        BY <4>1, <2>1, <1>1
      <4> HIDE DEF wait
      <4>3. Refilled(b, clock + wait) = Unit
        BY <3>1, <3>3, <4>1, <4>2, <2>1, <1>1
      <4>4. ASSUME NEW n \in clock .. (clock + wait - 1) PROVE ~Granted(k, n)
        <5>1. n \in Nat /\ n < clock + wait
          BY <4>2, <1>1
        <5>2. Refilled(b, n) < Unit
          BY <5>1, <3>1, <4>1, <4>2, <2>1, <1>1
        <5>3. QED
          BY <5>1, <5>2, <3>1, <2>1, <1>1, <1>3 DEF Granted
      <4>5. Granted(k, clock + wait)
        BY <4>3, <1>1 DEF Granted
      <4>6. QED
        BY <4>4, <4>5, <3>3, <2>3, <1>1 DEF wait
    <3>4. CASE ~(Refilled(b, clock) >= Unit) /\ ~(capacity >= Unit)
      <4>1. ASSUME NEW n \in Nat PROVE ~Granted(k, n)
        BY <3>1, <3>4, <2>1, <1>1, <1>3 DEF Granted
      <4>2. wait \in Int
        BY <3>1, <3>4, <2>1, <1>1 DEF RetryAfter
      <4>3. QED
        BY <4>1, <4>2, <3>4, <1>1
    <3>5. QED
      BY <3>2, <3>3, <3>4
  <2>4. QED
    BY <2>2, <2>3, <1>1
<1>4. QED
  BY <1>2, <1>3

-----------------------------------------------------------------------------
(* The limiter's state keeps its shape in every reachable state. *)
THEOREM LimiterTypeCorrect == Spec => []TypeOK
<1>1. IInv => TypeOK
  BY DEF IInv
<1>2. QED
  BY <1>1, InitEstablishes, NextPreserves, PTL DEF Spec

(* No interleaving of check(), cleanup() and reset(), with clock readings  *)
(* as old as MaxLag, lets more requests of a window through than the burst *)
(* and the window's length pay for (rate_limit.py:81-112, 152-168).        *)
THEOREM LimiterWindowBound == Spec => []WindowBound
BY InitEstablishes, NextPreserves, InvariantImpliesBound, PTL DEF Spec

(* In every reachable state no request passes before the wait that        *)
(* retry_after() names is over; after it one does, unless the rate is zero *)
(* or the burst below one token, when none that does not pass at once ever *)
(* does (rate_limit.py:128-145).                                           *)
THEOREM LimiterWaitIsExact == Spec => []RetryAfterIsExact
<1>1. TypeOK => RetryAfterIsExact
  BY WaitIsExact DEF RetryAfterIsExact
<1>2. QED
  BY <1>1, LimiterTypeCorrect, PTL

=============================================================================
