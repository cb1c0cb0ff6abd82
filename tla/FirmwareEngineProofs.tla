------------------------ MODULE FirmwareEngineProofs ------------------------
(***************************************************************************)
(* Proofs about FirmwareEngine, and the matcher and cache it is made of,   *)
(* for every number of threads, hosts, profiles and edits and every list   *)
(* of rules.                                                               *)
(*                                                                         *)
(* The first part is about data: two stable sorts and a filter find the    *)
(* best rule.  The second is about the cache alone: what it and the loads  *)
(* hold is a real version, and after the last clear() unless a load was    *)
(* under way then.  The third follows a call from its rule to the served   *)
(* directory.  The fourth is about the loader with a clock, as TTLCache    *)
(* has it.                                                                 *)
(***************************************************************************)
EXTENDS FirmwareEngine, FiniteSetTheorems, FunctionTheorems, SequenceTheorems,
        WellFoundedInduction, TLAPS

-----------------------------------------------------------------------------
(***************************************************************************)
(* The sorts of HostMatcher                                                *)
(***************************************************************************)

(* Of two different members of S one comes before the other, as in a list. *)
LinearOn(S, before) ==
    /\ \A x \in S : <<x, x>> \notin before
    /\ \A x, y \in S : x = y \/ <<x, y>> \in before \/ <<y, x>> \in before
    /\ \A x, y, z \in S : <<x, y>> \in before /\ <<y, z>> \in before => <<x, z>> \in before

(* f lists all the members of S, each before those it comes before. *)
Lists(f, S, before) ==
    /\ Cardinality(S) \in Nat
    /\ f \in [1 .. Cardinality(S) -> S]
    /\ \A x \in S : \E k \in DOMAIN f : f[k] = x
    /\ \A k, l \in DOMAIN f : k < l => <<f[k], f[l]>> \in before

(* InOrder lists a finite set: the place of a member is the number of      *)
(* those before it.                                                        *)
LEMMA InOrderLists ==
    ASSUME NEW S, IsFiniteSet(S), NEW before, LinearOn(S, before)
    PROVE  Lists(InOrder(S, before), S, before)
<1> DEFINE D(x) == {y \in S : <<y, x>> \in before}
<1> DEFINE n == Cardinality(S)
<1> DEFINE Rank == [x \in S |-> Cardinality(D(x)) + 1]
<1>1. n \in Nat
      BY FS_CardinalityType
<1>2. ASSUME NEW x \in S
      PROVE  IsFiniteSet(D(x)) /\ Cardinality(D(x)) \in 0 .. n - 1
  <2>1. D(x) \in SUBSET S /\ x \notin D(x)
        BY DEF LinearOn
  <2>2. IsFiniteSet(D(x)) /\ Cardinality(D(x)) <= n /\ (n = Cardinality(D(x)) => S = D(x))
        BY <2>1, FS_Subset
  <2>3. Cardinality(D(x)) \in Nat
        BY <2>2, FS_CardinalityType
  <2>4. n # Cardinality(D(x))
        BY <2>1, <2>2
  <2> HIDE DEF D, n
  <2> QED BY <1>1, <2>2, <2>3, <2>4
<1>3. ASSUME NEW x \in S, NEW y \in S, <<x, y>> \in before
      PROVE  Rank[x] < Rank[y]
  <2>1. D(x) \in SUBSET D(y)
        BY <1>3 DEF LinearOn
  <2>2. x \in D(y) /\ x \notin D(x)
        BY <1>3 DEF LinearOn
  <2>3. IsFiniteSet(D(y)) /\ Cardinality(D(y)) \in Nat /\ Cardinality(D(x)) \in Nat
        BY <1>1, <1>2
  <2> HIDE DEF D
  <2>4. /\ Cardinality(D(x)) <= Cardinality(D(y))
        /\ Cardinality(D(y)) = Cardinality(D(x)) => D(y) = D(x)
        BY <2>1, <2>3, FS_Subset
  <2>5. Cardinality(D(x)) # Cardinality(D(y))
        BY <2>2, <2>4
  <2> QED BY <2>3, <2>4, <2>5
<1>4. Rank \in [S -> 1 .. n]
  <2> HIDE DEF D, n
  <2>1. \A x \in S : Cardinality(D(x)) + 1 \in 1 .. n
        BY <1>1, <1>2
  <2> QED BY <2>1
<1> HIDE DEF Rank
<1>5. \A x \in S : Rank[x] \in 1 .. n
      BY <1>4
<1>6. \A x, y \in S : Rank[x] = Rank[y] => x = y
  <2> SUFFICES ASSUME NEW x \in S, NEW y \in S, Rank[x] = Rank[y], x # y PROVE FALSE
      OBVIOUS
  <2>1. <<x, y>> \in before \/ <<y, x>> \in before
        BY DEF LinearOn
  <2>2. Rank[x] < Rank[y] \/ Rank[y] < Rank[x]
        BY <1>3, <2>1
  <2>3. Rank[x] \in 1 .. n
        BY <1>5
  <2> QED BY <1>1, <2>2, <2>3
<1>7. Rank \in Surjection(S, 1 .. n)
  <2>1. Rank \in Injection(S, 1 .. n)
        BY <1>4, <1>6 DEF Injection, IsInjective
  <2>2. IsFiniteSet(1 .. n) /\ Cardinality(1 .. n) = n
        BY <1>1, FS_Interval
  <2> QED BY <2>1, <2>2, FS_Injection
<1>8. \A k \in 1 .. n : \E x \in S : Rank[x] = k
      BY <1>7 DEF Surjection
<1> DEFINE f == InOrder(S, before)
<1>9. DOMAIN f = 1 .. n
      BY DEF InOrder
<1>10. ASSUME NEW k \in 1 .. n PROVE f[k] \in S /\ Rank[f[k]] = k
  <2>1. f[k] = CHOOSE x \in S : Cardinality(D(x)) = k - 1
        BY DEF InOrder
  <2>2. PICK x \in S : Rank[x] = k
        BY <1>8
  <2>3. \A y \in S : Rank[y] = k <=> Cardinality(D(y)) = k - 1
    <3>1. \A y \in S : Rank[y] = Cardinality(D(y)) + 1 /\ Cardinality(D(y)) \in 0 .. n - 1
          BY <1>2 DEF Rank
    <3> HIDE DEF D
    <3> QED BY <3>1, <1>1
  <2> HIDE DEF D, f
  <2> QED BY <2>1, <2>2, <2>3
<1>11. f = [k \in 1 .. n |-> f[k]]
  <2> DEFINE c(k) == CHOOSE x \in S : Cardinality(D(x)) = k - 1
  <2>1. f = [k \in 1 .. n |-> c(k)]
        BY DEF InOrder
  <2> HIDE DEF c, f
  <2> QED BY <2>1
<1> HIDE DEF f, D
<1>12. f \in [1 .. n -> S]
      BY <1>10, <1>11
<1>13. ASSUME NEW x \in S PROVE \E k \in DOMAIN f : f[k] = x
  <2>1. Rank[x] \in DOMAIN f /\ Rank[f[Rank[x]]] = Rank[x] /\ f[Rank[x]] \in S
        BY <1>5, <1>9, <1>10
  <2> QED BY <1>6, <2>1
<1>14. ASSUME NEW k \in DOMAIN f, NEW l \in DOMAIN f, k < l
       PROVE  <<f[k], f[l]>> \in before
  <2>1. k \in 1 .. n /\ l \in 1 .. n
        BY <1>9
  <2>2. /\ f[k] \in S /\ Rank[f[k]] = k
        /\ f[l] \in S /\ Rank[f[l]] = l
        BY <1>10, <2>1
  <2>3. f[k] # f[l]
        BY <1>1, <1>14, <2>1, <2>2
  <2>4. ~ (<<f[l], f[k]>> \in before)
    <3>1. <<f[l], f[k]>> \in before => Rank[f[l]] < Rank[f[k]]
          BY <1>3, <2>2
    <3> QED BY <1>1, <1>14, <2>1, <2>2, <3>1
  <2> QED BY <2>2, <2>3, <2>4 DEF LinearOn
<1> QED BY <1>1, <1>12, <1>13, <1>14 DEF Lists, f

-----------------------------------------------------------------------------
(* Where the elements of the sequence f come from: they are the elements   *)
(* of s at the places S, in the order of the places.                       *)
Taken(a, f, s, S, before, X) ==
    /\ f \in Seq(X) /\ Len(f) \in Nat /\ DOMAIN f = 1 .. Len(f)
    /\ \A k \in 1 .. Len(f) : f[k] = s[a[k]] /\ a[k] \in S
    /\ \A i \in S : \E k \in 1 .. Len(f) : a[k] = i
    /\ \A k, l \in 1 .. Len(f) : k < l => <<a[k], a[l]>> \in before

(* Elements taken from a list of places. *)
LEMMA ListedAreTaken ==
    ASSUME NEW X, NEW s, NEW n \in Nat, s \in [1 .. n -> X], NEW S, S \subseteq 1 .. n,
           NEW before, NEW a, NEW f, Lists(a, S, before), f = [k \in DOMAIN a |-> s[a[k]]]
    PROVE  Taken(a, f, s, S, before, X)
<1>1. /\ Cardinality(S) \in Nat
      /\ a \in [1 .. Cardinality(S) -> S]
      /\ \A i \in S : \E k \in DOMAIN a : a[k] = i
      /\ \A k, l \in DOMAIN a : k < l => <<a[k], a[l]>> \in before
      BY DEF Lists
<1>2. \A k \in 1 .. Cardinality(S) : a[k] \in S /\ a[k] \in 1 .. n /\ s[a[k]] \in X
      BY <1>1
<1>3. f \in [1 .. Cardinality(S) -> X]
      BY <1>1, <1>2
<1>4. f \in Seq(X) /\ Len(f) = Cardinality(S) /\ DOMAIN f = 1 .. Len(f)
      BY <1>1, <1>3, SeqDef, LenProperties
<1> QED BY <1>1, <1>2, <1>4 DEF Taken

(* KeepIn takes the elements that are in S in the order of s. *)
LEMMA KeepInTakes ==
    ASSUME NEW X, NEW s, NEW n \in Nat, s \in [1 .. n -> X], NEW S
    PROVE  LET places == {i \in DOMAIN s : s[i] \in S}
           IN  \E a : Taken(a, KeepIn(s, S), s, places, Earlier(s), X)
<1> DEFINE places == {i \in DOMAIN s : s[i] \in S}
<1> DEFINE a == InOrder(places, Earlier(s))
<1>1. IsFiniteSet(places)
      BY FS_Interval, FS_Subset
<1>2. LinearOn(places, Earlier(s))
  <2>1. \A x, y \in places : /\ x \in Nat /\ y \in Nat
                             /\ <<x, y>> \in Earlier(s) <=> x < y
        BY DEF Earlier, Pairs
  <2> HIDE DEF places
  <2> QED BY <2>1 DEF LinearOn
<1>3. Lists(a, places, Earlier(s))
      BY <1>1, <1>2, InOrderLists
<1>4. KeepIn(s, S) = [k \in DOMAIN a |-> s[a[k]]]
      BY DEF KeepIn
<1>5. places \subseteq 1 .. n
      OBVIOUS
<1> HIDE DEF a, places
<1>6. Taken(a, KeepIn(s, S), s, places, Earlier(s), X)
      BY <1>3, <1>4, <1>5, ListedAreTaken
<1> QED BY <1>6 DEF places

(* What a key of a sort is: values that come before each other, or are     *)
(* equal.                                                                  *)
WeakOn(X, before) ==
    /\ \A x, y \in X : <<x, y>> \in before => <<y, x>> \notin before
    /\ \A x, y, z \in X : <<x, z>> \in before => <<x, y>> \in before \/ <<y, z>> \in before

(* Sorted takes all the elements in the order of the sort. *)
LEMMA SortedTakes ==
    ASSUME NEW X, NEW s, NEW n \in Nat, s \in [1 .. n -> X], NEW before, WeakOn(X, before)
    PROVE  \E a : Taken(a, Sorted(s, before), s, 1 .. n, SortedBefore(s, before), X)
<1> DEFINE a == InOrder(DOMAIN s, SortedBefore(s, before))
<1>1. IsFiniteSet(DOMAIN s)
      BY FS_Interval
<1>2. LinearOn(DOMAIN s, SortedBefore(s, before))
  <2>1. \A i, j \in DOMAIN s :
          /\ i \in Nat /\ j \in Nat
          /\ s[i] \in X /\ s[j] \in X
          /\ <<i, j>> \in SortedBefore(s, before) <=>
               \/ <<s[i], s[j]>> \in before
               \/ ~ (<<s[j], s[i]>> \in before) /\ i < j
        BY DEF SortedBefore, Earlier, Pairs
  <2>2. ASSUME NEW i \in DOMAIN s PROVE ~ (<<i, i>> \in SortedBefore(s, before))
    <3>1. ~ (<<s[i], s[i]>> \in before)
          BY <2>1 DEF WeakOn
    <3>2. i \in Nat /\ (<<i, i>> \in SortedBefore(s, before) => <<s[i], s[i]>> \in before \/ i < i)
          BY <2>1
    <3> QED BY <3>1, <3>2
  <2>3. ASSUME NEW i \in DOMAIN s, NEW j \in DOMAIN s
        PROVE  i = j \/ <<i, j>> \in SortedBefore(s, before) \/ <<j, i>> \in SortedBefore(s, before)
    <3>1. /\ i \in Nat /\ j \in Nat
          /\ <<s[i], s[j]>> \in before => <<i, j>> \in SortedBefore(s, before)
          /\ <<s[j], s[i]>> \in before => <<j, i>> \in SortedBefore(s, before)
          /\ ~ (<<s[j], s[i]>> \in before) /\ i < j => <<i, j>> \in SortedBefore(s, before)
          /\ ~ (<<s[i], s[j]>> \in before) /\ j < i => <<j, i>> \in SortedBefore(s, before)
          BY <2>1
    <3> QED BY <3>1
  <2>4. ASSUME NEW i \in DOMAIN s, NEW j \in DOMAIN s, NEW k \in DOMAIN s,
               <<i, j>> \in SortedBefore(s, before), <<j, k>> \in SortedBefore(s, before)
        PROVE  <<i, k>> \in SortedBefore(s, before)
    <3> DEFINE b(x, y) == <<s[x], s[y]>> \in before
    <3>1. /\ b(i, j) => b(i, k) \/ b(k, j)
          /\ b(j, k) => b(j, i) \/ b(i, k)
          /\ b(k, i) => b(k, j) \/ b(j, i)
          BY <2>1 DEF WeakOn
    <3>2. b(i, j) \/ (~b(j, i) /\ i < j)
          BY <2>1, <2>4
    <3>3. b(j, k) \/ (~b(k, j) /\ j < k)
          BY <2>1, <2>4
    <3>4. ~(b(i, j) /\ b(j, i)) /\ ~(b(j, k) /\ b(k, j))
          BY <2>1 DEF WeakOn
    <3>5. i \in Nat /\ j \in Nat /\ k \in Nat
          BY <2>1
    <3>6. b(i, k) \/ (~b(k, i) /\ i < k)
      <4> HIDE DEF b
      <4> QED BY <3>1, <3>2, <3>3, <3>4, <3>5
    <3> QED BY <2>1, <3>6
  <2> QED BY <2>2, <2>3, <2>4 DEF LinearOn
<1>3. Lists(a, DOMAIN s, SortedBefore(s, before))
      BY <1>1, <1>2, InOrderLists
<1>4. Sorted(s, before) = [k \in DOMAIN a |-> s[a[k]]]
      BY DEF Sorted
<1>5. DOMAIN s = 1 .. n /\ 1 .. n \subseteq 1 .. n
      OBVIOUS
<1> HIDE DEF a
<1>6. Taken(a, Sorted(s, before), s, 1 .. n, SortedBefore(s, before), X)
      BY <1>3, <1>4, <1>5, ListedAreTaken
<1> QED BY <1>6

-----------------------------------------------------------------------------
(***************************************************************************)
(* The answer of HostMatcher                                               *)
(***************************************************************************)

(* The tier of a rule is the first of the criteria tried, if there is one. *)
LEMMA TierIsFirst ==
    ASSUME NEW rule, NEW h
    PROVE  /\ Tier(rule, h) \in Int
           /\ Tried(rule, h) # {} =>
                /\ Min(Tried(rule, h)) \in Tried(rule, h)
                /\ \A i \in Tried(rule, h) : i \in 1 .. 7 /\ Min(Tried(rule, h)) <= i
<1> DEFINE T == Tried(rule, h)
<1>1. DOMAIN Criteria = 1 .. 7 /\ Len(Criteria) = 7
      BY DEF Criteria
<1>2. T \subseteq 1 .. 7
      BY <1>1 DEF Tried
<1> HIDE DEF T
<1>3. T # {} => \E n \in T : \A m \in T : n <= m
  <2>1. \A m \in T : /\ m \in 1 .. 7
                     /\ m = 1 \/ m = 2 \/ m = 3 \/ m = 4 \/ m = 5 \/ m = 6 \/ m = 7
        BY <1>2
  <2>2. 1 \in T => \E n \in T : \A m \in T : n <= m
        BY <2>1
  <2>3. 1 \notin T /\ 2 \in T => \E n \in T : \A m \in T : n <= m
        BY <2>1
  <2>4. {1, 2} \cap T = {} /\ 3 \in T => \E n \in T : \A m \in T : n <= m
        BY <2>1
  <2>5. {1, 2, 3} \cap T = {} /\ 4 \in T => \E n \in T : \A m \in T : n <= m
        BY <2>1
  <2>6. {1, 2, 3, 4} \cap T = {} /\ 5 \in T => \E n \in T : \A m \in T : n <= m
        BY <2>1
  <2>7. {1, 2, 3, 4, 5} \cap T = {} /\ T # {} => \E n \in T : \A m \in T : n <= m
        BY <2>1
  <2> QED BY <2>2, <2>3, <2>4, <2>5, <2>6, <2>7
<1>4. T # {} => Min(T) \in T /\ \A m \in T : Min(T) <= m
      BY <1>3 DEF Min
<1>5. Tier(rule, h) = IF T = {} THEN 8 ELSE Min(T)
      BY <1>1 DEF Tier, CatchAll, T
<1> QED BY <1>2, <1>4, <1>5 DEF T

(* Both keys of the sorts are orders of values. *)
LEMMA KeysAreOrders ==
    ASSUME NEW rules, \A r \in Range(rules) : r.priority \in Int, NEW h
    PROVE  /\ WeakOn(Range(rules), PriorityBefore(rules))
           /\ WeakOn(Range(rules), TierBefore(rules, h))
<1> DEFINE R == Range(rules)
<1>1. \A r, q \in R : /\ r.priority \in Int
                      /\ <<r, q>> \in PriorityBefore(rules) <=> r.priority < q.priority
      BY DEF PriorityBefore, Pairs
<1>2. \A r \in R : Tier(r, h) \in Int
      BY TierIsFirst
<1>3. \A r, q \in R : <<r, q>> \in TierBefore(rules, h) <=>
        \/ Tier(r, h) < Tier(q, h)
        \/ Tier(r, h) = Tier(q, h) /\ r.priority < q.priority
      BY <1>1 DEF TierBefore, Pairs
<1> HIDE DEF R
<1>4. WeakOn(R, PriorityBefore(rules))
  <2>1. ASSUME NEW r \in R, NEW q \in R, <<r, q>> \in PriorityBefore(rules)
        PROVE  ~ (<<q, r>> \in PriorityBefore(rules))
    <3>1. /\ r.priority \in Int /\ q.priority \in Int
          /\ r.priority < q.priority
          /\ <<q, r>> \in PriorityBefore(rules) => q.priority < r.priority
          BY <1>1, <2>1
    <3> QED BY <3>1
  <2>2. ASSUME NEW r \in R, NEW p \in R, NEW q \in R, <<r, q>> \in PriorityBefore(rules)
        PROVE  <<r, p>> \in PriorityBefore(rules) \/ <<p, q>> \in PriorityBefore(rules)
    <3>1. /\ r.priority \in Int /\ p.priority \in Int /\ q.priority \in Int
          /\ r.priority < q.priority
          /\ r.priority < p.priority => <<r, p>> \in PriorityBefore(rules)
          /\ p.priority < q.priority => <<p, q>> \in PriorityBefore(rules)
          BY <1>1, <2>2
    <3> QED BY <3>1
  <2> QED BY <2>1, <2>2 DEF WeakOn
<1>5. ASSUME NEW r \in R, NEW q \in R, <<r, q>> \in TierBefore(rules, h)
      PROVE  ~ (<<q, r>> \in TierBefore(rules, h))
      BY <1>1, <1>2, <1>3, <1>5
<1>6. ASSUME NEW r \in R, NEW p \in R, NEW q \in R, <<r, q>> \in TierBefore(rules, h)
      PROVE  <<r, p>> \in TierBefore(rules, h) \/ <<p, q>> \in TierBefore(rules, h)
  <2>1. /\ r.priority \in Int /\ p.priority \in Int /\ q.priority \in Int
        /\ Tier(r, h) \in Int /\ Tier(p, h) \in Int /\ Tier(q, h) \in Int
        BY <1>1, <1>2
  <2>2. \/ Tier(r, h) < Tier(q, h)
        \/ Tier(r, h) = Tier(q, h) /\ r.priority < q.priority
        BY <1>3, <1>6
  <2>3. /\ Tier(r, h) < Tier(p, h) => <<r, p>> \in TierBefore(rules, h)
        /\ Tier(r, h) = Tier(p, h) /\ r.priority < p.priority => <<r, p>> \in TierBefore(rules, h)
        /\ Tier(p, h) < Tier(q, h) => <<p, q>> \in TierBefore(rules, h)
        /\ Tier(p, h) = Tier(q, h) /\ p.priority < q.priority => <<p, q>> \in TierBefore(rules, h)
        BY <1>3
  <2> QED BY <2>1, <2>2, <2>3
<1>7. WeakOn(R, TierBefore(rules, h))
      BY <1>5, <1>6 DEF WeakOn
<1> QED BY <1>4, <1>7 DEF R

(* Whatever the rules, match() gives a host one of those that match it and *)
(* are beaten by no other, if there is one (matcher.py:17-42).             *)
THEOREM AnswerIsBest ==
    ASSUME NEW X, \A r \in X : r.priority \in Int, NEW rules \in Seq(X), NEW h
    PROVE  BestAnswer(rules, h) /\ Candidates(rules, h) \in Seq(Range(rules))
<1> DEFINE n == Len(rules)
<1> DEFINE R == Range(rules)
<1> DEFINE P == ByPriority(rules)
<1> DEFINE fits == {r \in R : Matches(r, h)}
<1> DEFINE M == Matching(rules, h)
<1> DEFINE C == Candidates(rules, h)
<1> DEFINE PB == PriorityBefore(rules)
<1> DEFINE TB == TierBefore(rules, h)
<1>1. /\ n \in Nat /\ DOMAIN rules = 1 .. n
      /\ \A i \in 1 .. n : rules[i] \in R /\ rules[i] \in X
      BY DEF Range
<1>2. rules \in [1 .. n -> R] /\ \A r \in R : r.priority \in Int
      BY <1>1 DEF Range
<1>3. WeakOn(R, PB) /\ WeakOn(R, TB)
      BY <1>2, KeysAreOrders
<1>4. P = Sorted(rules, PB) /\ M = KeepIn(P, fits) /\ C = Sorted(M, TB)
      BY DEF ByPriority, Matching, Candidates
<1>5. \A r, q \in R :
        /\ r.priority \in Int /\ Tier(r, h) \in Int
        /\ <<r, q>> \in PB <=> r.priority < q.priority
        /\ <<r, q>> \in TB <=> \/ Tier(r, h) < Tier(q, h)
                               \/ Tier(r, h) = Tier(q, h) /\ r.priority < q.priority
      BY <1>2, TierIsFirst DEF PriorityBefore, TierBefore, Pairs
<1> HIDE DEF R, P, M, C, PB, TB, fits
<1>6. PICK a : Taken(a, P, rules, 1 .. n, SortedBefore(rules, PB), R)
      BY <1>1, <1>2, <1>3, <1>4, SortedTakes
<1>7. /\ P \in Seq(R) /\ Len(P) \in Nat /\ DOMAIN P = 1 .. Len(P)
      /\ \A k \in 1 .. Len(P) : P[k] = rules[a[k]] /\ a[k] \in 1 .. n
      /\ \A i \in 1 .. n : \E k \in 1 .. Len(P) : a[k] = i
      /\ \A k, l \in 1 .. Len(P) : k < l => <<a[k], a[l]>> \in SortedBefore(rules, PB)
      BY <1>6 DEF Taken
<1> DEFINE kept == {i \in DOMAIN P : P[i] \in fits}
<1>8. PICK b : Taken(b, M, P, kept, Earlier(P), R)
  <2>1. P \in [1 .. Len(P) -> R]
        BY <1>7
  <2> QED BY <1>4, <1>7, <2>1, KeepInTakes
<1>9. /\ M \in Seq(R) /\ Len(M) \in Nat /\ DOMAIN M = 1 .. Len(M)
      /\ \A k \in 1 .. Len(M) : M[k] = P[b[k]] /\ b[k] \in kept
      /\ \A i \in kept : \E k \in 1 .. Len(M) : b[k] = i
      /\ \A k, l \in 1 .. Len(M) : k < l => <<b[k], b[l]>> \in Earlier(P)
      BY <1>8 DEF Taken
<1>10. PICK c : Taken(c, C, M, 1 .. Len(M), SortedBefore(M, TB), R)
  <2>1. M \in [1 .. Len(M) -> R]
        BY <1>9
  <2> QED BY <1>3, <1>4, <1>9, <2>1, SortedTakes
<1>11. /\ C \in Seq(R) /\ Len(C) \in Nat /\ DOMAIN C = 1 .. Len(C)
       /\ \A k \in 1 .. Len(C) : C[k] = M[c[k]] /\ c[k] \in 1 .. Len(M)
       /\ \A i \in 1 .. Len(M) : \E k \in 1 .. Len(C) : c[k] = i
       /\ \A k, l \in 1 .. Len(C) : k < l => <<c[k], c[l]>> \in SortedBefore(M, TB)
       BY <1>10 DEF Taken
<1> DEFINE matching == {i \in 1 .. n : Matches(rules[i], h)}
<1> DEFINE from(k) == a[b[c[k]]]
<1>12. ASSUME NEW k \in 1 .. Len(C)
       PROVE  from(k) \in matching /\ C[k] = rules[from(k)]
  <2>1. C[k] = M[c[k]] /\ c[k] \in 1 .. Len(M)
        BY <1>11
  <2>2. M[c[k]] = P[b[c[k]]] /\ b[c[k]] \in kept
        BY <1>9, <2>1
  <2>3. b[c[k]] \in 1 .. Len(P) /\ Matches(P[b[c[k]]], h)
        BY <1>7, <2>2 DEF fits
  <2>4. P[b[c[k]]] = rules[from(k)] /\ from(k) \in 1 .. n
        BY <1>7, <2>3
  <2> QED BY <2>1, <2>2, <2>3, <2>4
<1>13. ASSUME NEW j \in matching
       PROVE  \E k \in 1 .. Len(C) : from(k) = j
  <2>1. PICK x \in 1 .. Len(P) : a[x] = j
        BY <1>7
  <2>2. P[x] = rules[j] /\ rules[j] \in fits
        BY <1>1, <1>7, <2>1 DEF fits
  <2>3. PICK y \in 1 .. Len(M) : b[y] = x
        BY <1>7, <1>9, <2>2
  <2>4. PICK k \in 1 .. Len(C) : c[k] = y
        BY <1>11
  <2> QED BY <2>1, <2>3, <2>4
<1>14. HasMatch(rules, h) <=> Len(C) # 0
  <2>1. C # <<>> <=> Len(C) # 0
        BY <1>11, EmptySeq
  <2> QED BY <2>1 DEF HasMatch, C
<1>15. HasMatch(rules, h) <=> matching # {}
  <2>1. Len(C) # 0 => 1 \in 1 .. Len(C)
        BY <1>11
  <2> HIDE DEF matching, from
  <2>2. Len(C) # 0 => matching # {}
        BY <2>1, <1>12
  <2>3. matching # {} => Len(C) # 0
        BY <1>13
  <2> QED BY <1>14, <2>2, <2>3
<1>16. ASSUME Len(C) # 0, NEW j \in matching
       PROVE  ~Beats(rules, h, j, from(1))
  <2>1. PICK l \in 1 .. Len(C) : from(l) = j
        BY <1>13, <1>16
  <2>2. 1 \in 1 .. Len(C)
        BY <1>11, <1>16
  <2> DEFINE i == from(1)
  <2>3. /\ i \in 1 .. n /\ j \in 1 .. n
        /\ C[1] = rules[i] /\ C[l] = rules[j]
        BY <1>12, <2>1, <2>2
  <2>4. CASE l = 1
    <3>1. i = j
          BY <2>1, <2>4
    <3> HIDE DEF i
    <3>2. j \in Int /\ rules[j] \in R
          BY <1>1, <2>3
    <3>3. rules[j].priority \in Int /\ Tier(rules[j], h) \in Int
          BY <1>5, <3>2
    <3>4. ~Beats(rules, h, j, i)
          BY <3>1, <3>2, <3>3 DEF Beats
    <3> QED BY <3>4 DEF i
  <2>5. CASE l # 1
    <3>1. <<c[1], c[l]>> \in SortedBefore(M, TB)
      <4>1. l \in Nat /\ 1 < l
            BY <1>11, <2>5
      <4> QED BY <1>11, <2>2, <4>1
    <3>2. /\ M[c[1]] = rules[i] /\ M[c[l]] = rules[j]
          /\ c[1] \in 1 .. Len(M) /\ c[l] \in 1 .. Len(M)
          BY <1>11, <2>2, <2>3
    <3>3. \/ <<rules[i], rules[j]>> \in TB
          \/ ~ (<<rules[j], rules[i]>> \in TB) /\ c[1] < c[l]
          BY <3>1, <3>2 DEF SortedBefore, Earlier, Pairs
    <3>4. ASSUME c[1] < c[l]
          PROVE  \/ <<rules[i], rules[j]>> \in PB
                 \/ ~ (<<rules[j], rules[i]>> \in PB) /\ i < j
      <4>1. <<b[c[1]], b[c[l]]>> \in Earlier(P)
            BY <1>9, <3>2, <3>4
      <4>2. b[c[1]] \in 1 .. Len(P) /\ b[c[l]] \in 1 .. Len(P) /\ b[c[1]] < b[c[l]]
            BY <1>7, <4>1 DEF Earlier, Pairs
      <4>3. <<i, j>> \in SortedBefore(rules, PB)
            BY <1>7, <2>1, <4>2
      <4> HIDE DEF i
      <4> QED BY <4>3 DEF SortedBefore, Earlier, Pairs
    <3> HIDE DEF i
    <3>5. /\ rules[i] \in R /\ rules[j] \in R
          /\ i \in Int /\ j \in Int
          BY <1>1, <2>3
    <3>6. /\ Tier(rules[i], h) \in Int /\ Tier(rules[j], h) \in Int
          /\ rules[i].priority \in Int /\ rules[j].priority \in Int
          BY <1>5, <3>5
    <3> DEFINE ti == Tier(rules[i], h)
    <3> DEFINE tj == Tier(rules[j], h)
    <3> DEFINE pi == rules[i].priority
    <3> DEFINE pj == rules[j].priority
    <3>7. /\ <<rules[i], rules[j]>> \in TB => ti < tj \/ (ti = tj /\ pi < pj)
          /\ tj < ti \/ (tj = ti /\ pj < pi) => <<rules[j], rules[i]>> \in TB
          /\ <<rules[i], rules[j]>> \in PB => pi < pj
          /\ pj < pi => <<rules[j], rules[i]>> \in PB
          BY <1>5, <3>5
    <3>8. ~(tj < ti \/ (tj = ti /\ (pj < pi \/ (pj = pi /\ j < i))))
      <4> HIDE DEF ti, tj, pi, pj
      <4>1. ti \in Int /\ tj \in Int /\ pi \in Int /\ pj \in Int
            BY <3>6 DEF ti, tj, pi, pj
      <4> QED BY <3>3, <3>4, <3>5, <3>7, <4>1
    <3>9. Beats(rules, h, j, i) => tj < ti \/ (tj = ti /\ (pj < pi \/ (pj = pi /\ j < i)))
          BY DEF Beats
    <3> HIDE DEF ti, tj, pi, pj
    <3> QED BY <3>8, <3>9 DEF i
  <2> QED BY <2>4, <2>5
<1>17. ASSUME NEW i \in matching, {"mac"} \subseteq DOMAIN rules[i].when \cap Known[h]
       PROVE  h \in rules[i].when["mac"]
  <2>1. /\ 1 \in DOMAIN Criteria /\ Criteria[1] = "mac"
        /\ Attribute("mac") = "mac"
        BY DEF Criteria, Attribute
  <2>2. 1 \in Tried(rules[i], h)
        BY <1>17, <2>1 DEF Tried
  <2>3. Min(Tried(rules[i], h)) = 1
        BY <2>2, TierIsFirst
  <2>4. Matches(rules[i], h)
        BY <1>17
  <2> QED BY <2>1, <2>2, <2>3, <2>4 DEF Matches
<1>18. Len(C) # 0 => Match(rules, h) = rules[from(1)] /\ from(1) \in matching
  <2>1. Len(C) # 0 => 1 \in 1 .. Len(C) /\ Head(C) = C[1]
        BY <1>11, <1>14 DEF HasMatch, C
  <2> QED BY <2>1, <1>12 DEF Match, C
<1> HIDE DEF matching, from
<1>19. Len(C) # 0 =>
         \E i \in matching :
           /\ Match(rules, h) = rules[i]
           /\ \A j \in matching : ~Beats(rules, h, j, i)
           /\ {"mac"} \subseteq DOMAIN rules[i].when \cap Known[h] => h \in rules[i].when["mac"]
      BY <1>16, <1>17, <1>18
<1>20. matching = {i \in DOMAIN rules : Matches(rules[i], h)}
      BY <1>1 DEF matching
<1>21. BestAnswer(rules, h)
      BY <1>14, <1>15, <1>19, <1>20 DEF BestAnswer
<1> QED BY <1>11, <1>21 DEF C, R

-----------------------------------------------------------------------------
(***************************************************************************)
(* The cached loader                                                       *)
(***************************************************************************)

(* Version e.value of profile k, which the cache or a load holds, is a     *)
(* real one, and not older than the last clear() unless a load was under   *)
(* way then.                                                               *)
FreshFor(k, e) ==
    /\ e.value <= version[k]
    /\ Contents[k][e.value] # None
    /\ k \notin inflight => cleared[k] <= e.value

CacheInv ==
    /\ \A k \in Profiles :
         /\ cleared[k] <= version[k]
         /\ cache[k] # None => FreshFor(k, cache[k])
         /\ \A v \in 0 .. MaxEdits : v < version[k] => changed[k][v] # -1
    /\ \A t \in Threads : loaded[t] # None => FreshFor(key[t], loaded[t])

(* A step of the cache: of the engine's calls of it, or around them. *)
CacheStep ==
    \/ UNCHANGED caching
    \/ \E t \in Threads :
         \/ \E p \in Profiles : Cache!Call(t, p)
         \/ LoaderStep(t)
    \/ Cache!Clear
    \/ \E p \in Profiles : Cache!Edit(p)

(* The type of the cache, without the number of its entries. *)
CacheTypes ==
    /\ cache \in [Profiles -> Cache!Entry \cup {None}]
    /\ now = 0
    /\ version \in [Profiles -> 0 .. MaxEdits]
    /\ pc \in [Threads -> {"idle", "get", "recheck", "load", "put"}]
    /\ key \in [Threads -> Profiles \cup {None}]
    /\ \A t \in Threads : pc[t] = "idle" <=> key[t] = None
    /\ loaded \in [Threads -> Cache!Entry \cup {None}]
    /\ \A t \in Threads : pc[t] = "put" <=> loaded[t] # None
    /\ changed \in [Profiles -> [0 .. MaxEdits -> -1 .. 0]]
    /\ cleared \in [Profiles -> 0 .. MaxEdits]
    /\ inflight \subseteq Profiles

(* The instance has FiniteSets' Cardinality under a name of its own. *)
LEMMA SameCardinality == ASSUME NEW S PROVE Cache!Cardinality(S) = Cardinality(S)
BY DEF Cache!Cardinality, Cardinality

(* The type invariant of TTLCache in these terms, before and after a step. *)
LEMMA CacheTypesIs == Cache!TypeOK <=> CacheTypes /\ Cardinality(Cache!Entries) <= MaxSize
BY SameCardinality DEF Cache!TypeOK, CacheTypes, Cache!Versions

LEMMA CacheTypesIsNext ==
    Cache!TypeOK' <=> CacheTypes' /\ Cardinality(Cache!Entries') <= MaxSize
BY SameCardinality DEF Cache!TypeOK, CacheTypes, Cache!Versions

(* An entry for another leaves as many as there were. *)
LEMMA EntriesBounded ==
    ASSUME NEW S, IsFiniteSet(S), NEW T, NEW k,
           \/ T \subseteq S
           \/ T \subseteq S \cup {k} /\ Cardinality(S) < MaxSize
           \/ \E j \in S : T \subseteq (S \ {j}) \cup {k},
           Cardinality(S) <= MaxSize
    PROVE  Cardinality(T) <= MaxSize
<1>1. MaxSize \in Nat /\ Cardinality(S) \in Nat
      BY EngineAssumption, FS_CardinalityType
<1>2. CASE T \subseteq S
  <2>1. Cardinality(T) <= Cardinality(S) /\ Cardinality(T) \in Nat
        BY <1>2, FS_Subset, FS_CardinalityType
  <2> QED BY <1>1, <2>1
<1>3. CASE T \subseteq S \cup {k} /\ Cardinality(S) < MaxSize
  <2> DEFINE U == S \cup {k}
  <2>1. IsFiniteSet(U) /\ Cardinality(U) <= Cardinality(S) + 1
        BY <1>1, FS_AddElement
  <2>2. T \in SUBSET U
        BY <1>3
  <2> HIDE DEF U
  <2>3. /\ Cardinality(T) <= Cardinality(U)
        /\ Cardinality(T) \in Nat /\ Cardinality(U) \in Nat
        BY <2>1, <2>2, FS_Subset, FS_CardinalityType
  <2> QED BY <1>1, <1>3, <2>1, <2>3
<1>4. CASE \E j \in S : T \subseteq (S \ {j}) \cup {k}
  <2>1. PICK j \in S : T \subseteq (S \ {j}) \cup {k}
        BY <1>4
  <2> DEFINE V == S \ {j}
  <2> DEFINE U == V \cup {k}
  <2>2. IsFiniteSet(V) /\ Cardinality(V) = Cardinality(S) - 1
        BY FS_RemoveElement
  <2>3. T \in SUBSET U
        BY <2>1
  <2> HIDE DEF V
  <2>4. IsFiniteSet(U) /\ Cardinality(U) <= Cardinality(V) + 1
    <3>1. Cardinality(V) \in Nat
          BY <2>2, FS_CardinalityType
    <3>2. /\ IsFiniteSet(U)
          /\ Cardinality(U) = IF k \in V THEN Cardinality(V) ELSE Cardinality(V) + 1
          BY <2>2, FS_AddElement
    <3> HIDE DEF U
    <3> QED BY <3>1, <3>2
  <2> HIDE DEF U
  <2>5. /\ Cardinality(T) <= Cardinality(U)
        /\ Cardinality(T) \in Nat /\ Cardinality(U) \in Nat
        BY <2>3, <2>4, FS_Subset, FS_CardinalityType
  <2> QED BY <1>1, <2>2, <2>4, <2>5
<1> QED BY <1>2, <1>3, <1>4

(* Numbered versions with a mark each, of one file or another: if there    *)
(* are fewer marks than edits allowed, the file can be edited once more.   *)
LEMMA EditsLeft ==
    ASSUME NEW p \in Profiles, NEW n \in 0 .. MaxEdits, NEW mark,
           Cardinality({e \in Profiles \X (0 .. MaxEdits) : mark[e[1]][e[2]] # -1}) < MaxEdits,
           \A v \in 0 .. MaxEdits : v < n => mark[p][v] # -1
    PROVE  n < MaxEdits
<1> DEFINE E == {e \in Profiles \X (0 .. MaxEdits) : mark[e[1]][e[2]] # -1}
<1> DEFINE V == 0 .. n - 1
<1> DEFINE f == [v \in V |-> <<p, v>>]
<1>1. MaxEdits \in Nat /\ n \in 0 .. MaxEdits
      BY EngineAssumption
<1>2. Cardinality(E) < MaxEdits
      OBVIOUS
<1>3. IsFiniteSet(E)
  <2>1. IsFiniteSet(0 .. MaxEdits)
        BY <1>1, FS_Interval
  <2>2. IsFiniteSet(Profiles \X (0 .. MaxEdits))
        BY <2>1, EngineAssumption, FS_Product
  <2>3. E \in SUBSET (Profiles \X (0 .. MaxEdits))
        OBVIOUS
  <2> HIDE DEF E
  <2> QED BY <2>2, <2>3, FS_Subset
<1>4. Cardinality(V) = n /\ IsFiniteSet(V)
  <2> DEFINE b == n - 1
  <2>1. b \in Int /\ 0 \in Int /\ b + 1 = n /\ b >= -1
        BY <1>1
  <2>2. V = 0 .. b
        OBVIOUS
  <2> HIDE DEF b, V
  <2>3. IsFiniteSet(0 .. b) /\ Cardinality(0 .. b) = IF 0 > b THEN 0 ELSE b - 0 + 1
        BY <2>1, FS_Interval
  <2>4. (IF 0 > b THEN 0 ELSE b - 0 + 1) = b + 1
        BY <2>1
  <2> QED BY <2>1, <2>2, <2>3, <2>4
<1>5. \A v \in V : <<p, v>> \in E
  <2>1. \A v \in V : v \in 0 .. MaxEdits /\ v < n
        BY <1>1
  <2> QED BY <2>1
<1> HIDE DEF E, V
<1>6. f \in Injection(V, E)
      BY <1>5 DEF Injection, IsInjective
<1>7. Cardinality(V) <= Cardinality(E) /\ Cardinality(E) \in Nat
      BY <1>3, <1>6, FS_Injection, FS_CardinalityType
<1> QED BY <1>1, <1>2, <1>4, <1>7

(* A file is edited only if its version leaves room: the edits are counted. *)
LEMMA VersionsLeft ==
    ASSUME CacheTypes, CacheInv, NEW p \in Profiles, Cache!Edit(p)
    PROVE  version[p] < MaxEdits
<1>1. Cardinality({e \in Profiles \X (0 .. MaxEdits) : changed[e[1]][e[2]] # -1}) < MaxEdits
      BY SameCardinality DEF Cache!Edit, Cache!Versions
<1>2. /\ version[p] \in 0 .. MaxEdits
      /\ \A v \in 0 .. MaxEdits : v < version[p] => changed[p][v] # -1
      BY DEF CacheTypes, CacheInv
<1> QED BY <1>1, <1>2, EditsLeft

(* What a step of the cache may do to the versions it holds. *)
Moves ==
    /\ \A k \in Profiles : cache'[k] # None =>
         \/ cache'[k] = cache[k]
         \/ \E t \in Threads :
              loaded[t] # None /\ key[t] = k /\ cache'[k].value = loaded[t].value
    /\ \A t \in Threads : loaded'[t] # None =>
         /\ key'[t] = key[t]
         /\ \/ loaded'[t] = loaded[t]
            \/ loaded'[t].value = version[key[t]] /\ Content(key[t]) # None
    /\ \A k \in Profiles :
         /\ version[k] <= version'[k]
         /\ \A v \in 0 .. MaxEdits : v < version'[k] => changed'[k][v] # -1
    /\ \/ UNCHANGED <<cleared, inflight>>
       \/ /\ UNCHANGED <<version, key, loaded>>
          /\ cleared' = version
          /\ inflight' = {key[t] : t \in {u \in Threads : pc[u] = "put"}}
          /\ \A k \in Profiles : cache'[k] = None

(* The files as they are. *)
LEMMA FilesStay ==
    ASSUME CacheTypes, CacheInv, UNCHANGED <<version, changed>>
    PROVE  \A k \in Profiles :
             /\ version[k] <= version'[k]
             /\ \A v \in 0 .. MaxEdits : v < version'[k] => changed'[k][v] # -1
<1>1. \A k \in Profiles : version[k] \in Int
      BY DEF CacheTypes
<1> QED BY <1>1 DEF CacheInv

(* A step of the calls keeps the types, and does what Moves says. *)
LEMMA LoaderMoves ==
    ASSUME CacheTypes, CacheInv, Cardinality(Cache!Entries) <= MaxSize,
           NEW t \in Threads,
           \/ \E p \in Profiles : Cache!Call(t, p)
           \/ LoaderStep(t)
    PROVE  CacheTypes' /\ Moves /\ Cardinality(Cache!Entries') <= MaxSize
<1>1. /\ IsFiniteSet(Cache!Entries)
      /\ Cache!Entries = {k \in Profiles : cache[k] # None}
      /\ Cache!Entries' = {k \in Profiles : cache'[k] # None}
  <2>1. Cache!Entries \in SUBSET Profiles
        BY DEF Cache!Entries
  <2> QED BY <2>1, EngineAssumption, FS_Subset DEF Cache!Entries
<1>2. cache' = cache => Cardinality(Cache!Entries') <= MaxSize
      BY <1>1
<1>3. None \notin Profiles /\ None \notin Cache!Entry
      BY EngineAssumption DEF Cache!Entry, Cache!Versions
<1>4. pc[t] # "idle" => key[t] \in Profiles
      BY DEF CacheTypes
<1>5. ASSUME NEW p \in Profiles, Cache!Call(t, p)
      PROVE  CacheTypes' /\ Moves /\ cache' = cache
  <2>1. /\ pc[t] = "idle" /\ key[t] = None
        /\ pc' = [pc EXCEPT ![t] = "get"] /\ key' = [key EXCEPT ![t] = p]
        /\ UNCHANGED <<cache, loaded, cleared, inflight, now, version, changed>>
        BY <1>5 DEF Cache!Call, Cache!env, CacheTypes
  <2>2. /\ pc'[t] = "get" /\ key'[t] = p /\ loaded[t] = None
        /\ \A u \in Threads \ {t} : pc'[u] = pc[u] /\ key'[u] = key[u]
        BY <2>1 DEF CacheTypes
  <2>3. CacheTypes'
        BY <1>3, <2>1, <2>2 DEF CacheTypes
  <2>4. Moves
        BY <2>1, <2>2, FilesStay DEF Moves
  <2> QED BY <2>1, <2>3, <2>4
<1>6. ASSUME pc[t] # "idle", Cache!Return(t),
             UNCHANGED <<cleared, inflight, now, version, changed>>
      PROVE  /\ (CacheTypes /\ cache' \in [Profiles -> Cache!Entry \cup {None}]) => CacheTypes'
             /\ \A u \in Threads : loaded'[u] # None => key'[u] = key[u] /\ loaded'[u] = loaded[u]
  <2>1. /\ pc' = [pc EXCEPT ![t] = "idle"] /\ key' = [key EXCEPT ![t] = None]
        /\ loaded' = [loaded EXCEPT ![t] = None]
        BY <1>6 DEF Cache!Return
  <2>2. /\ pc'[t] = "idle" /\ key'[t] = None /\ loaded'[t] = None
        /\ \A u \in Threads \ {t} :
             pc'[u] = pc[u] /\ key'[u] = key[u] /\ loaded'[u] = loaded[u]
        BY <2>1 DEF CacheTypes
  <2>3. ASSUME cache' \in [Profiles -> Cache!Entry \cup {None}] PROVE CacheTypes'
        BY <1>3, <1>6, <2>1, <2>2, <2>3 DEF CacheTypes
  <2> QED BY <2>2, <2>3
<1>7. ASSUME NEW step \in {"recheck", "load"}, pc[t] \in {"get", "recheck"}, Cache!GoTo(t, step),
             UNCHANGED <<cleared, inflight, now, version, changed>>
      PROVE  /\ (CacheTypes /\ cache' \in [Profiles -> Cache!Entry \cup {None}]) => CacheTypes'
             /\ \A u \in Threads : loaded'[u] # None => key'[u] = key[u] /\ loaded'[u] = loaded[u]
  <2>1. pc' = [pc EXCEPT ![t] = step] /\ UNCHANGED <<key, loaded>>
        BY <1>7 DEF Cache!GoTo
  <2>2. pc'[t] = step /\ \A u \in Threads \ {t} : pc'[u] = pc[u]
        BY <2>1 DEF CacheTypes
  <2>3. ASSUME cache' \in [Profiles -> Cache!Entry \cup {None}] PROVE CacheTypes'
        BY <1>3, <1>7, <2>1, <2>2, <2>3 DEF CacheTypes
  <2> QED BY <2>1, <2>3
<1>8. ASSUME NEW e, e = cache[key[t]], pc[t] # "idle", e # None PROVE ~Cache!Expired(e)
  <2>1. e \in Cache!Entry
        BY <1>4, <1>8 DEF CacheTypes
  <2>2. e.stamp = 0 /\ now = 0
        BY <2>1 DEF Cache!Entry, CacheTypes
  <2> QED BY <2>2 DEF Cache!Expired
<1>9. ASSUME Cache!Get(t) \/ Cache!Recheck(t)
      PROVE  CacheTypes' /\ Moves /\ cache' = cache
  <2>1. /\ pc[t] \in {"get", "recheck"}
        /\ Cache!Return(t) \/ \E step \in {"recheck", "load"} : Cache!GoTo(t, step)
        /\ UNCHANGED <<cleared, inflight, now, version, changed>>
        BY <1>9 DEF Cache!Get, Cache!Recheck, Cache!env
  <2>2. cache' = cache
        BY <1>8, <1>9, <2>1 DEF Cache!Get, Cache!Recheck
  <2>3. cache' \in [Profiles -> Cache!Entry \cup {None}]
        BY <2>2 DEF CacheTypes
  <2>4. /\ CacheTypes'
        /\ \A u \in Threads : loaded'[u] # None => key'[u] = key[u] /\ loaded'[u] = loaded[u]
    <3>1. CASE Cache!Return(t)
          BY <1>6, <2>1, <2>3, <3>1
    <3>2. CASE \E step \in {"recheck", "load"} : Cache!GoTo(t, step)
          BY <1>7, <2>1, <2>3, <3>2
    <3> QED BY <2>1, <3>1, <3>2
  <2>5. Moves
        BY <2>1, <2>2, <2>4, FilesStay DEF Moves
  <2> QED BY <2>2, <2>4, <2>5
<1>10. ASSUME Content(key[t]) # None, Cache!Load(t)
       PROVE  CacheTypes' /\ Moves /\ cache' = cache
  <2> DEFINE e == [stamp |-> now, value |-> version[key[t]]]
  <2>1. /\ pc[t] = "load"
        /\ loaded' = [loaded EXCEPT ![t] = e] /\ pc' = [pc EXCEPT ![t] = "put"]
        /\ UNCHANGED <<cache, key, cleared, inflight, now, version, changed>>
        BY <1>10 DEF Cache!Load, Cache!env
  <2>2. e \in Cache!Entry /\ e.value = version[key[t]]
        BY <1>4, <2>1 DEF CacheTypes, Cache!Entry, Cache!Versions
  <2> HIDE DEF e
  <2>3. /\ pc'[t] = "put" /\ loaded'[t] = e
        /\ \A u \in Threads \ {t} : pc'[u] = pc[u] /\ loaded'[u] = loaded[u]
        BY <2>1 DEF CacheTypes
  <2>4. loaded' \in [Threads -> Cache!Entry \cup {None}]
        BY <2>1, <2>2 DEF CacheTypes
  <2>5. CacheTypes'
        BY <1>3, <2>1, <2>2, <2>3, <2>4 DEF CacheTypes
  <2>6. \A u \in Threads : loaded'[u] # None =>
          /\ key'[u] = key[u]
          /\ \/ loaded'[u] = loaded[u]
             \/ loaded'[u].value = version[key[u]] /\ Content(key[u]) # None
        BY <1>10, <2>1, <2>2, <2>3
  <2>7. Moves
        BY <2>1, <2>6, FilesStay DEF Moves
  <2> QED BY <2>1, <2>5, <2>7
<1>11. ASSUME Cache!LoadRaises(t)
       PROVE  CacheTypes' /\ Moves /\ cache' = cache
  <2>1. /\ pc[t] # "idle" /\ Cache!Return(t)
        /\ UNCHANGED <<cache, cleared, inflight, now, version, changed>>
        BY <1>11 DEF Cache!LoadRaises, Cache!env
  <2>2. cache' \in [Profiles -> Cache!Entry \cup {None}]
        BY <2>1 DEF CacheTypes
  <2>3. /\ CacheTypes'
        /\ \A u \in Threads : loaded'[u] # None => key'[u] = key[u] /\ loaded'[u] = loaded[u]
        BY <1>6, <2>1, <2>2
  <2>4. Moves
        BY <2>1, <2>3, FilesStay DEF Moves
  <2> QED BY <2>1, <2>3, <2>4
<1>12. ASSUME Cache!Put(t)
       PROVE  CacheTypes' /\ Moves /\ Cardinality(Cache!Entries') <= MaxSize
  <2> DEFINE k == key[t]
  <2> DEFINE e == [stamp |-> now, value |-> loaded[t].value]
  <2>1. /\ pc[t] = "put" /\ Cache!Return(t)
        /\ UNCHANGED <<cleared, inflight, now, version, changed>>
        /\ IF Cache!MakeRoom(k) = {} THEN cache' = [cache EXCEPT ![k] = e]
           ELSE \E j \in Cache!MakeRoom(k) : cache' = [cache EXCEPT ![j] = None, ![k] = e]
        BY <1>12 DEF Cache!Put, Cache!env
  <2>2. /\ k \in Profiles /\ loaded[t] # None /\ loaded[t] \in Cache!Entry
        BY <1>4, <2>1 DEF CacheTypes
  <2>3. e \in Cache!Entry /\ e.value = loaded[t].value
        BY <2>2 DEF CacheTypes, Cache!Entry, Cache!Versions
  <2>4. Cache!MakeRoom(k) # {} => cache[k] = None /\ Cache!MakeRoom(k) \subseteq Cache!Entries
        BY DEF Cache!MakeRoom
  <2>5. Cache!MakeRoom(k) = {} => cache[k] # None \/ Cardinality(Cache!Entries) < MaxSize
    <3> SUFFICES ASSUME cache[k] = None, ~(Cardinality(Cache!Entries) < MaxSize)
                 PROVE  Cache!MakeRoom(k) # {}
        OBVIOUS
    <3>1. MaxSize \in Nat \ {0} /\ Cardinality(Cache!Entries) \in Nat
          BY <1>1, EngineAssumption, FS_CardinalityType
    <3>2. Cardinality(Cache!Entries) >= MaxSize /\ Cardinality(Cache!Entries) # 0
          BY <3>1
    <3>3. PICK j \in Cache!Entries : TRUE
          BY <3>2, FS_EmptySet
    <3>4. \A i \in Cache!Entries : cache[i].stamp = 0
          BY <1>1 DEF CacheTypes, Cache!Entry
    <3>5. \A i \in Cache!Entries : cache[j].stamp <= cache[i].stamp
          BY <3>3, <3>4
    <3>6. j \in Cache!MakeRoom(k)
          BY <3>2, <3>3, <3>5, SameCardinality DEF Cache!MakeRoom
    <3> QED BY <3>6
  <2> HIDE DEF k, e
  <2>6. /\ cache' \in [Profiles -> Cache!Entry \cup {None}]
        /\ cache'[k] = e
        /\ \A i \in Profiles \ {k} : cache'[i] = cache[i] \/ cache'[i] = None
        BY <2>1, <2>2, <2>3, <2>4, <1>1 DEF CacheTypes
  <2>7. CacheTypes'
        BY <1>6, <2>1, <2>6
  <2>8. Moves
    <3>1. \A i \in Profiles : cache'[i] # None =>
            \/ cache'[i] = cache[i]
            \/ \E u \in Threads :
                 loaded[u] # None /\ key[u] = i /\ cache'[i].value = loaded[u].value
          BY <2>2, <2>3, <2>6 DEF k
    <3>2. \A u \in Threads : loaded'[u] # None => key'[u] = key[u] /\ loaded'[u] = loaded[u]
          BY <1>6, <2>1
    <3> QED BY <2>1, <3>1, <3>2, FilesStay DEF Moves
  <2>9. \/ Cache!Entries' \subseteq Cache!Entries
        \/ /\ Cache!Entries' \subseteq Cache!Entries \cup {k}
           /\ Cardinality(Cache!Entries) < MaxSize
        \/ \E j \in Cache!Entries : Cache!Entries' \subseteq (Cache!Entries \ {j}) \cup {k}
    <3>1. \A i \in Profiles \ {k} : cache'[i] # None => cache[i] # None
          BY <2>6
    <3>2. CASE cache[k] # None
          BY <1>1, <3>1, <3>2
    <3>3. CASE cache[k] = None /\ Cache!MakeRoom(k) = {}
          BY <1>1, <2>5, <3>1, <3>3
    <3>4. CASE Cache!MakeRoom(k) # {}
      <4>1. PICK j \in Cache!MakeRoom(k) : cache' = [cache EXCEPT ![j] = None, ![k] = e]
            BY <2>1, <3>4
      <4>2. j \in Cache!Entries /\ j # k
            BY <1>1, <2>4, <4>1
      <4>3. cache'[j] = None
            BY <1>1, <4>1, <4>2 DEF CacheTypes
      <4> QED BY <1>1, <3>1, <4>2, <4>3
    <3> QED BY <3>2, <3>3, <3>4
  <2>10. Cardinality(Cache!Entries') <= MaxSize
        BY <1>1, <2>9, EntriesBounded
  <2> QED BY <2>7, <2>8, <2>10
<1> QED BY <1>2, <1>5, <1>9, <1>10, <1>11, <1>12 DEF LoaderStep

(* Every step of the cache does. *)
LEMMA CacheMoves ==
    ASSUME CacheTypes, CacheInv, Cardinality(Cache!Entries) <= MaxSize, CacheStep
    PROVE  CacheTypes' /\ Moves /\ Cardinality(Cache!Entries') <= MaxSize
<1>1. CASE UNCHANGED caching
  <2>1. UNCHANGED <<cache, now, version, pc, key, loaded, changed, cleared, inflight>>
        BY <1>1 DEF caching
  <2>2. CacheTypes' /\ Cache!Entries' = Cache!Entries
        BY <2>1 DEF CacheTypes, Cache!Entries
  <2>3. Moves
        BY <2>1, FilesStay DEF Moves
  <2> QED BY <2>2, <2>3
<1>2. CASE \E t \in Threads : (\E p \in Profiles : Cache!Call(t, p)) \/ LoaderStep(t)
      BY <1>2, LoaderMoves
<1>3. CASE Cache!Clear
  <2>1. /\ cache' = [k \in Profiles |-> None]
        /\ cleared' = version
        /\ inflight' = {key[t] : t \in {u \in Threads : pc[u] = "put"}}
        /\ UNCHANGED <<pc, key, loaded, now, version, changed>>
        BY <1>3 DEF Cache!Clear, Cache!env
  <2>2. inflight' \subseteq Profiles
    <3>1. \A t \in Threads : pc[t] = "put" => key[t] \in Profiles
          BY DEF CacheTypes
    <3> QED BY <2>1, <3>1
  <2>3. CacheTypes'
        BY <2>1, <2>2 DEF CacheTypes
  <2>4. \A k \in Profiles : cache'[k] = None
        BY <2>1
  <2>5. Cardinality(Cache!Entries') <= MaxSize
    <3>1. Cache!Entries' = {}
          BY <2>4 DEF Cache!Entries
    <3> QED BY <3>1, EngineAssumption, FS_EmptySet
  <2>6. Moves
        BY <2>1, <2>4, FilesStay DEF Moves
  <2> QED BY <2>3, <2>5, <2>6
<1>4. ASSUME NEW p \in Profiles, Cache!Edit(p)
      PROVE  CacheTypes' /\ Moves /\ Cardinality(Cache!Entries') <= MaxSize
  <2>1. /\ version' = [version EXCEPT ![p] = @ + 1]
        /\ changed' = [changed EXCEPT ![p][version[p]] = now]
        /\ UNCHANGED <<cache, now, pc, key, loaded, cleared, inflight>>
        BY <1>4 DEF Cache!Edit
  <2>2. version[p] < MaxEdits /\ MaxEdits \in Nat
        BY <1>4, VersionsLeft, EngineAssumption
  <2>3. /\ version \in [Profiles -> 0 .. MaxEdits] /\ now = 0
        /\ changed \in [Profiles -> [0 .. MaxEdits -> -1 .. 0]]
        BY DEF CacheTypes
  <2>4. /\ version' \in [Profiles -> 0 .. MaxEdits]
        /\ version'[p] = version[p] + 1
        /\ \A k \in Profiles \ {p} : version'[k] = version[k]
        BY <2>1, <2>2, <2>3
  <2>5. /\ changed' \in [Profiles -> [0 .. MaxEdits -> -1 .. 0]]
        /\ \A k \in Profiles \ {p} : changed'[k] = changed[k]
        /\ changed'[p][version[p]] = 0
        /\ \A v \in (0 .. MaxEdits) \ {version[p]} : changed'[p][v] = changed[p][v]
        BY <2>1, <2>2, <2>3
  <2>6. CacheTypes' /\ Cache!Entries' = Cache!Entries
        BY <2>1, <2>4, <2>5 DEF CacheTypes, Cache!Entries
  <2>7. ASSUME NEW k \in Profiles
        PROVE  /\ version[k] <= version'[k]
               /\ \A v \in 0 .. MaxEdits : v < version'[k] => changed'[k][v] # -1
    <3>1. version[k] \in Int
          BY <2>3
    <3>2. \A v \in 0 .. MaxEdits : v < version[k] => changed[k][v] # -1
          BY DEF CacheInv
    <3>3. CASE k = p
          BY <2>4, <2>5, <3>1, <3>2, <3>3
    <3>4. CASE k # p
          BY <2>4, <2>5, <3>1, <3>2, <3>4
    <3> QED BY <3>3, <3>4
  <2>8. Moves
        BY <2>1, <2>7 DEF Moves
  <2> QED BY <2>6, <2>8
<1> QED BY <1>1, <1>2, <1>3, <1>4 DEF CacheStep

(* And so it keeps what the cache promises. *)
LEMMA CacheKeeps ==
    ASSUME Cache!TypeOK, CacheInv, CacheStep
    PROVE  Cache!TypeOK' /\ CacheInv' /\ Moves
<1>1. /\ CacheTypes /\ CacheTypes' /\ Moves
      /\ Cardinality(Cache!Entries') <= MaxSize
      BY CacheTypesIs, CacheMoves
<1>2. Cache!TypeOK'
      BY <1>1, CacheTypesIsNext
<1>3. /\ None \notin Profiles
      /\ \A k \in Profiles : version[k] \in Int /\ version'[k] \in Int
      /\ \A k \in Profiles : cleared[k] \in Int /\ cleared'[k] \in Int
      /\ \A t \in Threads : loaded[t] # None =>
           key[t] \in Profiles /\ loaded[t].value \in Int /\ pc[t] = "put"
      /\ \A k \in Profiles : cache[k] # None => cache[k].value \in Int
      BY <1>1, EngineAssumption DEF CacheTypes, Cache!Entry, Cache!Versions
<1>4. \A k \in Profiles : version[k] <= version'[k]
      BY <1>1 DEF Moves
<1>5. \A k \in Profiles : \A v \in 0 .. MaxEdits : v < version'[k] => changed'[k][v] # -1
      BY <1>1 DEF Moves
<1>6. CASE UNCHANGED <<cleared, inflight>>
  <2>1. \A k \in Profiles : cleared'[k] <= version'[k]
        BY <1>3, <1>4, <1>6 DEF CacheInv
  <2>3. ASSUME NEW k \in Profiles, cache'[k] # None
        PROVE  FreshFor(k, cache[k])'
    <3>1. CASE cache'[k] = cache[k]
      <4>1. FreshFor(k, cache[k])
            BY <2>3, <3>1 DEF CacheInv
      <4> QED BY <1>3, <1>4, <1>6, <2>3, <3>1, <4>1 DEF FreshFor
    <3>2. CASE \E t \in Threads :
                 loaded[t] # None /\ key[t] = k /\ cache'[k].value = loaded[t].value
      <4>1. PICK t \in Threads :
                   loaded[t] # None /\ key[t] = k /\ cache'[k].value = loaded[t].value
            BY <3>2
      <4>2. FreshFor(k, loaded[t])
            BY <4>1 DEF CacheInv
      <4> QED BY <1>3, <1>4, <1>6, <4>1, <4>2 DEF FreshFor
    <3> QED BY <1>1, <2>3, <3>1, <3>2 DEF Moves
  <2>4. ASSUME NEW t \in Threads, loaded'[t] # None
        PROVE  FreshFor(key[t], loaded[t])'
    <3>1. key'[t] = key[t]
          BY <1>1, <2>4 DEF Moves
    <3>2. CASE loaded'[t] = loaded[t]
      <4>1. FreshFor(key[t], loaded[t]) /\ key[t] \in Profiles
            BY <1>3, <2>4, <3>2 DEF CacheInv
      <4> QED BY <1>3, <1>4, <1>6, <2>4, <3>1, <3>2, <4>1 DEF FreshFor
    <3>3. CASE loaded'[t].value = version[key[t]] /\ Content(key[t]) # None
      <4>1. key'[t] \in Profiles
            BY <1>1, <2>4 DEF CacheTypes
      <4> QED BY <1>3, <1>4, <1>6, <3>1, <3>3, <4>1 DEF FreshFor, Content, CacheInv
    <3> QED BY <1>1, <2>4, <3>2, <3>3 DEF Moves
  <2> QED BY <1>1, <1>2, <1>5, <2>1, <2>3, <2>4 DEF CacheInv
<1>7. CASE /\ UNCHANGED <<version, key, loaded>>
           /\ cleared' = version
           /\ inflight' = {key[t] : t \in {u \in Threads : pc[u] = "put"}}
           /\ \A k \in Profiles : cache'[k] = None
  <2>1. ASSUME NEW t \in Threads, loaded'[t] # None
        PROVE  FreshFor(key[t], loaded[t])'
    <3>1. FreshFor(key[t], loaded[t]) /\ key[t] \in inflight'
          BY <1>3, <1>7, <2>1 DEF CacheInv
    <3> QED BY <1>7, <3>1 DEF FreshFor
  <2>2. \A k \in Profiles : cleared'[k] <= version'[k]
        BY <1>3, <1>7
  <2>3. \A k \in Profiles : cache'[k] = None
        BY <1>7
  <2> QED BY <1>1, <1>2, <1>5, <2>1, <2>2, <2>3 DEF CacheInv
<1> QED BY <1>1, <1>2, <1>6, <1>7 DEF Moves

-----------------------------------------------------------------------------
(***************************************************************************)
(* The calls of the engine                                                 *)
(***************************************************************************)

Shape ==
    /\ served \in [Targets -> Tree \cup {None}]
    /\ at \in [Threads -> {"idle", "profile", "loading", "plugin", "stage"}]
    /\ call \in [Threads -> Calls \cup {None}]
    /\ profile \in [Threads -> Firmware \cup {None}]
    /\ path \in [Threads -> Tree \cup {None}]

(* What a thread has at each place, and that it is for the rule of the     *)
(* host it was called for.                                                 *)
Holds(t) ==
    LET c == call[t]
    IN  /\ c.host \in DOMAIN RuleOf
        /\ c.rule = RuleOf[c.host]
        /\ c.name \in {Filename, OwnName[c.host]}
        /\ c.began <= version[c.rule.profile]
        /\ at[t] = "loading" => key[t] = c.rule.profile
        /\ path[t] # None => Valid(c.rule.os_family, path[t])

Steps(t) ==
    /\ at[t] = "loading" <=> pc[t] # "idle"
    /\ at[t] = "idle" <=> call[t] = None
    /\ at[t] = "plugin" <=> profile[t] # None
    /\ at[t] = "stage" <=> path[t] # None
    /\ call[t] # None => Holds(t)

(* All that the cache and the loads hold of p is the file as it is. *)
Steady(p) ==
    /\ cache[p] # None => cache[p].value = version[p]
    /\ \A u \in Threads : loaded[u] # None /\ key[u] = p => loaded[u].value = version[p]

(* A call that began after an invalidation, and no edit since. *)
Untouched(t) ==
    call[t] # None /\ call[t].clean /\ version[call[t].rule.profile] = call[t].began

(* What it ought to serve. *)
Due(t) ==
    LET p == call[t].rule.profile
    IN  IF Content(p) # None THEN Content(p) ELSE Synthesized(call[t].rule)

OnTheWay(t) ==
    /\ at[t] = "plugin" => profile[t] = Due(t)
    /\ at[t] = "stage" => path[t] = Due(t)

Clean(t) == Untouched(t) => Steady(call[t].rule.profile) /\ OnTheWay(t)

EngineInv ==
    /\ Cache!TypeOK
    /\ CacheInv
    /\ Shape
    /\ \A t \in Threads : Steps(t)
    /\ \A t \in Threads : Clean(t)
    /\ ServedIsAllowed

(* The rule of a host is one of the configured rules. *)
LEMMA RuleOfIsRule ==
    ASSUME NEW h \in DOMAIN RuleOf
    PROVE  h \in Hosts /\ RuleOf[h] \in HostRule
<1>1. h \in Hosts /\ HasMatch(Rules, h) /\ RuleOf[h] = Match(Rules, h)
      BY DEF RuleOf
<1>2. Rules \in Seq(HostRule) /\ \A r \in HostRule : r.priority \in Int
      BY EngineAssumption DEF HostRule
<1>3. Candidates(Rules, h) \in Seq(Range(Rules))
      BY <1>2, AnswerIsBest
<1>4. Range(Rules) \subseteq HostRule
      BY <1>2 DEF Range
<1>5. Candidates(Rules, h) # <<>> /\ RuleOf[h] = Head(Candidates(Rules, h))
      BY <1>1 DEF HasMatch, Match
<1>6. Head(Candidates(Rules, h)) \in Range(Rules)
      BY <1>3, <1>5
<1> QED BY <1>1, <1>4, <1>5, <1>6

(* What is known of a call. *)
LEMMA CallOf ==
    ASSUME Shape, NEW t \in Threads, Steps(t), call[t] # None
    PROVE  /\ call[t] \in Calls
           /\ call[t].rule \in HostRule /\ call[t].rule.profile \in Profiles
           /\ call[t].host \in Hosts /\ call[t].began \in 0 .. MaxEdits
           /\ call[t].name \in Targets
<1>1. call[t] \in Calls
      BY DEF Shape
<1> QED BY <1>1 DEF Calls, HostRule

(* A step of the loader is one of a thread that is in it. *)
LEMMA LoaderStepOf ==
    ASSUME CacheTypes, NEW t \in Threads, LoaderStep(t)
    PROVE  /\ pc[t] # "idle"
           /\ \A u \in Threads \ {t} : pc'[u] = pc[u] /\ key'[u] = key[u]
           /\ pc'[t] # "idle" => key'[t] = key[t]
           /\ pc'[t] = "idle" =>
                \/ pc[t] = "load"
                \/ pc[t] \in {"get", "recheck"} /\ cache[key[t]] # None
                \/ pc[t] = "put"
           /\ UNCHANGED version
<1>1. pc \in [Threads -> {"idle", "get", "recheck", "load", "put"}]
      BY DEF CacheTypes
<1>2. key \in [Threads -> Profiles \cup {None}]
      BY DEF CacheTypes
<1>3. CASE Cache!Get(t) \/ Cache!Recheck(t)
  <2>1. /\ pc[t] \in {"get", "recheck"} /\ UNCHANGED version
        /\ \/ cache[key[t]] # None /\ Cache!Return(t)
           \/ \E step \in {"recheck", "load"} : Cache!GoTo(t, step)
        BY <1>3 DEF Cache!Get, Cache!Recheck, Cache!env
  <2> QED BY <1>1, <1>2, <2>1 DEF Cache!Return, Cache!GoTo
<1>4. CASE Cache!Load(t)
      BY <1>1, <1>2, <1>4 DEF Cache!Load, Cache!env
<1>5. CASE Cache!LoadRaises(t)
      BY <1>1, <1>2, <1>5 DEF Cache!LoadRaises, Cache!Return, Cache!env
<1>6. CASE Cache!Put(t)
      BY <1>1, <1>2, <1>6 DEF Cache!Put, Cache!Return, Cache!env
<1> QED BY <1>3, <1>4, <1>5, <1>6 DEF LoaderStep

(* Every step of the engine is one of its cache. *)
LEMMA StepsOfTheCache ==
    ASSUME Shape, \A t \in Threads : Steps(t), [Next]_vars
    PROVE  CacheStep
<1>1. CASE UNCHANGED vars
      BY <1>1 DEF vars, CacheStep
<1>2. ASSUME NEW t \in Threads, NEW h \in Hosts, NEW n, Stage(t, h, n) PROVE CacheStep
      BY <1>2 DEF Stage, CacheStep
<1>3. ASSUME NEW t \in Threads, LoadProfile(t) PROVE CacheStep
  <2>1. at[t] = "profile" /\ (UNCHANGED caching \/ Cache!Call(t, call[t].rule.profile))
        BY <1>3 DEF LoadProfile
  <2>2. call[t].rule.profile \in Profiles
        BY <2>1, CallOf DEF Steps
  <2> QED BY <2>1, <2>2 DEF CacheStep
<1>4. ASSUME NEW t \in Threads, Loading(t) PROVE CacheStep
      BY <1>4 DEF Loading, CacheStep
<1>5. ASSUME NEW t \in Threads, Resolve(t) \/ Place(t) \/ PlaceRaises(t) PROVE CacheStep
      BY <1>5 DEF Resolve, Place, PlaceRaises, CacheStep
<1>6. CASE InvalidateCaches
      BY <1>6 DEF InvalidateCaches, CacheStep
<1>7. ASSUME NEW p \in Profiles, EditProfile(p) PROVE CacheStep
      BY <1>7 DEF EditProfile, CacheStep
<1>8. ASSUME NEW n \in Targets, Unstage(n) PROVE CacheStep
      BY <1>8 DEF Unstage, CacheStep
<1> QED BY <1>1, <1>2, <1>3, <1>4, <1>5, <1>6, <1>7, <1>8 DEF Next

(* What the cache has done in a step. *)
CacheDid ==
    /\ CacheTypes /\ CacheTypes'
    /\ CacheInv
    /\ Moves

(* A thread that a step leaves alone. *)
Alone(u) ==
    /\ at'[u] = at[u] /\ call'[u] = call[u] /\ profile'[u] = profile[u] /\ path'[u] = path[u]
    /\ pc'[u] = pc[u] /\ key'[u] = key[u]

(* What the cache has of p stays the file while the file stays.            *)
LEMMA SteadyKeeps ==
    ASSUME CacheDid, NEW p \in Profiles, Steady(p), version'[p] = version[p]
    PROVE  Steady(p)'
<1>1. Moves
      BY DEF CacheDid
<1>2. cache'[p] # None => cache'[p].value = version'[p]
      BY <1>1 DEF Moves, Steady
<1>3. ASSUME NEW u \in Threads, loaded'[u] # None, key'[u] = p
      PROVE  loaded'[u].value = version'[p]
      BY <1>1, <1>3 DEF Moves, Steady
<1> QED BY <1>2, <1>3 DEF Steady

(* A call that goes on and is untouched after a step was so before.        *)
LEMMA UntouchedBefore ==
    ASSUME CacheDid, Shape, NEW t \in Threads, Steps(t), Clean(t),
           call[t] # None, call'[t] = call[t], Untouched(t)'
    PROVE  /\ Untouched(t)
           /\ version'[call[t].rule.profile] = version[call[t].rule.profile]
           /\ Steady(call[t].rule.profile) /\ Steady(call[t].rule.profile)'
           /\ Due(t)' = Due(t)
<1> DEFINE p == call[t].rule.profile
<1>1. /\ p \in Profiles /\ call[t].began \in Int /\ call[t].began <= version[p]
      BY CallOf DEF Steps, Holds
<1>2. /\ call[t].clean /\ version'[p] = call[t].began
      BY DEF Untouched
<1>3. /\ version[p] \in Int /\ version'[p] \in Int /\ version[p] <= version'[p]
      BY <1>1 DEF CacheDid, CacheTypes, Moves
<1>4. version'[p] = version[p]
      BY <1>1, <1>2, <1>3
<1>5. Untouched(t)
      BY <1>2, <1>4 DEF Untouched
<1>6. Steady(p)
      BY <1>5 DEF Clean
<1>7. Steady(p)'
      BY <1>1, <1>4, <1>6, SteadyKeeps
<1>8. Due(t)' = Due(t)
      BY <1>4 DEF Due, Content, Synthesized
<1> QED BY <1>4, <1>5, <1>6, <1>7, <1>8

(* Threads left alone keep what they have. *)
LEMMA AloneKeeps ==
    ASSUME CacheDid, Shape, NEW u \in Threads, Steps(u), Clean(u), Alone(u)
    PROVE  Steps(u)' /\ Clean(u)'
<1>1. ASSUME call[u] # None PROVE Holds(u)'
  <2>1. Holds(u) /\ call[u].rule.profile \in Profiles /\ call[u].began \in Int
        BY <1>1, CallOf DEF Steps
  <2>2. /\ version[call[u].rule.profile] \in Int /\ version'[call[u].rule.profile] \in Int
        /\ version[call[u].rule.profile] <= version'[call[u].rule.profile]
        BY <2>1 DEF CacheDid, CacheTypes, Moves
  <2>3. call'[u].began <= version'[call'[u].rule.profile]
        BY <2>1, <2>2 DEF Holds, Alone
  <2> QED BY <2>1, <2>3 DEF Holds, Alone
<1>2. Steps(u)'
      BY <1>1 DEF Steps, Alone
<1>3. ASSUME Untouched(u)'
      PROVE  Steady(call[u].rule.profile)' /\ OnTheWay(u)'
  <2>1. call[u] # None /\ call'[u] = call[u]
        BY <1>3 DEF Untouched, Alone
  <2>2. /\ Untouched(u) /\ Due(u)' = Due(u) /\ Steady(call[u].rule.profile)'
        BY <1>3, <2>1, UntouchedBefore
  <2>3. OnTheWay(u)
        BY <2>2 DEF Clean
  <2>4. OnTheWay(u)'
        BY <2>2, <2>3 DEF OnTheWay, Alone
  <2> QED BY <2>2, <2>4
<1>4. Clean(u)'
      BY <1>3 DEF Clean
<1> QED BY <1>2, <1>4

(* The thread that returns has nothing left. *)
LEMMA ReturnKeeps ==
    ASSUME Shape, NEW t \in Threads, Return(t), pc'[t] = "idle"
    PROVE  /\ at' \in [Threads -> {"idle", "profile", "loading", "plugin", "stage"}]
           /\ call' \in [Threads -> Calls \cup {None}]
           /\ profile' \in [Threads -> Firmware \cup {None}]
           /\ path' \in [Threads -> Tree \cup {None}]
           /\ Steps(t)' /\ Clean(t)'
           /\ \A u \in Threads \ {t} : /\ at'[u] = at[u] /\ call'[u] = call[u]
                                       /\ profile'[u] = profile[u] /\ path'[u] = path[u]
<1>1. /\ at' = [at EXCEPT ![t] = "idle"]
      /\ call' = [call EXCEPT ![t] = None]
      /\ profile' = [profile EXCEPT ![t] = None]
      /\ path' = [path EXCEPT ![t] = None]
      BY DEF Return, GoTo
<1>2. /\ at'[t] = "idle" /\ call'[t] = None /\ profile'[t] = None /\ path'[t] = None
      /\ \A u \in Threads \ {t} : /\ at'[u] = at[u] /\ call'[u] = call[u]
                                  /\ profile'[u] = profile[u] /\ path'[u] = path[u]
      BY <1>1 DEF Shape
<1>3. Steps(t)' /\ Clean(t)'
      BY <1>2 DEF Steps, Clean, Untouched
<1> QED BY <1>1, <1>2, <1>3 DEF Shape

(* The invariant of the calls, apart from the cache's own. *)
Sound ==
    /\ Shape
    /\ \A t \in Threads : Steps(t) /\ Clean(t)
    /\ ServedIsAllowed

(* stage() begins: its rule is the host's, and if it begins clean then the *)
(* cache has nothing but the file.                                         *)
LEMMA StageKeeps ==
    ASSUME Sound, CacheDid, NEW t \in Threads, NEW h \in Hosts, NEW n \in {Filename, OwnName[h]},
           Stage(t, h, n)
    PROVE  Sound'
<1> DEFINE r == RuleOf[h]
<1> DEFINE p == r.profile
<1> DEFINE c == [host |-> h, name |-> n, rule |-> r, began |-> version[p],
                 clean |-> cleared[p] = version[p] /\ p \notin inflight]
<1>1. /\ at[t] = "idle" /\ h \in DOMAIN RuleOf
      /\ at' = [at EXCEPT ![t] = "profile"] /\ call' = [call EXCEPT ![t] = c]
      /\ UNCHANGED <<profile, path, caching, served>>
      BY DEF Stage, GoTo
<1>2. /\ Shape /\ Steps(t) /\ CacheTypes /\ CacheInv
      BY DEF Sound, CacheDid
<1>3. UNCHANGED <<cache, now, version, pc, key, loaded, changed, cleared, inflight>>
      BY <1>1 DEF caching
<1>4. r \in HostRule /\ p \in Profiles
      BY <1>1, RuleOfIsRule DEF HostRule
<1> HIDE DEF r
<1>5. /\ version[p] \in 0 .. MaxEdits /\ version[p] \in Int /\ cleared[p] \in Int
      /\ n \in Targets
      BY <1>2, <1>4, EngineAssumption DEF CacheTypes, Targets
<1>6. /\ c \in Calls
      /\ c.host = h /\ c.name = n /\ c.rule = r /\ c.began = version[p]
      /\ c.clean => cleared[p] = version[p] /\ p \notin inflight
      BY <1>4, <1>5 DEF Calls
<1> HIDE DEF c
<1>7. /\ at'[t] = "profile" /\ call'[t] = c /\ c # None
      /\ \A u \in Threads \ {t} : at'[u] = at[u] /\ call'[u] = call[u]
      BY <1>1, <1>2, <1>6, EngineAssumption DEF Shape
<1>8. Shape'
      BY <1>1, <1>2, <1>6 DEF Shape
<1>9. /\ pc[t] = "idle" /\ profile[t] = None /\ path[t] = None
      BY <1>1, <1>2 DEF Steps
<1>10. Holds(t)'
  <2>1. /\ call'[t].host = h /\ call'[t].name = n /\ call'[t].rule = r
        /\ call'[t].began = version[p] /\ version'[p] = version[p] /\ path'[t] = None
        BY <1>1, <1>3, <1>6, <1>7, <1>9
  <2> QED BY <1>1, <1>5, <1>7, <2>1 DEF Holds, r
<1>11. Steps(t)'
      BY <1>1, <1>3, <1>7, <1>9, <1>10 DEF Steps
<1>12. ASSUME Untouched(t)'
       PROVE  Steady(call[t].rule.profile)' /\ OnTheWay(t)'
  <2>1. cleared[p] = version[p] /\ p \notin inflight
        BY <1>6, <1>7, <1>12 DEF Untouched
  <2>2. cache[p] # None => cache[p].value = version[p]
    <3>1. cache[p] # None => FreshFor(p, cache[p]) /\ cache[p].value \in Int
          BY <1>2, <1>4 DEF CacheInv, CacheTypes, Cache!Entry, Cache!Versions
    <3> QED BY <1>5, <2>1, <3>1 DEF FreshFor
  <2>3. ASSUME NEW u \in Threads, loaded[u] # None, key[u] = p
        PROVE  loaded[u].value = version[p]
    <3>1. FreshFor(p, loaded[u]) /\ loaded[u].value \in Int
          BY <1>2, <2>3 DEF CacheInv, CacheTypes, Cache!Entry, Cache!Versions
    <3> QED BY <1>5, <2>1, <3>1 DEF FreshFor
  <2>4. call'[t].rule.profile = p
        BY <1>6, <1>7
  <2>5. Steady(call[t].rule.profile)'
        BY <1>3, <2>2, <2>3, <2>4 DEF Steady
  <2>6. OnTheWay(t)'
        BY <1>7 DEF OnTheWay
  <2> QED BY <2>5, <2>6
<1>13. Clean(t)'
      BY <1>12 DEF Clean
<1>14. ASSUME NEW u \in Threads \ {t} PROVE Steps(u)' /\ Clean(u)'
  <2>1. Alone(u)
        BY <1>1, <1>3, <1>7 DEF Alone
  <2>2. Steps(u) /\ Clean(u)
        BY DEF Sound
  <2> QED BY <1>2, <2>1, <2>2, AloneKeeps
<1>15. ServedIsAllowed'
  <2>1. ServedIsAllowed /\ served' = served
        BY <1>1 DEF Sound
  <2> QED BY <2>1 DEF ServedIsAllowed
<1> QED BY <1>8, <1>11, <1>13, <1>14, <1>15 DEF Sound

(* load_profile_for_rule() goes to the cache, or makes up a profile: what  *)
(* is due where there is no file.                                          *)
LEMMA LoadProfileKeeps ==
    ASSUME Sound, CacheDid, NEW t \in Threads, LoadProfile(t)
    PROVE  Sound'
<1> DEFINE r == call[t].rule
<1>1. /\ at[t] = "profile"
      /\ UNCHANGED <<call, path, served>>
      /\ \/ /\ Content(r.profile) # None
            /\ Cache!Call(t, r.profile)
            /\ at' = [at EXCEPT ![t] = "loading"]
            /\ UNCHANGED profile
         \/ /\ Content(r.profile) = None
            /\ profile' = [profile EXCEPT ![t] = Synthesized(r)]
            /\ at' = [at EXCEPT ![t] = "plugin"]
            /\ UNCHANGED caching
      BY DEF LoadProfile, GoTo
<1>2. /\ Shape /\ Steps(t) /\ Clean(t) /\ CacheTypes
      BY DEF Sound, CacheDid
<1>3. /\ call[t] # None /\ profile[t] = None /\ path[t] = None /\ pc[t] = "idle"
      /\ Holds(t)
      BY <1>1, <1>2 DEF Steps
<1>4. r \in HostRule /\ r.profile \in Profiles
      BY <1>2, <1>3, CallOf
<1>5. Synthesized(r) \in Firmware /\ None \notin Firmware
      BY <1>4, EngineAssumption DEF Synthesized, Firmware, HostRule
<1>6. ASSUME Untouched(t)'
      PROVE  Steady(call[t].rule.profile)' /\ Due(t)' = Due(t)
      BY <1>1, <1>2, <1>3, <1>6, UntouchedBefore
<1>7. ServedIsAllowed'
  <2>1. ServedIsAllowed /\ served' = served
        BY <1>1 DEF Sound
  <2> QED BY <2>1 DEF ServedIsAllowed
<1>8. ASSUME \A u \in Threads \ {t} : Alone(u), NEW u \in Threads \ {t}
      PROVE  Steps(u)' /\ Clean(u)'
  <2>1. Steps(u) /\ Clean(u)
        BY DEF Sound
  <2> QED BY <1>2, <1>8, <2>1, AloneKeeps
<1>9. ASSUME pc'[t] = "idle" \/ key'[t] = r.profile, version' = version, call' = call, path' = path,
             at'[t] = "loading" => pc'[t] # "idle"
      PROVE  Holds(t)'
      BY <1>3, <1>9 DEF Holds
<1>10. CASE /\ Content(r.profile) # None
            /\ Cache!Call(t, r.profile)
            /\ at' = [at EXCEPT ![t] = "loading"]
            /\ UNCHANGED profile
  <2>1. /\ pc' = [pc EXCEPT ![t] = "get"] /\ key' = [key EXCEPT ![t] = r.profile]
        /\ UNCHANGED version
        BY <1>10 DEF Cache!Call, Cache!env
  <2>2. /\ at'[t] = "loading" /\ pc'[t] = "get" /\ key'[t] = r.profile
        /\ \A u \in Threads \ {t} : at'[u] = at[u] /\ pc'[u] = pc[u] /\ key'[u] = key[u]
        BY <1>2, <1>10, <2>1 DEF Shape, CacheTypes
  <2>3. Shape'
        BY <1>1, <1>2, <1>10 DEF Shape
  <2>4. Holds(t)'
        BY <1>1, <1>9, <2>1, <2>2
  <2>5. Steps(t)'
        BY <1>1, <1>3, <1>10, <2>2, <2>4 DEF Steps
  <2>6. OnTheWay(t)'
        BY <2>2 DEF OnTheWay
  <2>7. Clean(t)'
        BY <1>6, <2>6 DEF Clean
  <2>8. \A u \in Threads \ {t} : Alone(u)
        BY <1>1, <1>10, <2>2 DEF Alone
  <2> QED BY <1>7, <1>8, <2>3, <2>5, <2>7, <2>8 DEF Sound
<1>11. CASE /\ Content(r.profile) = None
            /\ profile' = [profile EXCEPT ![t] = Synthesized(r)]
            /\ at' = [at EXCEPT ![t] = "plugin"]
            /\ UNCHANGED caching
  <2>1. UNCHANGED <<pc, key, version>>
        BY <1>11 DEF caching
  <2>2. /\ at'[t] = "plugin" /\ profile'[t] = Synthesized(r)
        /\ \A u \in Threads \ {t} : at'[u] = at[u] /\ profile'[u] = profile[u]
        BY <1>2, <1>11 DEF Shape
  <2>3. Shape'
        BY <1>1, <1>2, <1>5, <1>11 DEF Shape
  <2>4. Holds(t)'
        BY <1>1, <1>3, <1>9, <2>1, <2>2
  <2>5. Steps(t)'
        BY <1>1, <1>3, <1>5, <2>1, <2>2, <2>4 DEF Steps
  <2>6. Due(t) = Synthesized(r)
        BY <1>11 DEF Due
  <2>7. Clean(t)'
    <3>1. ASSUME Untouched(t)' PROVE OnTheWay(t)'
      <4>1. Due(t)' = Synthesized(r)
            BY <1>6, <2>6, <3>1
      <4> QED BY <2>2, <4>1 DEF OnTheWay
    <3> QED BY <1>6, <3>1 DEF Clean
  <2>8. \A u \in Threads \ {t} : Alone(u)
        BY <1>1, <2>1, <2>2 DEF Alone
  <2> QED BY <1>7, <1>8, <2>3, <2>5, <2>7, <2>8 DEF Sound
<1> QED BY <1>1, <1>10, <1>11

(* The loader goes on, fails, or returns a profile: the file, if the call  *)
(* is untouched.                                                           *)
LEMMA LoadingKeeps ==
    ASSUME Sound, CacheDid, NEW t \in Threads, Loading(t)
    PROVE  Sound'
<1> DEFINE p == call[t].rule.profile
<1> DEFINE v == Cache!Answer(t)
<1>1. /\ at[t] = "loading" /\ LoaderStep(t) /\ UNCHANGED served
      /\ IF pc'[t] # "idle" THEN UNCHANGED engine
         ELSE IF pc[t] = "load" THEN Return(t)
         ELSE /\ profile' = [profile EXCEPT ![t] = Contents[key[t]][v]]
              /\ at' = [at EXCEPT ![t] = "plugin"]
              /\ UNCHANGED <<call, path>>
      BY DEF Loading, GoTo
<1>2. /\ Shape /\ Steps(t) /\ Clean(t) /\ CacheTypes /\ CacheInv
      BY DEF Sound, CacheDid
<1>3. /\ call[t] # None /\ profile[t] = None /\ path[t] = None
      /\ Holds(t) /\ key[t] = p
      BY <1>1, <1>2 DEF Steps, Holds
<1>4. p \in Profiles
      BY <1>2, <1>3, CallOf
<1>5. /\ \A u \in Threads \ {t} : pc'[u] = pc[u] /\ key'[u] = key[u]
      /\ pc'[t] # "idle" => key'[t] = key[t]
      /\ pc'[t] = "idle" =>
           \/ pc[t] = "load"
           \/ pc[t] \in {"get", "recheck"} /\ cache[key[t]] # None
           \/ pc[t] = "put"
      /\ version' = version
      BY <1>1, <1>2, LoaderStepOf
<1>6. ServedIsAllowed'
  <2>1. ServedIsAllowed /\ served' = served
        BY <1>1 DEF Sound
  <2> QED BY <2>1 DEF ServedIsAllowed
<1>7. ASSUME \A u \in Threads \ {t} : Alone(u), NEW u \in Threads \ {t}
      PROVE  Steps(u)' /\ Clean(u)'
  <2>1. Steps(u) /\ Clean(u)
        BY DEF Sound
  <2> QED BY <1>2, <1>7, <2>1, AloneKeeps
<1>8. ASSUME call' = call, Untouched(t)'
      PROVE  Steady(p) /\ Steady(p)' /\ Due(t)' = Due(t)
      BY <1>2, <1>3, <1>8, UntouchedBefore
<1>9. CASE pc'[t] # "idle"
  <2>1. UNCHANGED <<at, call, profile, path>>
        BY <1>1, <1>9 DEF engine
  <2>2. Shape'
        BY <1>1, <1>2, <2>1 DEF Shape
  <2>3. Holds(t)'
        BY <1>3, <1>5, <1>9, <2>1 DEF Holds
  <2>4. Steps(t)'
        BY <1>1, <1>2, <1>9, <2>1, <2>3 DEF Steps
  <2>5. OnTheWay(t)'
        BY <1>1, <2>1 DEF OnTheWay
  <2>6. Clean(t)'
        BY <1>8, <2>1, <2>5 DEF Clean
  <2>7. \A u \in Threads \ {t} : Alone(u)
        BY <1>5, <2>1 DEF Alone
  <2> QED BY <1>6, <1>7, <2>2, <2>4, <2>6, <2>7 DEF Sound
<1>10. CASE pc'[t] = "idle" /\ pc[t] = "load"
  <2>1. Return(t)
        BY <1>1, <1>10
  <2>2. /\ at' \in [Threads -> {"idle", "profile", "loading", "plugin", "stage"}]
        /\ call' \in [Threads -> Calls \cup {None}]
        /\ profile' \in [Threads -> Firmware \cup {None}]
        /\ path' \in [Threads -> Tree \cup {None}]
        /\ Steps(t)' /\ Clean(t)'
        /\ \A u \in Threads \ {t} : /\ at'[u] = at[u] /\ call'[u] = call[u]
                                    /\ profile'[u] = profile[u] /\ path'[u] = path[u]
        BY <1>2, <1>10, <2>1, ReturnKeeps
  <2>3. Shape'
        BY <1>1, <1>2, <2>2 DEF Shape
  <2>4. \A u \in Threads \ {t} : Alone(u)
        BY <1>5, <2>2 DEF Alone
  <2> QED BY <1>6, <1>7, <2>2, <2>3, <2>4 DEF Sound
<1>11. CASE pc'[t] = "idle" /\ pc[t] # "load"
  <2> DEFINE f == Contents[key[t]][v]
  <2>1. /\ profile' = [profile EXCEPT ![t] = f]
        /\ at' = [at EXCEPT ![t] = "plugin"]
        /\ UNCHANGED <<call, path>>
        BY <1>1, <1>11
  <2>2. /\ v \in 0 .. MaxEdits /\ Contents[p][v] # None
        /\ Steady(p) => v = version[p]
    <3>1. CASE pc[t] \in {"get", "recheck"} /\ cache[p] # None
      <4>1. v = cache[p].value
            BY <1>3, <3>1 DEF Cache!Answer
      <4>2. cache[p] \in Cache!Entry /\ FreshFor(p, cache[p])
            BY <1>2, <1>4, <3>1 DEF CacheTypes, CacheInv
      <4> QED BY <3>1, <4>1, <4>2 DEF Cache!Entry, Cache!Versions, FreshFor, Steady
    <3>2. CASE pc[t] = "put"
      <4>1. v = loaded[t].value /\ loaded[t] # None
            BY <1>2, <3>2 DEF Cache!Answer, CacheTypes
      <4>2. loaded[t] \in Cache!Entry /\ FreshFor(p, loaded[t])
            BY <1>2, <1>3, <4>1 DEF CacheTypes, CacheInv
      <4> QED BY <1>3, <4>1, <4>2 DEF Cache!Entry, Cache!Versions, FreshFor, Steady
    <3> QED BY <1>3, <1>5, <1>11, <3>1, <3>2
  <2> HIDE DEF v
  <2>3. f \in Firmware /\ f # None /\ f = Contents[p][v]
        BY <1>3, <1>4, <2>2, EngineAssumption
  <2> HIDE DEF f
  <2>4. /\ at'[t] = "plugin" /\ profile'[t] = f
        /\ \A u \in Threads \ {t} : at'[u] = at[u] /\ profile'[u] = profile[u]
        BY <1>2, <2>1 DEF Shape
  <2>5. Shape'
        BY <1>1, <1>2, <2>1, <2>3 DEF Shape
  <2>6. Holds(t)'
        BY <1>3, <1>5, <2>1, <2>4 DEF Holds
  <2>7. Steps(t)'
        BY <1>3, <1>11, <2>1, <2>3, <2>4, <2>6 DEF Steps
  <2>8. ASSUME Untouched(t)' PROVE OnTheWay(t)'
    <3>1. Steady(p) /\ Due(t)' = Due(t)
          BY <1>8, <2>1, <2>8
    <3>2. Due(t) = f
          BY <2>2, <2>3, <3>1 DEF Due, Content
    <3> QED BY <2>4, <3>1, <3>2 DEF OnTheWay
  <2>9. Clean(t)'
        BY <1>8, <2>1, <2>8 DEF Clean
  <2>10. \A u \in Threads \ {t} : Alone(u)
        BY <1>5, <2>1, <2>4 DEF Alone
  <2> QED BY <1>6, <1>7, <2>5, <2>7, <2>9, <2>10 DEF Sound
<1> QED BY <1>9, <1>10, <1>11

(* A call raises, or a file is staged and the call returns. *)
LEMMA ReturningKeeps ==
    ASSUME Sound, CacheDid, NEW t \in Threads, Return(t), UNCHANGED caching,
           at[t] \in {"plugin", "stage"},
           served' \in [Targets -> Tree \cup {None}], ServedIsAllowed'
    PROVE  Sound'
<1>1. /\ Shape /\ Steps(t)
      /\ UNCHANGED <<pc, key>>
      BY DEF Sound, caching
<1>2. pc'[t] = "idle"
      BY <1>1 DEF Steps
<1>3. /\ at' \in [Threads -> {"idle", "profile", "loading", "plugin", "stage"}]
      /\ call' \in [Threads -> Calls \cup {None}]
      /\ profile' \in [Threads -> Firmware \cup {None}]
      /\ path' \in [Threads -> Tree \cup {None}]
      /\ Steps(t)' /\ Clean(t)'
      /\ \A u \in Threads \ {t} : /\ at'[u] = at[u] /\ call'[u] = call[u]
                                  /\ profile'[u] = profile[u] /\ path'[u] = path[u]
      BY <1>1, <1>2, ReturnKeeps
<1>4. Shape'
      BY <1>1, <1>3 DEF Shape
<1>5. ASSUME NEW u \in Threads \ {t} PROVE Steps(u)' /\ Clean(u)'
  <2>1. Steps(u) /\ Clean(u) /\ Alone(u)
        BY <1>1, <1>3 DEF Sound, Alone
  <2> QED BY <1>1, <2>1, AloneKeeps
<1> QED BY <1>3, <1>4, <1>5 DEF Sound

(* The plugin validates the profile and finds the file, or serve() raises. *)
LEMMA ResolveKeeps ==
    ASSUME Sound, CacheDid, NEW t \in Threads, Resolve(t)
    PROVE  Sound'
<1> DEFINE f == profile[t]
<1>1. /\ at[t] = "plugin"
      /\ UNCHANGED <<caching, served>>
      /\ \/ Return(t)
         \/ /\ Valid(call[t].rule.os_family, f) /\ f \in Tree
            /\ path' = [path EXCEPT ![t] = f]
            /\ profile' = [profile EXCEPT ![t] = None]
            /\ at' = [at EXCEPT ![t] = "stage"]
            /\ UNCHANGED call
      BY DEF Resolve, GoTo
<1>2. /\ Shape /\ Steps(t) /\ Clean(t)
      /\ UNCHANGED <<pc, key, version>>
      BY <1>1 DEF Sound, caching
<1>3. served' \in [Targets -> Tree \cup {None}] /\ ServedIsAllowed'
  <2>1. ServedIsAllowed /\ served' = served
        BY <1>1 DEF Sound
  <2> QED BY <1>2, <2>1 DEF ServedIsAllowed, Shape
<1>4. CASE Return(t)
      BY <1>1, <1>3, <1>4, ReturningKeeps
<1>5. CASE /\ Valid(call[t].rule.os_family, f) /\ f \in Tree
           /\ path' = [path EXCEPT ![t] = f]
           /\ profile' = [profile EXCEPT ![t] = None]
           /\ at' = [at EXCEPT ![t] = "stage"]
           /\ UNCHANGED call
  <2>1. /\ at'[t] = "stage" /\ path'[t] = f /\ profile'[t] = None /\ f # None
        /\ \A u \in Threads \ {t} :
             at'[u] = at[u] /\ path'[u] = path[u] /\ profile'[u] = profile[u]
        BY <1>2, <1>5, EngineAssumption DEF Shape
  <2>2. Shape'
        BY <1>2, <1>3, <1>5 DEF Shape
  <2>3. Holds(t) /\ pc[t] = "idle" /\ call[t] # None
        BY <1>1, <1>2 DEF Steps
  <2>4. Holds(t)'
        BY <1>2, <1>5, <2>1, <2>3 DEF Holds
  <2>5. Steps(t)'
        BY <1>2, <1>5, <2>1, <2>3, <2>4 DEF Steps
  <2>6. ASSUME Untouched(t)'
        PROVE  Steady(call[t].rule.profile)' /\ OnTheWay(t)'
    <3>1. /\ Untouched(t) /\ Due(t)' = Due(t)
          /\ Steady(call[t].rule.profile)'
          BY <1>2, <1>5, <2>3, <2>6, UntouchedBefore
    <3>2. f = Due(t)
          BY <1>1, <1>2, <3>1 DEF Clean, OnTheWay
    <3>3. OnTheWay(t)'
      <4> HIDE DEF f
      <4> QED BY <2>1, <3>1, <3>2 DEF OnTheWay
    <3> QED BY <3>1, <3>3
  <2>7. Clean(t)'
        BY <2>6 DEF Clean
  <2>8. ASSUME NEW u \in Threads \ {t} PROVE Steps(u)' /\ Clean(u)'
    <3>1. Steps(u) /\ Clean(u) /\ Alone(u)
          BY <1>2, <1>5, <2>1 DEF Sound, Alone
    <3> QED BY <1>2, <3>1, AloneKeeps
  <2> QED BY <1>3, <2>2, <2>5, <2>7, <2>8 DEF Sound
<1> QED BY <1>1, <1>4, <1>5

(* What is staged under a host's name is valid for the host's rule. *)
LEMMA PlaceKeeps ==
    ASSUME Sound, CacheDid, NEW t \in Threads, Place(t)
    PROVE  Sound'
<1> DEFINE c == call[t]
<1>1. /\ at[t] = "stage" /\ Return(t) /\ UNCHANGED caching
      /\ served' = [served EXCEPT ![c.name] = path[t]]
      BY DEF Place, Dir!Place
<1>2. /\ Shape /\ Steps(t) /\ ServedIsAllowed
      BY DEF Sound
<1>3. c # None /\ Holds(t) /\ path[t] # None /\ path[t] \in Tree
      BY <1>1, <1>2 DEF Steps, Shape
<1>4. c.name \in Targets /\ c.host \in Hosts
      BY <1>2, <1>3, CallOf
<1>5. /\ served' \in [Targets -> Tree \cup {None}]
      /\ served'[c.name] = path[t]
      /\ \A n \in Targets \ {c.name} : served'[n] = served[n]
      BY <1>1, <1>2, <1>3, <1>4 DEF Shape
<1>6. /\ c.name \in {Filename, OwnName[c.host]}
      /\ path[t].os_family = RuleOf[c.host].os_family
      /\ \/ Plugins[path[t].os_family] = {}
         \/ path[t].os_version \in Plugins[path[t].os_family]
      BY <1>3 DEF Holds, Valid
<1>7. ASSUME NEW h \in Hosts, served'[OwnName[h]] # None
      PROVE  /\ served'[OwnName[h]].os_family = RuleOf[h].os_family
             /\ \/ Plugins[served'[OwnName[h]].os_family] = {}
                \/ served'[OwnName[h]].os_version \in Plugins[served'[OwnName[h]].os_family]
  <2>1. OwnName[h] \in Targets /\ OwnName[h] # Filename
        BY EngineAssumption DEF Targets
  <2>2. CASE OwnName[h] = c.name
    <3>1. h = c.host
          BY <1>4, <1>6, <2>1, <2>2, EngineAssumption
    <3> QED BY <1>5, <1>6, <2>2, <3>1
  <2>3. CASE OwnName[h] # c.name
    <3>1. served'[OwnName[h]] = served[OwnName[h]]
          BY <1>5, <2>1, <2>3
    <3> QED BY <1>2, <1>7, <3>1 DEF ServedIsAllowed
  <2> QED BY <2>2, <2>3
<1>8. ServedIsAllowed'
      BY <1>7 DEF ServedIsAllowed
<1> QED BY <1>1, <1>5, <1>8, ReturningKeeps

(* An invalidation, an edit and unstage() leave every call alone. *)
LEMMA AroundKeeps ==
    ASSUME Sound, CacheDid, UNCHANGED <<engine, pc, key>>,
           served' \in [Targets -> Tree \cup {None}],
           \A n \in Targets : served'[n] = served[n] \/ served'[n] = None
    PROVE  Sound'
<1>1. Shape /\ ServedIsAllowed /\ UNCHANGED <<at, call, profile, path>>
      BY DEF Sound, engine
<1>2. Shape'
      BY <1>1 DEF Shape
<1>3. ASSUME NEW u \in Threads PROVE Steps(u)' /\ Clean(u)'
  <2>1. Steps(u) /\ Clean(u) /\ Alone(u)
        BY <1>1 DEF Sound, Alone
  <2> QED BY <1>1, <2>1, AloneKeeps
<1>4. ServedIsAllowed'
  <2>1. \A h \in Hosts : OwnName[h] \in Targets
        BY DEF Targets
  <2>2. \A h \in Hosts : served'[OwnName[h]] # None => served'[OwnName[h]] = served[OwnName[h]]
        BY <2>1
  <2> QED BY <1>1, <2>2 DEF ServedIsAllowed
<1> QED BY <1>2, <1>3, <1>4 DEF Sound

(* So every step keeps the calls sound. *)
LEMMA SoundKeeps ==
    ASSUME Sound, CacheDid, [Next]_vars
    PROVE  Sound'
<1>1. /\ \A n \in Targets : served[n] = served[n]
      /\ served \in [Targets -> Tree \cup {None}]
      BY DEF Sound, Shape
<1>2. CASE UNCHANGED vars
      BY <1>1, <1>2, AroundKeeps DEF vars, caching
<1>3. ASSUME NEW t \in Threads, NEW h \in Hosts, NEW n \in {Filename, OwnName[h]}, Stage(t, h, n)
      PROVE  Sound'
      BY <1>3, StageKeeps
<1>4. ASSUME NEW t \in Threads, LoadProfile(t) PROVE Sound'
      BY <1>4, LoadProfileKeeps
<1>5. ASSUME NEW t \in Threads, Loading(t) PROVE Sound'
      BY <1>5, LoadingKeeps
<1>6. ASSUME NEW t \in Threads, Resolve(t) PROVE Sound'
      BY <1>6, ResolveKeeps
<1>7. ASSUME NEW t \in Threads, Place(t) PROVE Sound'
      BY <1>7, PlaceKeeps
<1>8. ASSUME NEW t \in Threads, PlaceRaises(t) PROVE Sound'
  <2>1. /\ at[t] = "stage" /\ Return(t) /\ UNCHANGED <<caching, served>>
        BY <1>8 DEF PlaceRaises
  <2>2. ServedIsAllowed'
    <3>1. ServedIsAllowed /\ served' = served
          BY <2>1 DEF Sound
    <3> QED BY <3>1 DEF ServedIsAllowed
  <2> QED BY <1>1, <2>1, <2>2, ReturningKeeps
<1>9. CASE InvalidateCaches
  <2>1. UNCHANGED <<engine, served, pc, key>>
        BY <1>9 DEF InvalidateCaches, Cache!Clear
  <2> QED BY <1>1, <2>1, AroundKeeps
<1>10. ASSUME NEW p \in Profiles, EditProfile(p) PROVE Sound'
  <2>1. UNCHANGED <<engine, served, pc, key>>
        BY <1>10 DEF EditProfile, Cache!Edit
  <2> QED BY <1>1, <2>1, AroundKeeps
<1>11. ASSUME NEW n \in Targets, Unstage(n) PROVE Sound'
  <2>1. /\ served' = [served EXCEPT ![n] = None]
        /\ UNCHANGED <<engine, pc, key>>
        BY <1>11 DEF Unstage, Dir!Remove, caching
  <2>2. /\ served' \in [Targets -> Tree \cup {None}]
        /\ \A m \in Targets : served'[m] = served[m] \/ served'[m] = None
        BY <1>1, <2>1
  <2> QED BY <2>1, <2>2, AroundKeeps
<1> QED BY <1>2, <1>3, <1>4, <1>5, <1>6, <1>7, <1>8, <1>9, <1>10, <1>11 DEF Next

(* Nothing is cached, staged or called at first. *)
LEMMA EngineInit == ASSUME Init PROVE EngineInv
<1>1. /\ served = [n \in Targets |-> None]
      /\ at = [t \in Threads |-> "idle"] /\ call = [t \in Threads |-> None]
      /\ profile = [t \in Threads |-> None] /\ path = [t \in Threads |-> None]
      BY DEF Init, Dir!Init
<1>2. /\ cache = [k \in Profiles |-> None] /\ now = 0
      /\ version = [k \in Profiles |-> 0] /\ pc = [t \in Threads |-> "idle"]
      /\ key = [t \in Threads |-> None] /\ loaded = [t \in Threads |-> None]
      /\ changed = [k \in Profiles |-> [v \in 0 .. MaxEdits |-> -1]]
      /\ cleared = [k \in Profiles |-> 0] /\ inflight = {}
      BY DEF Init, Cache!Init, Cache!Versions
<1>3. MaxEdits \in Nat /\ MaxSize \in Nat
      BY EngineAssumption
<1>4. CacheTypes
      BY <1>2, <1>3 DEF CacheTypes
<1>5. Cardinality(Cache!Entries) <= MaxSize
  <2>1. Cache!Entries = {}
        BY <1>2 DEF Cache!Entries
  <2> QED BY <1>3, <2>1, FS_EmptySet
<1>6. Cache!TypeOK
      BY <1>4, <1>5, CacheTypesIs
<1>7. CacheInv
      BY <1>2, <1>3 DEF CacheInv
<1>8. Shape
      BY <1>1 DEF Shape
<1>9. \A t \in Threads : Steps(t) /\ Clean(t)
      BY <1>1, <1>2 DEF Steps, Clean, Untouched
<1>10. ServedIsAllowed
  <2>1. \A h \in Hosts : OwnName[h] \in Targets
        BY DEF Targets
  <2> QED BY <1>1, <2>1 DEF ServedIsAllowed
<1> QED BY <1>6, <1>7, <1>8, <1>9, <1>10 DEF EngineInv

(* The invariant of the engine is inductive. *)
LEMMA EngineStep == ASSUME EngineInv, [Next]_vars PROVE EngineInv'
<1>1. Sound /\ Cache!TypeOK /\ CacheInv
      BY DEF EngineInv, Sound
<1>2. CacheStep
      BY <1>1, StepsOfTheCache DEF Sound
<1>3. Cache!TypeOK' /\ CacheInv' /\ Moves
      BY <1>1, <1>2, CacheKeeps
<1>4. CacheDid
      BY <1>1, <1>3, CacheTypesIs, CacheTypesIsNext DEF CacheDid
<1>5. Sound'
      BY <1>1, <1>4, SoundKeeps
<1> QED BY <1>3, <1>5 DEF EngineInv, Sound

-----------------------------------------------------------------------------
(***************************************************************************)
(* Theorems                                                                *)
(***************************************************************************)

(* The cache holds real versions, the calls are for their hosts' rules,    *)
(* and a clean call is on its way to serve the file as it is.              *)
THEOREM EngineInvHolds == Spec => []EngineInv
<1>1. Init => EngineInv
      BY EngineInit
<1>2. EngineInv /\ [Next]_vars => EngineInv'
      BY EngineStep
<1> QED BY <1>1, <1>2, PTL DEF Spec

(* Whatever the number of threads, hosts, profiles, edits and entries, the *)
(* variables have their types, the cache never more than maxsize entries,  *)
(* and a thread has a profile or a path exactly at the place of serve()    *)
(* where it needs it (engine.py:123-174, cache.py:46-61).                  *)
THEOREM EngineTypeCorrect == Spec => []TypeOK
<1>1. EngineInv => TypeOK
      BY DEF EngineInv, Shape, Steps, TypeOK
<1> QED BY <1>1, EngineInvHolds, PTL

(* For every list of rules, of any length, with any criteria and           *)
(* priorities, match() gives a host the most specific of the rules that    *)
(* match it, and of several the one that comes first (matcher.py:17-44).   *)
THEOREM MatcherIsRight == Spec => []MatchIsBest
<1>1. \A rs \in RuleLists : \A h \in Hosts : BestAnswer(rs, h)
  <2>1. RuleLists \subseteq Seq(HostRule) /\ \A r \in HostRule : r.priority \in Int
        BY EngineAssumption DEF HostRule
  <2> QED BY <2>1, AnswerIsBest
<1>2. AnsweredBest = Hosts
      BY <1>1 DEF AnsweredBest
<1>3. EngineInv => MatchIsBest
  <2>1. ASSUME EngineInv, NEW t \in Threads, call[t] # None PROVE call[t].host \in Hosts
        BY <2>1, CallOf DEF EngineInv
  <2> QED BY <1>2, <2>1 DEF MatchIsBest
<1> QED BY <1>3, EngineInvHolds, PTL

(* Under its own name a host never finds firmware of another os_family     *)
(* than its rule's, or of a version the plugin does not support            *)
(* (engine.py:119-139).                                                    *)
THEOREM HostsGetWhatIsAllowed == Spec => []ServedIsAllowed
<1>1. EngineInv => ServedIsAllowed
      BY DEF EngineInv
<1> QED BY <1>1, EngineInvHolds, PTL

(* After invalidate_caches(), a host staged by a call that began later is  *)
(* given what its profile's file says (engine.py:150-174).                 *)
THEOREM InvalidationIsSeen == Spec => CurrentAfterInvalidate
<1>1. ASSUME EngineInv, NEW t \in Threads, Place(t), call[t].clean,
             version[call[t].rule.profile] = call[t].began
      PROVE  served'[call[t].name] = Due(t)
  <2>1. at[t] = "stage" /\ Shape /\ Steps(t) /\ Clean(t)
        BY <1>1 DEF EngineInv, Place
  <2>2. call[t] # None
        BY <2>1 DEF Steps
  <2>3. path[t] = Due(t)
        BY <1>1, <2>1, <2>2 DEF Clean, Untouched, OnTheWay
  <2>4. call[t].name \in Targets
        BY <2>1, <2>2, CallOf
  <2>5. served' = [served EXCEPT ![call[t].name] = path[t]]
        BY <1>1 DEF Place, Dir!Place
  <2>6. served'[call[t].name] = path[t]
        BY <2>1, <2>4, <2>5 DEF Shape
  <2> QED BY <2>3, <2>6
<1>2. EngineInv =>
        \A t \in Threads :
          LET c == call[t]
              p == c.rule.profile
          IN  Place(t) /\ c.clean /\ version[p] = c.began =>
                served'[c.name] = IF Content(p) # None THEN Content(p)
                                  ELSE Synthesized(c.rule)
      BY <1>1 DEF Due
<1> QED BY <1>2, EngineInvHolds, PTL DEF CurrentAfterInvalidate

(* The engine is put together from its parts: what load_profile_for_rule() *)
(* and invalidate_caches() do to the cache is what TTLCache allows, and    *)
(* what stage() does to the directory is what ServedDirectory allows,      *)
(* which staging implements (engine.py:103, 151, 169-174).                 *)
THEOREM EngineComposes == Spec => Cache!Spec /\ Dir!Spec
<1>1. Init => Cache!Init /\ Dir!Init
      BY DEF Init
<1>2. ASSUME EngineInv, [Next]_vars
      PROVE  [Cache!Next]_(Cache!vars)
  <2>1. CacheStep
        BY <1>2, StepsOfTheCache DEF EngineInv
  <2>2. CASE UNCHANGED caching
        BY <2>2 DEF caching, Cache!vars
  <2>3. CASE \E t \in Threads : (\E p \in Profiles : Cache!Call(t, p)) \/ LoaderStep(t)
        BY <2>3 DEF LoaderStep, Cache!Next
  <2>4. CASE Cache!Clear \/ \E p \in Profiles : Cache!Edit(p)
        BY <2>4 DEF Cache!Next
  <2> QED BY <2>1, <2>2, <2>3, <2>4 DEF CacheStep
<1>3. ASSUME EngineInv, [Next]_vars
      PROVE  [Dir!Next]_served
  <2>1. ASSUME NEW t \in Threads, Place(t) PROVE Dir!Next
    <3>1. at[t] = "stage" /\ Dir!Place(call[t].name, path[t])
          BY <2>1 DEF Place
    <3>2. Shape /\ Steps(t)
          BY <1>3 DEF EngineInv
    <3>3. path[t] \in Tree
          BY <3>1, <3>2 DEF Shape, Steps
    <3>4. call[t] # None /\ Holds(t)
          BY <3>1, <3>2 DEF Steps
    <3>5. call[t].name \in Targets
      <4>1. call[t].host \in Hosts /\ call[t].name \in {Filename, OwnName[call[t].host]}
            BY <3>4 DEF Holds, RuleOf
      <4> QED BY <4>1 DEF Targets
    <3> QED BY <3>1, <3>3, <3>5 DEF Dir!Next
  <2>2. ASSUME NEW n \in Targets, Unstage(n) PROVE Dir!Next
        BY <2>2 DEF Unstage, Dir!Next
  <2>3. CASE UNCHANGED vars
        BY <2>3 DEF vars
  <2>4. ASSUME NEW t \in Threads,
               \/ \E h \in Hosts : \E n \in {Filename, OwnName[h]} : Stage(t, h, n)
               \/ LoadProfile(t)
               \/ Loading(t)
               \/ Resolve(t)
               \/ PlaceRaises(t)
        PROVE  UNCHANGED served
        BY <2>4 DEF Stage, LoadProfile, Loading, Resolve, PlaceRaises
  <2>5. CASE InvalidateCaches \/ \E p \in Profiles : EditProfile(p)
        BY <2>5 DEF InvalidateCaches, EditProfile
  <2> QED BY <1>3, <2>1, <2>2, <2>3, <2>4, <2>5 DEF Next
<1> QED BY <1>1, <1>2, <1>3, EngineInvHolds, PTL DEF Spec, Cache!Spec, Dir!Spec

-----------------------------------------------------------------------------
(***************************************************************************)
(* The cached loader as time goes by                                       *)
(***************************************************************************)

(* TTLCache by itself, with any time to live, clock and slowness of loads. *)
CONSTANTS LoaderTTL, MaxLoad, MaxClock

Loader == INSTANCE TTLCache WITH Keys <- Profiles, TTL <- LoaderTTL

(* What CacheAssumption asks of these constants. *)
LoaderAssumption ==
    /\ LoaderTTL \in Nat /\ MaxLoad \in Nat /\ MaxClock \in Nat
    /\ None \notin Profiles
    /\ None \notin [stamp : 0 .. MaxClock, value : 0 .. MaxEdits]

(* The type invariant of TTLCache, without the number of its entries. *)
LoaderTypes ==
    /\ cache \in [Profiles -> [stamp : 0 .. MaxClock, value : 0 .. MaxEdits] \cup {None}]
    /\ now \in 0 .. MaxClock
    /\ version \in [Profiles -> 0 .. MaxEdits]
    /\ pc \in [Threads -> {"idle", "get", "recheck", "load", "put"}]
    /\ key \in [Threads -> Profiles \cup {None}]
    /\ \A t \in Threads : pc[t] = "idle" <=> key[t] = None
    /\ loaded \in [Threads -> [stamp : 0 .. MaxClock, value : 0 .. MaxEdits] \cup {None}]
    /\ \A t \in Threads : pc[t] = "put" <=> loaded[t] # None
    /\ changed \in [Profiles -> [0 .. MaxEdits -> -1 .. MaxClock]]
    /\ cleared \in [Profiles -> 0 .. MaxEdits]
    /\ inflight \subseteq Profiles

(* A profile that was read: a version there has been by now, and no older  *)
(* than the last clear() unless the load was under way then.               *)
WasRead(k, e) ==
    /\ e.value <= version[k]
    /\ e.stamp <= now
    /\ k \notin inflight => cleared[k] <= e.value

(* Since when the version of e is no longer the file's, or -1. *)
Gone(k, e) == changed[k][e.value]

(* An entry was stored at most a slow load after its version went. *)
Stored(k, e) == WasRead(k, e) /\ (Gone(k, e) # -1 => e.stamp <= Gone(k, e) + MaxLoad)

(* A load under way is not too slow, and its version was the file's when   *)
(* it was read.                                                            *)
Carried(k, e) ==
    /\ WasRead(k, e)
    /\ now <= e.stamp + MaxLoad
    /\ Gone(k, e) # -1 => e.stamp <= Gone(k, e)

Dated(k) ==
    /\ cleared[k] <= version[k]
    /\ \A v \in 0 .. MaxEdits : changed[k][v] <= now /\ (changed[k][v] # -1 <=> v < version[k])

AgeInv ==
    /\ \A k \in Profiles : Dated(k) /\ (cache[k] # None => Stored(k, cache[k]))
    /\ \A t \in Threads : loaded[t] # None => Carried(key[t], loaded[t])

LEMMA LoaderCardinality == ASSUME NEW S PROVE Loader!Cardinality(S) = Cardinality(S)
BY DEF Loader!Cardinality, Cardinality

LEMMA LoaderTypesIs ==
    Loader!TypeOK <=> LoaderTypes /\ Cardinality(Loader!Entries) <= MaxSize
BY LoaderCardinality DEF Loader!TypeOK, LoaderTypes, Loader!Versions, Loader!Entry

LEMMA LoaderTypesIsNext ==
    Loader!TypeOK' <=> LoaderTypes' /\ Cardinality(Loader!Entries') <= MaxSize
BY LoaderCardinality DEF Loader!TypeOK, LoaderTypes, Loader!Versions, Loader!Entry

(* The numbers in all this, for the steps that compare them. *)
Numbers ==
    /\ now \in Int
    /\ \A k \in Profiles : version[k] \in 0 .. MaxEdits /\ cleared[k] \in Int
    /\ \A k \in Profiles : \A v \in 0 .. MaxEdits : changed[k][v] \in Int /\ changed[k][v] >= -1
    /\ \A k \in Profiles : cache[k] # None =>
         cache[k].value \in 0 .. MaxEdits /\ cache[k].stamp \in Int
    /\ \A t \in Threads : loaded[t] # None =>
         key[t] \in Profiles /\ loaded[t].value \in 0 .. MaxEdits /\ loaded[t].stamp \in Int

LEMMA TypesGiveNumbers ==
    ASSUME LoaderAssumption, LoaderTypes
    PROVE  Numbers
<1>1. \A t \in Threads : loaded[t] # None => key[t] \in Profiles
      BY DEF LoaderTypes
<1>2. now \in Int /\ \A k \in Profiles : version[k] \in 0 .. MaxEdits /\ cleared[k] \in Int
      BY DEF LoaderTypes
<1>3. \A k \in Profiles : \A v \in 0 .. MaxEdits : changed[k][v] \in Int /\ changed[k][v] >= -1
  <2>1. ASSUME NEW k \in Profiles, NEW v \in 0 .. MaxEdits
        PROVE  changed[k][v] \in -1 .. MaxClock
        BY DEF LoaderTypes
  <2> QED BY <2>1, EngineAssumption DEF LoaderAssumption
<1>4. \A k \in Profiles : cache[k] # None =>
        cache[k].value \in 0 .. MaxEdits /\ cache[k].stamp \in Int
      BY DEF LoaderTypes
<1>5. \A t \in Threads : loaded[t] # None =>
        loaded[t].value \in 0 .. MaxEdits /\ loaded[t].stamp \in Int
      BY DEF LoaderTypes
<1> QED BY <1>1, <1>2, <1>3, <1>4, <1>5 DEF Numbers

(* What a step of a call may do to the profiles that were read. *)
Passes ==
    /\ \A k \in Profiles : cache'[k] # None =>
         \/ cache'[k] = cache[k]
         \/ \E t \in Threads :
              /\ loaded[t] # None /\ key[t] = k
              /\ cache'[k] = [stamp |-> now, value |-> loaded[t].value]
    /\ \A t \in Threads : loaded'[t] # None =>
         /\ key'[t] = key[t]
         /\ \/ loaded'[t] = loaded[t]
            \/ /\ key[t] \in Profiles
               /\ loaded'[t] = [stamp |-> now, value |-> version[key[t]]]

LEMMA PassingKeepsAge ==
    ASSUME LoaderAssumption, LoaderTypes, AgeInv, Passes,
           UNCHANGED <<now, version, changed, cleared, inflight>>
    PROVE  AgeInv'
<1>1. Numbers /\ MaxLoad \in Nat
      BY TypesGiveNumbers DEF LoaderAssumption
<1>2. \A k \in Profiles : Dated(k)'
      BY DEF AgeInv, Dated
<1>3. ASSUME NEW k \in Profiles, cache'[k] # None
      PROVE  Stored(k, cache[k])'
  <2>1. CASE cache'[k] = cache[k]
    <3>1. Stored(k, cache[k])
          BY <1>3, <2>1 DEF AgeInv
    <3> QED BY <2>1, <3>1 DEF Stored, WasRead, Gone
  <2>2. CASE \E t \in Threads :
               /\ loaded[t] # None /\ key[t] = k
               /\ cache'[k] = [stamp |-> now, value |-> loaded[t].value]
    <3>1. PICK t \in Threads :
               /\ loaded[t] # None /\ key[t] = k
               /\ cache'[k] = [stamp |-> now, value |-> loaded[t].value]
          BY <2>2
    <3>2. Carried(k, loaded[t])
          BY <3>1 DEF AgeInv
    <3>3. cache'[k].stamp = now /\ cache'[k].value = loaded[t].value
          BY <3>1
    <3>4. loaded[t].value \in 0 .. MaxEdits /\ loaded[t].stamp \in Int
          BY <1>1, <3>1 DEF Numbers
    <3>5. changed[k][loaded[t].value] \in Int
          BY <1>1, <3>4 DEF Numbers
    <3>6. Gone(k, loaded[t]) # -1 => now <= Gone(k, loaded[t]) + MaxLoad
          BY <1>1, <3>2, <3>4, <3>5 DEF Carried, Gone, Numbers
    <3> QED BY <1>1, <3>2, <3>3, <3>6 DEF Carried, Stored, WasRead, Gone, Numbers
  <2> QED BY <1>3, <2>1, <2>2 DEF Passes
<1>4. ASSUME NEW t \in Threads, loaded'[t] # None
      PROVE  Carried(key[t], loaded[t])'
  <2>1. key'[t] = key[t]
        BY <1>4 DEF Passes
  <2>2. CASE loaded'[t] = loaded[t]
    <3>1. Carried(key[t], loaded[t])
          BY <1>4, <2>2 DEF AgeInv
    <3> QED BY <2>1, <2>2, <3>1 DEF Carried, WasRead, Gone
  <2>3. CASE /\ key[t] \in Profiles
             /\ loaded'[t] = [stamp |-> now, value |-> version[key[t]]]
    <3>1. Dated(key[t]) /\ version[key[t]] \in 0 .. MaxEdits /\ now \in Int
          BY <1>1, <2>3 DEF AgeInv, Numbers
    <3>2. changed[key[t]][version[key[t]]] = -1
          BY <3>1 DEF Dated
    <3>3. loaded'[t].stamp = now /\ loaded'[t].value = version[key[t]]
          BY <2>3
    <3> QED BY <1>1, <2>1, <3>1, <3>2, <3>3 DEF Carried, WasRead, Gone, Dated
  <2> QED BY <1>4, <2>2, <2>3 DEF Passes
<1> QED BY <1>2, <1>3, <1>4 DEF AgeInv

(* A set of numbers that is not empty has a least element. *)
LEMMA Least ==
    ASSUME NEW T, T \subseteq Nat, T # {}
    PROVE  \E n \in T : \A m \in T : n <= m
<1> DEFINE R == OpToRel(<, Nat)
<1>1. IsWellFoundedOn(R, Nat)
      BY NatLessThanWellFounded
<1>2. \A x, y \in Nat : x < y => <<x, y>> \in R
      BY DEF OpToRel
<1> HIDE DEF R
<1>3. PICK x \in T : \A y \in T : ~ (<<y, x>> \in R)
      BY <1>1, WFMin
<1>4. \A y \in T : ~ (y < x)
      BY <1>2, <1>3
<1>5. \A y \in T : y \in Nat /\ x \in Nat
      OBVIOUS
<1>6. \A y \in T : x <= y
      BY <1>4, <1>5
<1> QED BY <1>6

(* put() finds an oldest entry to evict whenever the cache is full. *)
LEMMA RoomIsMade ==
    ASSUME LoaderAssumption, LoaderTypes, NEW k \in Profiles, cache[k] = None,
           ~(Cardinality(Loader!Entries) < MaxSize)
    PROVE  Loader!MakeRoom(k) # {}
<1> DEFINE S == Loader!Entries
<1> DEFINE stamps == {cache[j].stamp : j \in S}
<1>1. IsFiniteSet(S) /\ \A j \in S : j \in Profiles /\ cache[j] # None
  <2>1. S \in SUBSET Profiles /\ \A j \in S : cache[j] # None
        BY DEF Loader!Entries
  <2> QED BY <2>1, EngineAssumption, FS_Subset
<1>2. MaxSize \in Nat \ {0} /\ Cardinality(S) \in Nat
      BY <1>1, EngineAssumption, FS_CardinalityType
<1>3. Cardinality(S) >= MaxSize /\ S # {}
  <2>1. Cardinality(S) >= MaxSize /\ Cardinality(S) # 0
        BY <1>2
  <2> QED BY <2>1, FS_EmptySet
<1>4. \A j \in S : cache[j].stamp \in Nat
      BY <1>1 DEF LoaderTypes
<1>5. stamps \subseteq Nat /\ stamps # {}
      BY <1>3, <1>4
<1>6. PICK n \in stamps : \A m \in stamps : n <= m
      BY <1>5, Least
<1>7. PICK j \in S : cache[j].stamp = n
      BY <1>6
<1>8. \A i \in S : cache[j].stamp <= cache[i].stamp
      BY <1>6, <1>7
<1>9. j \in Loader!MakeRoom(k)
      BY <1>3, <1>7, <1>8, LoaderCardinality DEF Loader!MakeRoom
<1> QED BY <1>9

(* A step of a call keeps the types, and does what Passes says. *)
LEMMA LoaderPasses ==
    ASSUME LoaderAssumption, LoaderTypes, Cardinality(Loader!Entries) <= MaxSize,
           NEW t \in Threads,
           \/ \E p \in Profiles : Loader!Call(t, p)
           \/ Loader!Get(t)
           \/ Loader!Recheck(t)
           \/ Loader!Load(t)
           \/ Loader!LoadRaises(t)
           \/ Loader!Put(t)
    PROVE  /\ LoaderTypes' /\ Passes
           /\ Cardinality(Loader!Entries') <= MaxSize
           /\ UNCHANGED <<now, version, changed, cleared, inflight>>
<1> DEFINE Slot == [stamp : 0 .. MaxClock, value : 0 .. MaxEdits]
<1>1. /\ IsFiniteSet(Loader!Entries)
      /\ Loader!Entries = {k \in Profiles : cache[k] # None}
      /\ Loader!Entries' = {k \in Profiles : cache'[k] # None}
  <2>1. Loader!Entries \in SUBSET Profiles
        BY DEF Loader!Entries
  <2> QED BY <2>1, EngineAssumption, FS_Subset DEF Loader!Entries
<1>2. ASSUME \A k \in Profiles : cache'[k] # None => cache'[k] = cache[k]
      PROVE  Cardinality(Loader!Entries') <= MaxSize
  <2>1. Loader!Entries' \subseteq Loader!Entries
        BY <1>1, <1>2
  <2> QED BY <1>1, <2>1, EntriesBounded
<1>3. None \notin Profiles /\ None \notin Slot
      BY DEF LoaderAssumption
<1>4. pc[t] # "idle" => key[t] \in Profiles
      BY DEF LoaderTypes
<1>5. ASSUME NEW p \in Profiles, Loader!Call(t, p)
      PROVE  LoaderTypes' /\ Passes /\ cache' = cache /\ UNCHANGED <<now, version, changed, cleared, inflight>>
  <2>1. /\ pc[t] = "idle" /\ key[t] = None
        /\ pc' = [pc EXCEPT ![t] = "get"] /\ key' = [key EXCEPT ![t] = p]
        /\ UNCHANGED <<cache, loaded, cleared, inflight, now, version, changed>>
        BY <1>5 DEF Loader!Call, Loader!env, LoaderTypes
  <2>2. /\ pc'[t] = "get" /\ key'[t] = p /\ loaded[t] = None
        /\ \A u \in Threads \ {t} : pc'[u] = pc[u] /\ key'[u] = key[u]
        BY <2>1 DEF LoaderTypes
  <2>3. LoaderTypes'
        BY <1>3, <2>1, <2>2 DEF LoaderTypes
  <2>4. Passes
        BY <2>1, <2>2 DEF Passes
  <2> QED BY <2>1, <2>3, <2>4
<1>6. ASSUME pc[t] # "idle", Loader!Return(t),
             UNCHANGED <<cleared, inflight, now, version, changed>>,
             cache' \in [Profiles -> Slot \cup {None}]
      PROVE  /\ LoaderTypes'
             /\ \A u \in Threads : loaded'[u] # None => key'[u] = key[u] /\ loaded'[u] = loaded[u]
  <2>1. /\ pc' = [pc EXCEPT ![t] = "idle"] /\ key' = [key EXCEPT ![t] = None]
        /\ loaded' = [loaded EXCEPT ![t] = None]
        BY <1>6 DEF Loader!Return
  <2>2. /\ pc'[t] = "idle" /\ key'[t] = None /\ loaded'[t] = None
        /\ \A u \in Threads \ {t} :
             pc'[u] = pc[u] /\ key'[u] = key[u] /\ loaded'[u] = loaded[u]
        BY <2>1 DEF LoaderTypes
  <2>3. LoaderTypes'
        BY <1>3, <1>6, <2>1, <2>2 DEF LoaderTypes
  <2> QED BY <2>2, <2>3
<1>7. ASSUME NEW step \in {"recheck", "load"}, pc[t] \in {"get", "recheck"}, Loader!GoTo(t, step),
             UNCHANGED <<cleared, inflight, now, version, changed>>,
             cache' \in [Profiles -> Slot \cup {None}]
      PROVE  /\ LoaderTypes'
             /\ \A u \in Threads : loaded'[u] # None => key'[u] = key[u] /\ loaded'[u] = loaded[u]
  <2>1. pc' = [pc EXCEPT ![t] = step] /\ UNCHANGED <<key, loaded>>
        BY <1>7 DEF Loader!GoTo
  <2>2. pc'[t] = step /\ \A u \in Threads \ {t} : pc'[u] = pc[u]
        BY <2>1 DEF LoaderTypes
  <2>3. LoaderTypes'
        BY <1>3, <1>7, <2>1, <2>2 DEF LoaderTypes
  <2> QED BY <2>1, <2>3
<1>8. ASSUME Loader!Get(t) \/ Loader!Recheck(t)
      PROVE  /\ LoaderTypes' /\ Passes
             /\ \A k \in Profiles : cache'[k] # None => cache'[k] = cache[k]
             /\ UNCHANGED <<now, version, changed, cleared, inflight>>
  <2>1. /\ pc[t] \in {"get", "recheck"}
        /\ Loader!Return(t) \/ \E step \in {"recheck", "load"} : Loader!GoTo(t, step)
        /\ UNCHANGED <<cleared, inflight, now, version, changed>>
        /\ cache' = cache \/ cache' = [cache EXCEPT ![key[t]] = None]
        BY <1>8 DEF Loader!Get, Loader!Recheck, Loader!env
  <2>2. /\ cache' \in [Profiles -> Slot \cup {None}]
        /\ \A k \in Profiles : cache'[k] # None => cache'[k] = cache[k]
        BY <2>1 DEF LoaderTypes
  <2>3. /\ LoaderTypes'
        /\ \A u \in Threads : loaded'[u] # None => key'[u] = key[u] /\ loaded'[u] = loaded[u]
    <3>1. CASE Loader!Return(t)
          BY <1>6, <2>1, <2>2, <3>1
    <3>2. CASE \E step \in {"recheck", "load"} : Loader!GoTo(t, step)
          BY <1>7, <2>1, <2>2, <3>2
    <3> QED BY <2>1, <3>1, <3>2
  <2> QED BY <2>1, <2>2, <2>3 DEF Passes
<1>9. ASSUME Loader!Load(t)
      PROVE  LoaderTypes' /\ Passes /\ cache' = cache /\ UNCHANGED <<now, version, changed, cleared, inflight>>
  <2> DEFINE e == [stamp |-> now, value |-> version[key[t]]]
  <2>1. /\ pc[t] = "load"
        /\ loaded' = [loaded EXCEPT ![t] = e] /\ pc' = [pc EXCEPT ![t] = "put"]
        /\ UNCHANGED <<cache, key, cleared, inflight, now, version, changed>>
        BY <1>9 DEF Loader!Load, Loader!env
  <2>2. e \in Slot
        BY <1>4, <2>1 DEF LoaderTypes
  <2>3. /\ pc'[t] = "put" /\ loaded'[t] = e
        /\ \A u \in Threads \ {t} : pc'[u] = pc[u] /\ loaded'[u] = loaded[u]
        BY <2>1 DEF LoaderTypes
  <2>4. \A u \in Threads : loaded'[u] # None =>
          /\ key'[u] = key[u]
          /\ \/ loaded'[u] = loaded[u]
             \/ key[u] \in Profiles /\ loaded'[u] = [stamp |-> now, value |-> version[key[u]]]
        BY <1>4, <2>1, <2>3
  <2> HIDE DEF e
  <2>5. loaded' \in [Threads -> Slot \cup {None}]
        BY <2>1, <2>2 DEF LoaderTypes
  <2>6. LoaderTypes'
        BY <1>3, <2>1, <2>2, <2>3, <2>5 DEF LoaderTypes
  <2>7. Passes
        BY <2>1, <2>4 DEF Passes
  <2> QED BY <2>1, <2>6, <2>7
<1>10. ASSUME Loader!LoadRaises(t)
       PROVE  LoaderTypes' /\ Passes /\ cache' = cache /\ UNCHANGED <<now, version, changed, cleared, inflight>>
  <2>1. /\ pc[t] # "idle" /\ Loader!Return(t)
        /\ UNCHANGED <<cache, cleared, inflight, now, version, changed>>
        BY <1>10 DEF Loader!LoadRaises, Loader!env
  <2>2. cache' \in [Profiles -> Slot \cup {None}]
        BY <2>1 DEF LoaderTypes
  <2>3. /\ LoaderTypes'
        /\ \A u \in Threads : loaded'[u] # None => key'[u] = key[u] /\ loaded'[u] = loaded[u]
        BY <1>6, <2>1, <2>2
  <2> QED BY <2>1, <2>3 DEF Passes
<1>11. ASSUME Loader!Put(t)
       PROVE  /\ LoaderTypes' /\ Passes /\ Cardinality(Loader!Entries') <= MaxSize
              /\ UNCHANGED <<now, version, changed, cleared, inflight>>
  <2> DEFINE k == key[t]
  <2> DEFINE e == [stamp |-> now, value |-> loaded[t].value]
  <2>1. /\ pc[t] = "put" /\ Loader!Return(t)
        /\ UNCHANGED <<cleared, inflight, now, version, changed>>
        /\ IF Loader!MakeRoom(k) = {} THEN cache' = [cache EXCEPT ![k] = e]
           ELSE \E j \in Loader!MakeRoom(k) : cache' = [cache EXCEPT ![j] = None, ![k] = e]
        BY <1>11 DEF Loader!Put, Loader!env
  <2>2. /\ k \in Profiles /\ loaded[t] # None /\ loaded[t] \in Slot
        BY <1>4, <2>1 DEF LoaderTypes
  <2>3. e \in Slot
        BY <2>2 DEF LoaderTypes
  <2>4. Loader!MakeRoom(k) # {} => cache[k] = None /\ Loader!MakeRoom(k) \subseteq Loader!Entries
        BY DEF Loader!MakeRoom
  <2>5. Loader!MakeRoom(k) = {} => cache[k] # None \/ Cardinality(Loader!Entries) < MaxSize
        BY <2>2, RoomIsMade
  <2>6. \A i \in Profiles : i = k /\ cache'[i] = e => \E u \in Threads :
          /\ loaded[u] # None /\ key[u] = i
          /\ cache'[i] = [stamp |-> now, value |-> loaded[u].value]
        BY <2>2
  <2> HIDE DEF k, e
  <2>7. /\ cache' \in [Profiles -> Slot \cup {None}]
        /\ cache'[k] = e
        /\ \A i \in Profiles \ {k} : cache'[i] = cache[i] \/ cache'[i] = None
    <3>1. cache \in [Profiles -> Slot \cup {None}]
          BY DEF LoaderTypes
    <3>2. CASE Loader!MakeRoom(k) = {}
      <4>1. cache' = [cache EXCEPT ![k] = e]
            BY <2>1, <3>2
      <4> QED BY <2>2, <2>3, <3>1, <4>1
    <3>3. CASE Loader!MakeRoom(k) # {}
      <4>1. PICK j \in Loader!MakeRoom(k) : cache' = [cache EXCEPT ![j] = None, ![k] = e]
            BY <2>1, <3>3
      <4>2. j \in Profiles /\ j # k
            BY <1>1, <2>4, <4>1
      <4> QED BY <2>2, <2>3, <3>1, <4>1, <4>2
    <3> QED BY <3>2, <3>3
  <2>8. /\ LoaderTypes'
        /\ \A u \in Threads : loaded'[u] # None => key'[u] = key[u] /\ loaded'[u] = loaded[u]
        BY <1>6, <2>1, <2>7
  <2>9. Passes
        BY <2>6, <2>7, <2>8 DEF Passes
  <2>10. \/ Loader!Entries' \subseteq Loader!Entries
         \/ /\ Loader!Entries' \subseteq Loader!Entries \cup {k}
            /\ Cardinality(Loader!Entries) < MaxSize
         \/ \E j \in Loader!Entries : Loader!Entries' \subseteq (Loader!Entries \ {j}) \cup {k}
    <3>1. \A i \in Profiles \ {k} : cache'[i] # None => cache[i] # None
          BY <2>7
    <3>2. CASE cache[k] # None
          BY <1>1, <3>1, <3>2
    <3>3. CASE cache[k] = None /\ Loader!MakeRoom(k) = {}
          BY <1>1, <2>5, <3>1, <3>3
    <3>4. CASE Loader!MakeRoom(k) # {}
      <4>1. PICK j \in Loader!MakeRoom(k) : cache' = [cache EXCEPT ![j] = None, ![k] = e]
            BY <2>1, <3>4
      <4>2. j \in Loader!Entries /\ j # k
            BY <1>1, <2>4, <4>1
      <4>3. cache'[j] = None
            BY <1>1, <4>1, <4>2 DEF LoaderTypes
      <4> QED BY <1>1, <3>1, <4>2, <4>3
    <3> QED BY <3>2, <3>3, <3>4
  <2>11. Cardinality(Loader!Entries') <= MaxSize
        BY <1>1, <2>10, EntriesBounded
  <2> QED BY <2>1, <2>8, <2>9, <2>11
<1> QED BY <1>2, <1>5, <1>8, <1>9, <1>10, <1>11

(* Every step of the loader, and of the time and the files around it.      *)
LoaderInv == LoaderTypes /\ AgeInv /\ Cardinality(Loader!Entries) <= MaxSize

LEMMA LoaderInvHolds == LoaderAssumption => (Loader!Spec => []LoaderInv)
<1> SUFFICES ASSUME LoaderAssumption PROVE Loader!Spec => []LoaderInv
    OBVIOUS
<1>a. /\ LoaderTTL \in Nat /\ MaxLoad \in Nat /\ MaxClock \in Nat
      /\ None \notin Profiles
      /\ None \notin [stamp : 0 .. MaxClock, value : 0 .. MaxEdits]
      BY DEF LoaderAssumption
<1>b. MaxEdits \in Nat /\ MaxSize \in Nat \ {0}
      BY EngineAssumption
<1>1. ASSUME Loader!Init PROVE LoaderInv
  <2>1. LoaderTypes
    <3>1. 0 \in 0 .. MaxClock /\ 0 \in 0 .. MaxEdits /\ -1 \in -1 .. MaxClock
          BY <1>a, <1>b
    <3> QED BY <1>1, <3>1, <1>a DEF Loader!Init, LoaderTypes, Loader!Versions
  <2>2. Loader!Entries = {}
        BY <1>1 DEF Loader!Init, Loader!Entries
  <2>3. Cardinality(Loader!Entries) <= MaxSize
        BY <1>b, <2>2, FS_EmptySet
  <2>4. AgeInv
    <3>1. ASSUME NEW k \in Profiles PROVE Dated(k) /\ cache[k] = None
      <4>1. /\ cleared[k] = 0 /\ version[k] = 0 /\ now = 0 /\ cache[k] = None
            /\ \A v \in 0 .. MaxEdits : changed[k][v] = -1
            BY <1>1 DEF Loader!Init, Loader!Versions
      <4>2. \A v \in 0 .. MaxEdits : ~(v < 0) /\ -1 <= 0
            BY <1>b
      <4> QED BY <4>1, <4>2 DEF Dated
    <3>2. \A t \in Threads : loaded[t] = None
          BY <1>1 DEF Loader!Init
    <3> QED BY <3>1, <3>2 DEF AgeInv
  <2> QED BY <2>1, <2>3, <2>4 DEF LoaderInv
<1>2. ASSUME LoaderInv, [Loader!Next]_(Loader!vars) PROVE LoaderInv'
  <2>1. LoaderTypes /\ AgeInv /\ Cardinality(Loader!Entries) <= MaxSize /\ Numbers
        BY <1>2, TypesGiveNumbers DEF LoaderInv
  <2>2. CASE UNCHANGED Loader!vars
    <3>1. UNCHANGED <<cache, now, version, pc, key, loaded, changed, cleared, inflight>>
          BY <2>2 DEF Loader!vars
    <3>2. LoaderTypes' /\ Loader!Entries' = Loader!Entries
          BY <2>1, <3>1 DEF LoaderTypes, Loader!Entries
    <3>3. AgeInv'
          BY <2>1, <3>1 DEF AgeInv, Dated, Stored, Carried, WasRead, Gone
    <3> QED BY <2>1, <3>2, <3>3 DEF LoaderInv
  <2>3. ASSUME NEW t \in Threads,
               \/ \E p \in Profiles : Loader!Call(t, p)
               \/ Loader!Get(t)
               \/ Loader!Recheck(t)
               \/ Loader!Load(t)
               \/ Loader!LoadRaises(t)
               \/ Loader!Put(t)
        PROVE  LoaderInv'
        BY <2>1, <2>3, LoaderPasses, PassingKeepsAge DEF LoaderInv
  <2>4. ASSUME NEW ks \in SUBSET Profiles, Loader!Invalidate(ks) PROVE LoaderInv'
    <3>1. /\ cache' = [k \in Profiles |-> IF k \in ks THEN None ELSE cache[k]]
          /\ UNCHANGED <<pc, key, loaded, cleared, inflight, now, version, changed>>
          BY <2>4 DEF Loader!Invalidate, Loader!env
    <3>2. LoaderTypes'
          BY <2>1, <3>1 DEF LoaderTypes
    <3>3. \A k \in Profiles : cache'[k] # None => cache'[k] = cache[k]
          BY <3>1
    <3>4. AgeInv'
          BY <2>1, <3>1, <3>3, PassingKeepsAge DEF Passes
    <3>5. Cardinality(Loader!Entries') <= MaxSize
      <4>1. Loader!Entries' \subseteq Loader!Entries
            BY <3>3 DEF Loader!Entries
      <4>2. Loader!Entries \in SUBSET Profiles
            BY DEF Loader!Entries
      <4>3. IsFiniteSet(Loader!Entries)
            BY <4>2, EngineAssumption, FS_Subset
      <4> QED BY <2>1, <4>1, <4>3, EntriesBounded
    <3> QED BY <3>2, <3>4, <3>5 DEF LoaderInv
  <2>5. ASSUME Loader!Clear PROVE LoaderInv'
    <3>1. /\ cache' = [k \in Profiles |-> None]
          /\ cleared' = version
          /\ inflight' = {key[t] : t \in {u \in Threads : pc[u] = "put"}}
          /\ UNCHANGED <<pc, key, loaded, now, version, changed>>
          BY <2>5 DEF Loader!Clear, Loader!env
    <3>2. inflight' \subseteq Profiles
      <4>1. \A t \in Threads : pc[t] = "put" => key[t] \in Profiles
            BY <2>1 DEF LoaderTypes
      <4> QED BY <3>1, <4>1
    <3>3. LoaderTypes'
          BY <2>1, <3>1, <3>2 DEF LoaderTypes
    <3>4. \A k \in Profiles : cache'[k] = None
          BY <3>1
    <3>5. Cardinality(Loader!Entries') <= MaxSize
      <4>1. Loader!Entries' = {}
            BY <3>4 DEF Loader!Entries
      <4> QED BY <1>b, <4>1, FS_EmptySet
    <3>6. \A k \in Profiles : Dated(k)'
      <4>1. \A k \in Profiles : version[k] <= version[k]
            BY <2>1 DEF Numbers
      <4> QED BY <2>1, <3>1, <4>1 DEF AgeInv, Dated
    <3>7. ASSUME NEW t \in Threads, loaded'[t] # None
          PROVE  Carried(key[t], loaded[t])'
      <4>1. Carried(key[t], loaded[t]) /\ key[t] \in inflight'
            BY <2>1, <3>1, <3>7 DEF AgeInv, LoaderTypes
      <4> QED BY <3>1, <4>1 DEF Carried, WasRead, Gone
    <3> QED BY <3>3, <3>4, <3>5, <3>6, <3>7 DEF LoaderInv, AgeInv
  <2>6. ASSUME NEW p \in Profiles, Loader!Edit(p) PROVE LoaderInv'
    <3>1. /\ version' = [version EXCEPT ![p] = @ + 1]
          /\ changed' = [changed EXCEPT ![p][version[p]] = now]
          /\ UNCHANGED <<cache, now, pc, key, loaded, cleared, inflight>>
          BY <2>6 DEF Loader!Edit
    <3>2. version[p] < MaxEdits
      <4>1. Cardinality({e \in Profiles \X (0 .. MaxEdits) : changed[e[1]][e[2]] # -1}) < MaxEdits
            BY <2>6, LoaderCardinality DEF Loader!Edit, Loader!Versions
      <4>2. /\ version[p] \in 0 .. MaxEdits
            /\ \A v \in 0 .. MaxEdits : v < version[p] => changed[p][v] # -1
            BY <2>1 DEF AgeInv, Dated, Numbers
      <4> QED BY <4>1, <4>2, EditsLeft
    <3>3. /\ version \in [Profiles -> 0 .. MaxEdits] /\ now \in 0 .. MaxClock
          /\ changed \in [Profiles -> [0 .. MaxEdits -> -1 .. MaxClock]]
          BY <2>1 DEF LoaderTypes
    <3>4. /\ version' \in [Profiles -> 0 .. MaxEdits]
          /\ version'[p] = version[p] + 1
          /\ \A k \in Profiles \ {p} : version'[k] = version[k]
          BY <1>b, <3>1, <3>2, <3>3
    <3>5. /\ changed' \in [Profiles -> [0 .. MaxEdits -> -1 .. MaxClock]]
          /\ \A k \in Profiles \ {p} : changed'[k] = changed[k]
          /\ changed'[p][version[p]] = now
          /\ \A v \in (0 .. MaxEdits) \ {version[p]} : changed'[p][v] = changed[p][v]
      <4>1. now \in -1 .. MaxClock
            BY <1>a, <3>3
      <4> QED BY <3>1, <3>3, <4>1
    <3>6. LoaderTypes' /\ Loader!Entries' = Loader!Entries
          BY <2>1, <3>1, <3>4, <3>5 DEF LoaderTypes, Loader!Entries
    <3>7. ASSUME NEW k \in Profiles PROVE Dated(k)'
      <4>1. Dated(k) /\ version[k] \in 0 .. MaxEdits /\ cleared[k] \in Int /\ now \in Nat
            BY <2>1, <3>3 DEF AgeInv, Numbers
      <4>2. CASE k = p
        <5>1. \A v \in 0 .. MaxEdits : changed'[p][v] <= now
              BY <3>5, <4>1, <4>2 DEF Dated
        <5>2. \A v \in 0 .. MaxEdits : changed'[p][v] # -1 <=> v < version'[p]
          <6> SUFFICES ASSUME NEW v \in 0 .. MaxEdits
                       PROVE  changed'[p][v] # -1 <=> v < version'[p]
              OBVIOUS
          <6>1. CASE v = version[p]
                BY <3>4, <3>5, <4>1, <4>2, <6>1
          <6>2. CASE v # version[p]
            <7>1. changed'[p][v] # -1 <=> v < version[p]
                  BY <3>5, <4>1, <4>2, <6>2 DEF Dated
            <7> QED BY <3>4, <4>1, <4>2, <6>2, <7>1
          <6> QED BY <6>1, <6>2
        <5> QED BY <3>1, <3>4, <4>1, <4>2, <5>1, <5>2 DEF Dated
      <4>3. CASE k # p
            BY <3>1, <3>4, <3>5, <4>1, <4>3 DEF Dated
      <4> QED BY <4>2, <4>3
    <3>8. ASSUME NEW k \in Profiles, NEW v \in 0 .. MaxEdits
          PROVE  /\ version[k] <= version'[k]
                 /\ changed'[k][v] = changed[k][v] \/ changed'[k][v] = now
      <4>1. version[k] \in Int
            BY <2>1 DEF Numbers
      <4>2. CASE k = p
        <5>1. version'[k] = version[k] + 1
              BY <3>4, <4>2
        <5>2. changed'[k][v] = changed[k][v] \/ changed'[k][v] = now
          <6>1. CASE v = version[p]
                BY <3>5, <4>2, <6>1
          <6>2. CASE v # version[p]
                BY <3>5, <4>2, <6>2
          <6> QED BY <6>1, <6>2
        <5> QED BY <4>1, <5>1, <5>2
      <4>3. CASE k # p
            BY <3>4, <3>5, <4>1, <4>3
      <4> QED BY <4>2, <4>3
    <3>9. ASSUME NEW k \in Profiles, cache'[k] # None PROVE Stored(k, cache[k])'
      <4>1. Stored(k, cache[k]) /\ cache[k].value \in 0 .. MaxEdits
            BY <2>1, <3>1, <3>9 DEF AgeInv, Numbers
      <4>2. WasRead(k, cache[k])'
            BY <2>1, <3>1, <3>4, <3>8, <3>9, <4>1 DEF Stored, WasRead, Numbers
      <4>3. cache[k].stamp \in Int /\ now \in Int /\ cache[k].stamp <= now
            BY <2>1, <3>1, <3>9, <4>1 DEF Stored, WasRead, Numbers
      <4> QED BY <1>a, <3>1, <3>8, <4>1, <4>2, <4>3 DEF Stored, Gone
    <3>10. ASSUME NEW t \in Threads, loaded'[t] # None PROVE Carried(key[t], loaded[t])'
      <4>1. /\ Carried(key[t], loaded[t])
            /\ key[t] \in Profiles /\ loaded[t].value \in 0 .. MaxEdits
            BY <2>1, <3>1, <3>10 DEF AgeInv, Numbers
      <4>2. WasRead(key[t], loaded[t])'
            BY <2>1, <3>1, <3>4, <3>8, <3>10, <4>1 DEF Carried, WasRead, Numbers
      <4> QED BY <3>1, <3>8, <4>1, <4>2 DEF Carried, WasRead, Gone
    <3> QED BY <2>1, <3>6, <3>7, <3>9, <3>10 DEF LoaderInv, AgeInv
  <2>7. ASSUME Loader!Tick PROVE LoaderInv'
    <3>1. /\ now < MaxClock /\ now' = now + 1
          /\ \A t \in Threads : pc[t] = "put" => now - loaded[t].stamp < MaxLoad
          /\ UNCHANGED <<cache, version, pc, key, loaded, changed, cleared, inflight>>
          BY <2>7 DEF Loader!Tick
    <3>2. now' \in 0 .. MaxClock
      <4>1. now \in 0 .. MaxClock
            BY <2>1 DEF LoaderTypes
      <4> QED BY <1>a, <3>1, <4>1
    <3>3. LoaderTypes' /\ Loader!Entries' = Loader!Entries
          BY <2>1, <3>1, <3>2 DEF LoaderTypes, Loader!Entries
    <3>4. now \in Int /\ now <= now' /\ now' \in Int
          BY <2>1, <3>1 DEF Numbers
    <3>5. ASSUME NEW k \in Profiles PROVE Dated(k)'
      <4>1. Dated(k) /\ \A v \in 0 .. MaxEdits : changed[k][v] \in Int
            BY <2>1 DEF AgeInv, Numbers
      <4> QED BY <3>1, <3>4, <4>1 DEF Dated
    <3>6. ASSUME NEW k \in Profiles, cache'[k] # None PROVE Stored(k, cache[k])'
      <4>1. Stored(k, cache[k]) /\ cache[k].stamp \in Int
            BY <2>1, <3>1, <3>6 DEF AgeInv, Numbers
      <4> QED BY <3>1, <3>4, <4>1 DEF Stored, WasRead, Gone
    <3>7. ASSUME NEW t \in Threads, loaded'[t] # None PROVE Carried(key[t], loaded[t])'
      <4>1. /\ Carried(key[t], loaded[t]) /\ loaded[t].stamp \in Int
            /\ pc[t] = "put"
            BY <2>1, <3>1, <3>7 DEF AgeInv, Numbers, LoaderTypes
      <4>2. now' <= loaded[t].stamp + MaxLoad
        <5>1. now - loaded[t].stamp < MaxLoad
              BY <3>1, <4>1
        <5> QED BY <1>a, <3>1, <3>4, <4>1, <5>1
      <4> QED BY <3>1, <3>4, <4>1, <4>2 DEF Carried, WasRead, Gone
    <3> QED BY <2>1, <3>3, <3>5, <3>6, <3>7 DEF LoaderInv, AgeInv
  <2> QED BY <1>2, <2>2, <2>3, <2>4, <2>5, <2>6, <2>7 DEF Loader!Next
<1> QED BY <1>1, <1>2, PTL DEF Loader!Spec

(* TypeOK of TTLCache: in particular the cache never holds more than       *)
(* MaxSize entries, whichever calls store at once (cache.py:118-130).      *)
THEOREM LoaderTypeCorrect == LoaderAssumption => (Loader!Spec => []Loader!TypeOK)
<1>1. LoaderInv => Loader!TypeOK
      BY LoaderTypesIs DEF LoaderInv
<1> QED BY <1>1, LoaderInvHolds, PTL

(* What a call returns: a profile it has loaded itself, or an entry that   *)
(* has not expired.                                                        *)
LEMMA LoaderAnswers ==
    ASSUME LoaderAssumption, LoaderInv, [Loader!Next]_(Loader!vars),
           NEW t \in Threads, Loader!Returns(t)
    PROVE  /\ key[t] \in Profiles
           /\ \/ /\ loaded[t] # None
                 /\ Loader!Answer(t) = loaded[t].value
              \/ /\ cache[key[t]] # None
                 /\ now - cache[key[t]].stamp <= LoaderTTL
                 /\ Loader!Answer(t) = cache[key[t]].value
<1>1. LoaderTypes /\ Numbers /\ key[t] \in Profiles
      BY TypesGiveNumbers DEF LoaderInv, LoaderTypes, Loader!Returns
<1>2. CASE pc[t] = "put"
      BY <1>1, <1>2 DEF Loader!Answer, LoaderTypes
<1>3. CASE pc[t] \in {"get", "recheck"} /\ pc'[t] = "idle"
  <2>1. Loader!Get(t) \/ Loader!Recheck(t)
    <3>1. CASE UNCHANGED Loader!vars
          BY <1>3, <3>1 DEF Loader!vars
    <3>2. ASSUME NEW u \in Threads,
                 \/ \E p \in Profiles : Loader!Call(u, p)
                 \/ Loader!Get(u)
                 \/ Loader!Recheck(u)
                 \/ Loader!Load(u)
                 \/ Loader!LoadRaises(u)
                 \/ Loader!Put(u)
          PROVE  Loader!Get(t) \/ Loader!Recheck(t)
      <4>1. CASE u = t
            BY <1>3, <3>2, <4>1 DEF Loader!Call, Loader!Load, Loader!LoadRaises, Loader!Put
      <4>2. CASE u # t
        <5>1. \E step \in {"idle", "get", "recheck", "load", "put"} : pc' = [pc EXCEPT ![u] = step]
              BY <3>2 DEF Loader!Call, Loader!Get, Loader!Recheck, Loader!Load,
                          Loader!LoadRaises, Loader!Put, Loader!Return, Loader!GoTo
        <5>2. pc'[t] = pc[t]
              BY <1>1, <4>2, <5>1 DEF LoaderTypes
        <5> QED BY <1>3, <5>2
      <4> QED BY <4>1, <4>2
    <3>3. CASE \/ \E ks \in SUBSET Profiles : Loader!Invalidate(ks)
               \/ Loader!Clear
               \/ \E k \in Profiles : Loader!Edit(k)
               \/ Loader!Tick
          BY <1>3, <3>3 DEF Loader!Invalidate, Loader!Clear, Loader!Edit, Loader!Tick
    <3> QED BY <3>1, <3>2, <3>3 DEF Loader!Next
  <2>2. cache[key[t]] # None /\ ~Loader!Expired(cache[key[t]])
    <3>1. \A step \in {"recheck", "load"} : ~Loader!GoTo(t, step)
      <4>1. ASSUME NEW step \in {"recheck", "load"}, Loader!GoTo(t, step) PROVE FALSE
        <5>1. pc' = [pc EXCEPT ![t] = step]
              BY <4>1 DEF Loader!GoTo
        <5>2. pc'[t] = step
              BY <1>1, <5>1 DEF LoaderTypes
        <5> QED BY <1>3, <5>2
      <4> QED BY <4>1
    <3> QED BY <2>1, <3>1 DEF Loader!Get, Loader!Recheck
  <2>3. cache[key[t]].stamp \in Int /\ now \in Int /\ LoaderTTL \in Int
        BY <1>1, <2>2 DEF Numbers, LoaderAssumption
  <2>4. now - cache[key[t]].stamp <= LoaderTTL
        BY <2>2, <2>3 DEF Loader!Expired
  <2> QED BY <1>1, <1>3, <2>2, <2>4 DEF Loader!Answer
<1> QED BY <1>2, <1>3 DEF Loader!Returns

(* StalenessBound of TTLCache: no call returns a profile that was edited   *)
(* more than a time to live and a slow load ago, for every number of       *)
(* threads, files, edits and clears.                                       *)
THEOREM LoaderStalenessBound == LoaderAssumption => (Loader!Spec => Loader!StalenessBound)
<1> SUFFICES ASSUME LoaderAssumption PROVE Loader!Spec => Loader!StalenessBound
    OBVIOUS
<1>1. ASSUME LoaderInv, [Loader!Next]_(Loader!vars)
      PROVE  [\A t \in Threads : Loader!Returns(t) =>
               LET gone == changed[key[t]][Loader!Answer(t)]
               IN  gone = -1 \/ now - gone <= LoaderTTL + MaxLoad]_(Loader!vars)
  <2> SUFFICES ASSUME NEW t \in Threads, Loader!Returns(t)
               PROVE  \/ changed[key[t]][Loader!Answer(t)] = -1
                      \/ now - changed[key[t]][Loader!Answer(t)] <= LoaderTTL + MaxLoad
      OBVIOUS
  <2>1. /\ LoaderTypes /\ AgeInv /\ Numbers
        /\ LoaderTTL \in Nat /\ MaxLoad \in Nat
        BY <1>1, TypesGiveNumbers DEF LoaderInv, LoaderAssumption
  <2>2. key[t] \in Profiles
        BY <1>1, LoaderAnswers
  <2>3. CASE loaded[t] # None /\ Loader!Answer(t) = loaded[t].value
    <3>1. Carried(key[t], loaded[t]) /\ loaded[t].value \in 0 .. MaxEdits /\ loaded[t].stamp \in Int
          BY <2>1, <2>3 DEF AgeInv, Numbers
    <3>2. changed[key[t]][loaded[t].value] \in Int /\ now \in Int
          BY <2>1, <2>2, <3>1 DEF Numbers
    <3> QED BY <2>1, <2>3, <3>1, <3>2 DEF Carried, Gone
  <2>4. CASE /\ cache[key[t]] # None
             /\ now - cache[key[t]].stamp <= LoaderTTL
             /\ Loader!Answer(t) = cache[key[t]].value
    <3>1. /\ Stored(key[t], cache[key[t]])
          /\ cache[key[t]].value \in 0 .. MaxEdits /\ cache[key[t]].stamp \in Int
          BY <2>1, <2>2, <2>4 DEF AgeInv, Numbers
    <3>2. changed[key[t]][cache[key[t]].value] \in Int /\ now \in Int
          BY <2>1, <2>2, <3>1 DEF Numbers
    <3> QED BY <2>1, <2>4, <3>1, <3>2 DEF Stored, Gone
  <2> QED BY <1>1, <2>3, <2>4, LoaderAnswers
<1> QED BY <1>1, LoaderInvHolds, PTL DEF Loader!Spec, Loader!StalenessBound

(* ClearTakesEffect of TTLCache: after a clear() no call returns what was  *)
(* read before it, except of a key that a load was reading then.           *)
THEOREM LoaderClearTakesEffect == LoaderAssumption => (Loader!Spec => Loader!ClearTakesEffect)
<1> SUFFICES ASSUME LoaderAssumption PROVE Loader!Spec => Loader!ClearTakesEffect
    OBVIOUS
<1>1. ASSUME LoaderInv, [Loader!Next]_(Loader!vars)
      PROVE  [\A t \in Threads :
                Loader!Returns(t) /\ key[t] \notin inflight =>
                  Loader!Answer(t) >= cleared[key[t]]]_(Loader!vars)
  <2> SUFFICES ASSUME NEW t \in Threads, Loader!Returns(t), key[t] \notin inflight
               PROVE  Loader!Answer(t) >= cleared[key[t]]
      OBVIOUS
  <2>1. LoaderTypes /\ AgeInv /\ Numbers
        BY <1>1, TypesGiveNumbers DEF LoaderInv
  <2>2. key[t] \in Profiles /\ cleared[key[t]] \in Int
        BY <1>1, <2>1, LoaderAnswers DEF Numbers
  <2>3. CASE loaded[t] # None /\ Loader!Answer(t) = loaded[t].value
    <3>1. WasRead(key[t], loaded[t]) /\ loaded[t].value \in Int
          BY <2>1, <2>3 DEF AgeInv, Carried, Numbers
    <3> QED BY <2>2, <2>3, <3>1 DEF WasRead
  <2>4. CASE cache[key[t]] # None /\ Loader!Answer(t) = cache[key[t]].value
    <3>1. WasRead(key[t], cache[key[t]]) /\ cache[key[t]].value \in Int
          BY <2>1, <2>2, <2>4 DEF AgeInv, Stored, Numbers
    <3> QED BY <2>2, <2>4, <3>1 DEF WasRead
  <2> QED BY <1>1, <2>3, <2>4, LoaderAnswers
<1> QED BY <1>1, LoaderInvHolds, PTL DEF Loader!Spec, Loader!ClearTakesEffect

=============================================================================
