--------------------------- MODULE WebhooksProofs ---------------------------
(***************************************************************************)
(* Proofs about Webhooks, for every list of webhooks, every number of      *)
(* threads and every length of the report.                                 *)
(*                                                                         *)
(* Which webhooks a loop visits is computed by a function that is defined  *)
(* recursively; that it returns webhooks at all is proved by induction     *)
(* over the list.  The rest is one invariant of the steps: a delivery that *)
(* was begun is waiting in the queue, in the hands of exactly one thread,  *)
(* or recorded, and what is known of it depends on which.                  *)
(***************************************************************************)
EXTENDS Webhooks, SequenceTheorems, WellFoundedInduction, TLAPS

-----------------------------------------------------------------------------
(***************************************************************************)
(* Induction over the natural numbers, for sets of numbers                 *)
(***************************************************************************)

(* A set of numbers that is not empty has a least element. *)
LEMMA Least ==
    ASSUME NEW T, T \subseteq Nat, T # {}
    PROVE  \E n \in T : \A m \in T : n <= m
<1> DEFINE R == OpToRel(<, Nat)
<1>1. IsWellFoundedOn(R, Nat)
      BY NatLessThanWellFounded
<1>2. \A x, y \in Nat : x < y => <<x, y>> \in R
      BY DEF OpToRel
<1> HIDE DEF R
<1>3. PICK x \in T : \A y \in T : ~ (<<y, x>> \in R)
      BY <1>1, WFMin
<1>4. \A y \in T : ~ (y < x)
      BY <1>2, <1>3
<1>5. \A y \in T : y \in Nat /\ x \in Nat
      OBVIOUS
<1>6. \A y \in T : x <= y
      BY <1>4, <1>5
<1> QED BY <1>6

(* A set with 0 and the successors of its numbers holds all the numbers. *)
LEMMA Induct ==
    ASSUME NEW T, 0 \in T, \A n \in Nat : n \in T => n + 1 \in T
    PROVE  Nat \subseteq T
<1> SUFFICES ASSUME Nat \ T # {} PROVE FALSE
    OBVIOUS
<1>1. PICK n \in Nat \ T : \A m \in Nat \ T : n <= m
      BY Least
<1>2. n # 0 /\ n - 1 \in Nat
      OBVIOUS
<1>3. n - 1 \in T
      BY <1>1, <1>2
<1>4. n \in T
      BY <1>2, <1>3
<1> QED BY <1>4

-----------------------------------------------------------------------------
(***************************************************************************)
(* Sequences                                                               *)
(***************************************************************************)

(* What Append adds to the elements of a sequence. *)
LEMMA RangeOfAppend ==
    ASSUME NEW S, NEW s \in Seq(S), NEW e \in S
    PROVE  Range(Append(s, e)) = Range(s) \cup {e}
<1> DEFINE a == Append(s, e)
<1>1. /\ a \in Seq(S) /\ Len(a) = Len(s) + 1
      /\ \A i \in 1 .. Len(s) : a[i] = s[i]
      /\ a[Len(s) + 1] = e
      BY AppendProperties
<1>2. DOMAIN a = 1 .. Len(s) + 1 /\ DOMAIN s = 1 .. Len(s) /\ Len(s) \in Nat
      BY <1>1, LenProperties
<1> HIDE DEF a
<1>3. Range(a) \subseteq Range(s) \cup {e}
      BY <1>1, <1>2 DEF Range
<1>4. \A i \in 1 .. Len(s) : s[i] \in Range(a)
  <2> TAKE i \in 1 .. Len(s)
  <2>1. i \in DOMAIN a /\ a[i] = s[i]
        BY <1>1, <1>2
  <2> QED BY <2>1 DEF Range
<1>5. e \in Range(a)
  <2>1. Len(s) + 1 \in DOMAIN a
        BY <1>2
  <2> QED BY <1>1, <2>1 DEF Range
<1>6. Range(s) \subseteq Range(a)
      BY <1>2, <1>4 DEF Range
<1> QED BY <1>3, <1>5, <1>6 DEF a

(* A sequence without repetitions stays so when a new element is added. *)
LEMMA AppendInjectiveSeq ==
    ASSUME NEW S, NEW s \in Seq(S), NEW e \in S, IsInjective(s), e \notin Range(s)
    PROVE  IsInjective(Append(s, e))
<1> DEFINE a == Append(s, e)
<1>1. /\ a \in Seq(S) /\ Len(a) = Len(s) + 1
      /\ \A i \in 1 .. Len(s) : a[i] = s[i]
      /\ a[Len(s) + 1] = e
      BY AppendProperties
<1>2. DOMAIN a = 1 .. Len(s) + 1 /\ DOMAIN s = 1 .. Len(s) /\ Len(s) \in Nat
      BY <1>1, LenProperties
<1>3. \A i \in 1 .. Len(s) : s[i] # e
      BY <1>2 DEF Range
<1>4. \A i, j \in 1 .. Len(s) : s[i] = s[j] => i = j
      BY <1>2 DEF IsInjective
<1> HIDE DEF a
<1>5. ASSUME NEW i \in 1 .. Len(s) + 1, NEW j \in 1 .. Len(s) + 1, a[i] = a[j]
      PROVE  i = j
      BY <1>1, <1>2, <1>3, <1>4, <1>5
<1>6. IsInjective(a)
      BY <1>2, <1>5 DEF IsInjective
<1> QED BY <1>6 DEF a

(* The elements of a sequence are its head and those of its tail. *)
LEMMA RangeOfTail ==
    ASSUME NEW S, NEW s \in Seq(S), s # <<>>
    PROVE  Range(s) = Range(Tail(s)) \cup {Head(s)}
<1> DEFINE r == Tail(s)
<1>1. /\ r \in Seq(S) /\ Len(r) = Len(s) - 1 /\ Len(s) \in Nat \ {0}
      /\ \A i \in 1 .. Len(r) : r[i] = s[i + 1]
      BY HeadTailProperties, EmptySeq
<1>2. DOMAIN r = 1 .. Len(s) - 1 /\ DOMAIN s = 1 .. Len(s)
      BY <1>1, LenProperties
<1>3. Head(s) = s[1]
      OBVIOUS
<1> HIDE DEF r
<1>4. \A i \in 1 .. Len(s) - 1 : r[i] \in Range(s)
  <2> TAKE i \in 1 .. Len(s) - 1
  <2>1. i + 1 \in DOMAIN s /\ r[i] = s[i + 1]
        BY <1>1, <1>2
  <2> QED BY <2>1 DEF Range
<1>5. Head(s) \in Range(s)
  <2>1. 1 \in DOMAIN s
        BY <1>1, <1>2
  <2> QED BY <1>3, <2>1 DEF Range
<1>6. \A i \in 1 .. Len(s) : s[i] \in Range(r) \cup {Head(s)}
  <2> TAKE i \in 1 .. Len(s)
  <2>1. CASE i = 1
        BY <1>3, <2>1
  <2>2. CASE i # 1
    <3>1. i - 1 \in 1 .. Len(r) /\ (i - 1) + 1 = i
          BY <1>1, <2>2
    <3>2. i - 1 \in DOMAIN r /\ r[i - 1] = s[i]
          BY <1>1, <1>2, <3>1
    <3> QED BY <3>2 DEF Range
  <2> QED BY <2>1, <2>2
<1>7. Range(r) \subseteq Range(s)
      BY <1>2, <1>4 DEF Range
<1>8. Range(s) \subseteq Range(r) \cup {Head(s)}
      BY <1>2, <1>6 DEF Range
<1> QED BY <1>5, <1>7, <1>8 DEF r

(* Without repetitions the head is not in the tail. *)
LEMMA TailInjectiveSeq ==
    ASSUME NEW S, NEW s \in Seq(S), s # <<>>, IsInjective(s)
    PROVE  IsInjective(Tail(s)) /\ Head(s) \notin Range(Tail(s))
<1> DEFINE r == Tail(s)
<1>1. /\ r \in Seq(S) /\ Len(r) = Len(s) - 1 /\ Len(s) \in Nat \ {0}
      /\ \A i \in 1 .. Len(r) : r[i] = s[i + 1]
      BY HeadTailProperties, EmptySeq
<1>2. DOMAIN r = 1 .. Len(s) - 1 /\ DOMAIN s = 1 .. Len(s)
      BY <1>1, LenProperties
<1>3. Head(s) = s[1]
      OBVIOUS
<1>4. \A i, j \in 1 .. Len(s) : s[i] = s[j] => i = j
      BY <1>2 DEF IsInjective
<1> HIDE DEF r
<1>5. ASSUME NEW i \in 1 .. Len(s) - 1, NEW j \in 1 .. Len(s) - 1, r[i] = r[j]
      PROVE  i = j
  <2>1. s[i + 1] = s[j + 1] /\ i + 1 \in 1 .. Len(s) /\ j + 1 \in 1 .. Len(s)
        BY <1>1, <1>5
  <2>2. i + 1 = j + 1
        BY <1>4, <2>1
  <2> QED BY <2>2
<1>6. ASSUME NEW i \in 1 .. Len(s) - 1 PROVE r[i] # Head(s)
  <2>1. r[i] = s[i + 1] /\ i + 1 \in 1 .. Len(s) /\ 1 \in 1 .. Len(s) /\ i + 1 # 1
        BY <1>1
  <2> QED BY <1>3, <1>4, <2>1
<1>7. IsInjective(r)
      BY <1>2, <1>5 DEF IsInjective
<1>8. Head(s) \notin Range(r)
      BY <1>2, <1>6 DEF Range
<1> QED BY <1>7, <1>8 DEF r

(* The elements of a sequence. *)
LEMMA RangeIn ==
    ASSUME NEW S, NEW s \in Seq(S)
    PROVE  Range(s) \subseteq S
BY LenProperties, ElementOfSeq DEF Range

(* LastOf cuts a sequence to at most n elements. *)
LEMMA LastOfCuts ==
    ASSUME NEW S, NEW s \in Seq(S), NEW n \in Nat \ {0}
    PROVE  LastOf(s, n) \in Seq(S) /\ Len(LastOf(s, n)) <= n
<1>1. Len(s) \in Nat /\ \A i \in 1 .. Len(s) : s[i] \in S
      BY LenProperties, ElementOfSeq
<1>2. CASE Len(s) > n
  <2>1. \A i \in (Len(s) - n + 1) .. Len(s) : s[i] \in S
        BY <1>1, <1>2
  <2>2. /\ Len(s) - n + 1 \in Int /\ Len(s) \in Int
        /\ Len(s) - n + 1 <= Len(s) /\ Len(s) - (Len(s) - n + 1) + 1 = n
        BY <1>1
  <2> DEFINE q == SubSeq(s, Len(s) - n + 1, Len(s))
  <2>3. q \in Seq(S) /\ Len(q) = n
        BY <2>1, <2>2, SubSeqProperties
  <2>4. LastOf(s, n) = q
        BY <1>2 DEF LastOf
  <2> QED BY <2>3, <2>4
<1>3. CASE ~ (Len(s) > n)
      BY <1>1, <1>3 DEF LastOf
<1> QED BY <1>2, <1>3

(* The last n elements, one by one. *)
LEMMA LastOfElements ==
    ASSUME NEW S, NEW s \in Seq(S), NEW n \in Nat \ {0}
    PROVE  \E k \in Nat :
             /\ k = IF Len(s) > n THEN Len(s) - n ELSE 0
             /\ LastOf(s, n) \in Seq(S) /\ Len(LastOf(s, n)) = Len(s) - k
             /\ \A i \in 1 .. Len(s) - k : LastOf(s, n)[i] = s[i + k]
<1>1. Len(s) \in Nat /\ \A i \in 1 .. Len(s) : s[i] \in S
      BY LenProperties, ElementOfSeq
<1>2. CASE Len(s) > n
  <2> DEFINE k == Len(s) - n
             q == SubSeq(s, k + 1, Len(s))
  <2>1. /\ k \in Nat /\ k + 1 \in Int /\ Len(s) \in Int /\ k + 1 <= Len(s)
        /\ Len(s) - (k + 1) + 1 = Len(s) - k
        BY <1>1, <1>2
  <2>2. \A i \in (k + 1) .. Len(s) : s[i] \in S
        BY <1>1, <2>1
  <2>3. LastOf(s, n) = q
        BY <1>2 DEF LastOf
  <2> HIDE DEF k
  <2>4. /\ q \in Seq(S) /\ Len(q) = Len(s) - (k + 1) + 1
        /\ \A i \in 1 .. Len(s) - (k + 1) + 1 : q[i] = s[(k + 1) + i - 1]
        BY <2>1, <2>2, SubSeqProperties
  <2>5. \A i \in 1 .. Len(s) - k : q[i] = s[i + k]
    <3> TAKE i \in 1 .. Len(s) - k
    <3>1. i \in 1 .. Len(s) - (k + 1) + 1 /\ (k + 1) + i - 1 = i + k
          BY <2>1
    <3> QED BY <2>4, <3>1
  <2>6. k = Len(s) - n
        BY DEF k
  <2> QED BY <1>2, <2>1, <2>3, <2>4, <2>5, <2>6
<1>3. CASE ~ (Len(s) > n)
      BY <1>1, <1>3 DEF LastOf
<1> QED BY <1>2, <1>3

(* What is left of b after the first of a, numbers of elements, is left of *)
(* an element more after one more.                                         *)
LEMMA Dropped ==
    ASSUME NEW ls \in Nat, NEW n \in Nat \ {0}, NEW k, NEW j, NEW m,
           k = IF ls > n THEN ls - n ELSE 0,
           j = IF ls + 1 > n THEN ls + 1 - n ELSE 0,
           m = IF ls - k + 1 > n THEN ls - k + 1 - n ELSE 0
    PROVE  k \in Nat /\ m \in Nat /\ k <= ls /\ m <= ls - k + 1 /\ j = k + m
OBVIOUS

(* Cutting before an element is added makes no difference. *)
LEMMA LastOfLast ==
    ASSUME NEW S, NEW s \in Seq(S), NEW e \in S, NEW n \in Nat \ {0}
    PROVE  LastOf(Append(LastOf(s, n), e), n) = LastOf(Append(s, e), n)
<1> DEFINE q == LastOf(s, n)
           a == Append(s, e)
           b == Append(q, e)
           ls == Len(s)
<1>1. PICK k \in Nat :
        /\ k = IF Len(s) > n THEN Len(s) - n ELSE 0
        /\ q \in Seq(S) /\ Len(q) = Len(s) - k
        /\ \A i \in 1 .. Len(s) - k : q[i] = s[i + k]
      BY LastOfElements
<1> HIDE DEF q
<1>2. q \in Seq(S) /\ ls \in Nat
      BY <1>1, LenProperties
<1>3. /\ a \in Seq(S) /\ Len(a) = ls + 1
      /\ \A i \in 1 .. ls : a[i] = s[i]
      /\ a[ls + 1] = e
      BY AppendProperties
<1>4. /\ b \in Seq(S) /\ Len(b) = Len(q) + 1
      /\ \A i \in 1 .. Len(q) : b[i] = q[i]
      /\ b[Len(q) + 1] = e
      BY <1>2, AppendProperties
<1> HIDE DEF a, b
<1>5. PICK j \in Nat :
        /\ j = IF Len(a) > n THEN Len(a) - n ELSE 0
        /\ LastOf(a, n) \in Seq(S) /\ Len(LastOf(a, n)) = Len(a) - j
        /\ \A i \in 1 .. Len(a) - j : LastOf(a, n)[i] = a[i + j]
  <2>1. a \in Seq(S)
        BY <1>3
  <2> QED BY <2>1, LastOfElements
<1>6. PICK m \in Nat :
        /\ m = IF Len(b) > n THEN Len(b) - n ELSE 0
        /\ LastOf(b, n) \in Seq(S) /\ Len(LastOf(b, n)) = Len(b) - m
        /\ \A i \in 1 .. Len(b) - m : LastOf(b, n)[i] = b[i + m]
  <2>1. b \in Seq(S)
        BY <1>4
  <2> QED BY <2>1, LastOfElements
<1>7. /\ k = IF ls > n THEN ls - n ELSE 0
      /\ j = IF ls + 1 > n THEN ls + 1 - n ELSE 0
      /\ m = IF ls - k + 1 > n THEN ls - k + 1 - n ELSE 0
      /\ Len(q) = ls - k /\ Len(b) = ls - k + 1 /\ Len(a) = ls + 1
      BY <1>1, <1>3, <1>4, <1>5, <1>6
<1>b. \A i \in 1 .. ls - k : b[i] = s[i + k]
      BY <1>1, <1>4, <1>7
<1> HIDE DEF ls
<1>8. k <= ls /\ m <= ls - k + 1 /\ j = k + m
      BY <1>2, <1>7, Dropped
<1>9. ASSUME NEW i \in 1 .. Len(b) - m PROVE LastOf(b, n)[i] = LastOf(a, n)[i]
  <2>1. i \in Nat /\ i >= 1 /\ i + m <= ls - k + 1 /\ i \in 1 .. Len(a) - j
        BY <1>2, <1>7, <1>8
  <2>2. LastOf(b, n)[i] = b[i + m] /\ LastOf(a, n)[i] = a[i + j]
        BY <1>5, <1>6, <2>1
  <2>3. CASE i + m = ls - k + 1
    <3>1. i + j = ls + 1 /\ i + m = Len(q) + 1
          BY <1>2, <1>7, <1>8, <2>1, <2>3
    <3> QED BY <1>3, <1>4, <2>2, <3>1
  <2>4. CASE i + m # ls - k + 1
    <3>1. i + m \in 1 .. ls - k /\ i + j \in 1 .. ls /\ (i + m) + k = i + j
          BY <1>2, <1>8, <2>1, <2>4
    <3>2. b[i + m] = s[i + j]
          BY <1>b, <3>1
    <3>3. a[i + j] = s[i + j]
          BY <1>3, <3>1
    <3> QED BY <2>2, <3>2, <3>3
  <2> QED BY <2>3, <2>4
<1>10. Len(LastOf(b, n)) = Len(LastOf(a, n)) /\ Len(LastOf(b, n)) = Len(b) - m
      BY <1>2, <1>5, <1>6, <1>7, <1>8
<1>11. LastOf(b, n) \in Seq(S) /\ LastOf(a, n) \in Seq(S)
      BY <1>5, <1>6
<1>12. LastOf(b, n) = LastOf(a, n)
      BY <1>9, <1>10, <1>11, SeqEqual
<1> QED BY <1>12 DEF a, b, q

-----------------------------------------------------------------------------
(***************************************************************************)
(* The webhooks a loop visits                                              *)
(***************************************************************************)

(* The function in Targets exists: it is built up one webhook at a time.   *)
LEMMA TargetsStepwise ==
    ASSUME NEW e
    PROVE  \E F : /\ Targets(e) = F[Len(Order)]
                 /\ F[0] = <<>>
                 /\ \A n \in 1 .. Len(Order) :
                      F[n] = IF Wants(Order[n], e) THEN Append(F[n - 1], Order[n])
                                                  ELSE F[n - 1]
<1> DEFINE Step(f, n) ==
             IF n = 0 THEN <<>>
             ELSE IF Wants(Order[n], e) THEN Append(f[n - 1], Order[n]) ELSE f[n - 1]
<1> DEFINE T == {k \in Nat : \E f : f = [n \in 0 .. k |-> Step(f, n)]}
<1>1. Len(Order) \in Nat
      BY WebhookAssumption, LenProperties
<1>2. 0 \in T
  <2>1. [n \in 0 .. 0 |-> <<>>] = [n \in 0 .. 0 |-> Step([m \in 0 .. 0 |-> <<>>], n)]
        OBVIOUS
  <2> QED BY <2>1
<1>3. ASSUME NEW k \in Nat, k \in T PROVE k + 1 \in T
  <2> HIDE DEF Step
  <2>1. PICK f : f = [n \in 0 .. k |-> Step(f, n)]
        BY <1>3
  <2> DEFINE g == [n \in 0 .. k + 1 |-> IF n <= k THEN f[n] ELSE Step(f, n)]
  <2>2. ASSUME NEW n \in 0 .. k + 1 PROVE g[n] = Step(g, n)
    <3>1. g[n] = IF n <= k THEN f[n] ELSE Step(f, n)
          OBVIOUS
    <3>2. n # 0 => g[n - 1] = f[n - 1]
          OBVIOUS
    <3>3. Step(g, n) = Step(f, n)
          BY <3>2 DEF Step
    <3>4. n <= k => f[n] = Step(f, n)
          BY <2>1
    <3> HIDE DEF g
    <3> QED BY <3>1, <3>3, <3>4
  <2>3. g = [n \in 0 .. k + 1 |-> Step(g, n)]
        BY <2>2
  <2> HIDE DEF g
  <2>4. \E h : h = [n \in 0 .. k + 1 |-> Step(h, n)]
        BY <2>3
  <2> QED BY <2>4
<1>4. Nat \subseteq T
  <2> HIDE DEF T
  <2> QED BY <1>2, <1>3, Induct
<1>5. \E f : f = [n \in 0 .. Len(Order) |-> Step(f, n)]
      BY <1>1, <1>4
<1> DEFINE F == CHOOSE f : f = [n \in 0 .. Len(Order) |-> Step(f, n)]
<1>6. F = [n \in 0 .. Len(Order) |-> Step(F, n)]
      BY <1>5
<1>7. Targets(e) = F[Len(Order)]
      BY DEF Targets
<1> HIDE DEF F
<1>8. \A n \in 0 .. Len(Order) : F[n] = Step(F, n)
      BY <1>6
<1>9. F[0] = <<>>
      BY <1>1, <1>8
<1>10. \A n \in 1 .. Len(Order) : F[n] = Step(F, n) /\ n # 0
      BY <1>8
<1> QED BY <1>7, <1>9, <1>10

(* The loop over the list of webhooks leaves out none that wants the event *)
(* and takes in no other.                                                  *)
LEMMA TargetsAreSubscribers ==
    ASSUME NEW e
    PROVE  /\ Targets(e) \in Seq(Webhooks)
           /\ Range(Targets(e)) = {w \in Webhooks : Wants(w, e)}
<1>1. Order \in Seq(Webhooks) /\ Len(Order) \in Nat /\ DOMAIN Order = 1 .. Len(Order)
      BY WebhookAssumption, LenProperties
<1>2. \A n \in 1 .. Len(Order) : Order[n] \in Webhooks
      BY <1>1, ElementOfSeq
<1>3. PICK F : /\ Targets(e) = F[Len(Order)]
               /\ F[0] = <<>>
               /\ \A n \in 1 .. Len(Order) :
                    F[n] = IF Wants(Order[n], e) THEN Append(F[n - 1], Order[n])
                                                ELSE F[n - 1]
      BY TargetsStepwise
<1> DEFINE Wanted(k) == {w \in Webhooks : Wants(w, e) /\ \E i \in 1 .. k : Order[i] = w}
<1> DEFINE U == {k \in Nat : k <= Len(Order) =>
                    F[k] \in Seq(Webhooks) /\ Range(F[k]) = Wanted(k)}
<1>4. 0 \in U
  <2>1. F[0] \in Seq(Webhooks)
        BY <1>3, EmptySeq
  <2>2. Range(F[0]) = {}
        BY <1>3 DEF Range
  <2> QED BY <2>1, <2>2
<1>5. ASSUME NEW k \in Nat, k \in U PROVE k + 1 \in U
  <2> SUFFICES ASSUME k + 1 <= Len(Order)
               PROVE  F[k + 1] \in Seq(Webhooks) /\ Range(F[k + 1]) = Wanted(k + 1)
      OBVIOUS
  <2>1. F[k] \in Seq(Webhooks) /\ Range(F[k]) = Wanted(k) /\ k + 1 \in 1 .. Len(Order)
        BY <1>1, <1>5
  <2>2. Order[k + 1] \in Webhooks
        BY <1>2, <2>1
  <2>3. F[k + 1] = IF Wants(Order[k + 1], e) THEN Append(F[k], Order[k + 1]) ELSE F[k]
    <3>1. (k + 1) - 1 = k
          OBVIOUS
    <3> QED BY <1>3, <2>1, <3>1
  <2>4. \A i \in 1 .. k + 1 : i \in 1 .. k \/ i = k + 1
        OBVIOUS
  <2>5. 1 .. k \subseteq 1 .. k + 1 /\ k + 1 \in 1 .. k + 1
        OBVIOUS
  <2>6. CASE Wants(Order[k + 1], e)
    <3>1. F[k + 1] \in Seq(Webhooks)
          BY <2>1, <2>2, <2>3, <2>6, AppendProperties
    <3>2. Range(F[k + 1]) = Wanted(k) \cup {Order[k + 1]}
          BY <2>1, <2>2, <2>3, <2>6, RangeOfAppend
    <3>3. Wanted(k + 1) = Wanted(k) \cup {Order[k + 1]}
          BY <2>2, <2>4, <2>5, <2>6
    <3> QED BY <3>1, <3>2, <3>3
  <2>7. CASE ~Wants(Order[k + 1], e)
    <3>1. F[k + 1] = F[k]
          BY <2>3, <2>7
    <3>2. Wanted(k + 1) = Wanted(k)
          BY <2>4, <2>5, <2>7
    <3> QED BY <2>1, <3>1, <3>2
  <2> QED BY <2>6, <2>7
<1>6. Nat \subseteq U
  <2> HIDE DEF U
  <2> QED BY <1>4, <1>5, Induct
<1>7. Targets(e) \in Seq(Webhooks) /\ Range(Targets(e)) = Wanted(Len(Order))
      BY <1>1, <1>3, <1>6
<1>8. Wanted(Len(Order)) = {w \in Webhooks : Wants(w, e)}
      BY <1>1 DEF Webhooks, Range
<1> QED BY <1>7, <1>8

-----------------------------------------------------------------------------
(***************************************************************************)
(* Types                                                                   *)
(***************************************************************************)

(* A delivery is tried at least once, whatever retry_count says. *)
LEMMA AttemptsArePositive ==
    ASSUME NEW w \in Webhooks PROVE Attempts(w) \in Nat /\ Attempts(w) >= 1
<1>1. RetryCount[w] \in Int
      BY WebhookAssumption
<1> QED BY <1>1 DEF Attempts

LEMMA BegunIsDelivery == ASSUME NEW w \in Webhooks PROVE Begun(w) \in Delivery
BY DEF Begun, Delivery

(* What a post makes of a delivery is a delivery. *)
LEMMA ChangedIsDelivery ==
    ASSUME NEW d \in Delivery, NEW a \in Nat, NEW s \in BOOLEAN, NEW e \in BOOLEAN,
           NEW n \in Nat, NEW l \in BOOLEAN
    PROVE  [d EXCEPT !.attempts = a, !.success = s, !.error = e, !.accepted = n,
                     !.late = l] \in Delivery
BY DEF Delivery

(* The parts of TypeOK that are about sequences of deliveries. *)
JobsTypes ==
    /\ jobs \in Seq(Delivery)
    /\ queue \in Seq(1 .. Len(jobs))
    /\ deliveries \in Seq(1 .. Len(jobs)) /\ Len(deliveries) <= MaxDeliveries
    /\ recorded \in Seq(1 .. Len(jobs))
    /\ IsInjective(recorded)

Points == {"idle", "fire", "sync", "post", "sleep", "record", "notify"}

(* The parts that are about threads. *)
ThreadTypes ==
    /\ pc \in [Threads -> Points]
    /\ \A w \in Workers : pc[w] \notin {"fire", "sync"}
    /\ job \in [Threads -> 0 .. Len(jobs)]
    /\ \A t \in Threads : pc[t] \in {"idle", "fire", "sync"} <=> job[t] = 0
    /\ left \in [Callers -> Seq(Webhooks)]
    /\ pool \in {"open", "closing", "down"}

LEMMA TypeParts ==
    /\ TypeOK <=> JobsTypes /\ ThreadTypes
    /\ TypeOK' <=> JobsTypes' /\ ThreadTypes'
BY DEF TypeOK, JobsTypes, ThreadTypes, Points

(* When a delivery begins, the numbers of the earlier ones stay. *)
LEMMA JobsGrow ==
    ASSUME JobsTypes, NEW w \in Webhooks, jobs' = Append(jobs, Begun(w))
    PROVE  /\ jobs' \in Seq(Delivery)
           /\ Len(jobs) \in Nat /\ Len(jobs') = Len(jobs) + 1
           /\ \A n \in 1 .. Len(jobs) : jobs'[n] = jobs[n]
           /\ jobs'[Len(jobs) + 1] = Begun(w)
           /\ queue \in Seq(1 .. Len(jobs'))
           /\ deliveries \in Seq(1 .. Len(jobs'))
           /\ recorded \in Seq(1 .. Len(jobs'))
<1>1. jobs \in Seq(Delivery) /\ Begun(w) \in Delivery
      BY BegunIsDelivery DEF JobsTypes
<1>2. /\ jobs' \in Seq(Delivery)
      /\ Len(jobs) \in Nat /\ Len(jobs') = Len(jobs) + 1
      /\ \A n \in 1 .. Len(jobs) : jobs'[n] = jobs[n]
      /\ jobs'[Len(jobs) + 1] = Begun(w)
      BY <1>1, AppendProperties, LenProperties
<1>3. 1 .. Len(jobs) \subseteq 1 .. Len(jobs')
      BY <1>2
<1> QED BY <1>2, <1>3, SeqMonotonic DEF JobsTypes

(* What an attempt makes of the delivery d. *)
Attempted(d, new, answer) ==
    /\ new.webhook = d.webhook
    /\ new.attempts = d.attempts + 1
    /\ new.success <=> answer = "accepted"
    /\ answer # "accepted" => new.error
    /\ new.accepted = IF answer = "failed" THEN d.accepted ELSE d.accepted + 1
    /\ d.late \/ answer = "late" => new.late

(* A post changes the delivery it is about, and no other. *)
LEMMA PostChangesOne ==
    ASSUME TypeOK, NEW t \in Threads, NEW answer \in {"accepted", "failed", "late"},
           Post(t, answer)
    PROVE  /\ job[t] \in 1 .. Len(jobs) /\ jobs[job[t]] \in Delivery
           /\ jobs' \in Seq(Delivery) /\ Len(jobs') = Len(jobs)
           /\ \A n \in 1 .. Len(jobs) : n # job[t] => jobs'[n] = jobs[n]
           /\ Attempted(jobs[job[t]], jobs'[job[t]], answer)
<1> DEFINE d == jobs[job[t]]
<1> DEFINE ok == answer = "accepted"
<1> DEFINE new == [d EXCEPT
                   !.attempts = @ + 1, !.success = ok, !.error = @ \/ ~ok,
                   !.accepted = IF answer = "failed" THEN @ ELSE @ + 1,
                   !.late = @ \/ answer = "late"]
<1>1. jobs \in Seq(Delivery) /\ job[t] \in 0 .. Len(jobs) /\ Len(jobs) \in Nat
      BY LenProperties DEF TypeOK
<1>2. pc[t] = "post" /\ jobs' = [jobs EXCEPT ![job[t]] = new]
      BY DEF Post
<1>3. job[t] # 0
      BY <1>2 DEF TypeOK
<1>4. job[t] \in 1 .. Len(jobs)
      BY <1>1, <1>3
<1>5. d \in Delivery
      BY <1>1, <1>4, ElementOfSeq
<1>6. new \in Delivery
  <2> HIDE DEF d, ok
  <2>1. d.attempts + 1 \in Nat
        /\ (IF answer = "failed" THEN d.accepted ELSE d.accepted + 1) \in Nat
        BY <1>5 DEF Delivery
  <2>2. (d.error \/ ~ok) \in BOOLEAN /\ (d.late \/ answer = "late") \in BOOLEAN
        OBVIOUS
  <2>3. ok \in BOOLEAN
        BY DEF ok
  <2> QED BY <1>5, <2>1, <2>2, <2>3, ChangedIsDelivery
<1>9. Attempted(d, new, answer)
  <2> HIDE DEF d
  <2> QED BY <1>5 DEF Delivery, Attempted
<1> HIDE DEF new
<1>7. /\ jobs' \in Seq(Delivery) /\ Len(jobs') = Len(jobs)
      /\ \A n \in 1 .. Len(jobs) : jobs'[n] = IF n = job[t] THEN new ELSE jobs[n]
      BY <1>1, <1>2, <1>4, <1>6, ExceptSeq
<1>8. jobs'[job[t]] = new
      BY <1>4, <1>7
<1> QED BY <1>4, <1>5, <1>7, <1>8, <1>9

(* No step goes anywhere outside the types. *)
LEMMA TypeInit == Init => TypeOK
<1> SUFFICES ASSUME Init PROVE TypeOK
    OBVIOUS
<1>1. MaxDeliveries \in Nat \ {0}
      BY WebhookAssumption
<1>2. /\ jobs \in Seq(Delivery) /\ queue \in Seq(1 .. Len(jobs))
      /\ deliveries \in Seq(1 .. Len(jobs)) /\ recorded \in Seq(1 .. Len(jobs))
      BY EmptySeq DEF Init
<1>3. Len(deliveries) <= MaxDeliveries /\ Len(jobs) = 0
      BY <1>1 DEF Init
<1>4. IsInjective(recorded)
      BY DEF Init, IsInjective
<1>5. left \in [Callers -> Seq(Webhooks)]
      BY EmptySeq DEF Init
<1>6. JobsTypes
      BY <1>2, <1>3, <1>4 DEF JobsTypes
<1>7. ThreadTypes
      BY <1>3, <1>5 DEF Init, ThreadTypes, Threads, Points
<1> QED BY <1>6, <1>7, TypeParts

LEMMA BeginLoopType ==
    ASSUME TypeOK, NEW c \in Callers, NEW kind \in {"fire", "sync"},
           NEW targets \in Seq(Webhooks), BeginLoop(c, kind, targets)
    PROVE  TypeOK'
<1>1. c \in Threads /\ c \notin Workers
      BY WebhookAssumption DEF Threads
<1>2. UNCHANGED <<jobs, queue, job, deliveries, pool, recorded>>
      BY DEF BeginLoop
<1>3. JobsTypes'
      BY <1>2 DEF TypeOK, JobsTypes
<1>4. /\ pc[c] = "idle" /\ pc' = [pc EXCEPT ![c] = kind]
      /\ left' = [left EXCEPT ![c] = targets]
      BY DEF BeginLoop
<1>5. ThreadTypes'
      BY <1>1, <1>2, <1>4 DEF TypeOK, ThreadTypes, Points
<1> QED BY <1>3, <1>5, TypeParts

LEMMA CallType == ASSUME TypeOK, NEW c \in Callers, Call(c) PROVE TypeOK'
<1>1. ASSUME NEW e \in Events, Fire(c, e) PROVE TypeOK'
      BY <1>1, TargetsAreSubscribers, BeginLoopType DEF Fire
<1>2. ASSUME NEW e \in Events, FireSync(c, e) PROVE TypeOK'
      BY <1>2, TargetsAreSubscribers, BeginLoopType DEF FireSync
<1>3. ASSUME SendTest(c) PROVE TypeOK'
  <2>1. PICK targets \in {Order} \cup {<<w>> : w \in Webhooks} :
             BeginLoop(c, "sync", targets)
        BY <1>3 DEF SendTest
  <2>2. \A w \in Webhooks : <<w>> \in Seq(Webhooks)
        OBVIOUS
  <2>3. targets \in Seq(Webhooks)
        BY <2>1, <2>2, WebhookAssumption
  <2> QED BY <2>1, <2>3, BeginLoopType
<1> QED BY <1>1, <1>2, <1>3 DEF Call

LEMMA LoopType == ASSUME TypeOK, NEW c \in Callers, Loop(c) PROVE TypeOK'
<1>1. c \in Threads /\ c \notin Workers
      BY WebhookAssumption DEF Threads
<1>2. JobsTypes /\ ThreadTypes /\ left[c] \in Seq(Webhooks)
      BY TypeParts DEF TypeOK
<1>a. left[c] # <<>> => Head(left[c]) \in Webhooks /\ Tail(left[c]) \in Seq(Webhooks)
      BY <1>2, HeadTailProperties
<1>3. CASE Submit(c)
  <2>1. /\ jobs' = Append(jobs, Begun(Head(left[c])))
        /\ queue' = Append(queue, Len(jobs) + 1)
        /\ left' = [left EXCEPT ![c] = Tail(@)] /\ left[c] # <<>>
        /\ UNCHANGED <<pc, job, deliveries, pool, recorded>>
        BY <1>3 DEF Submit
  <2>2. /\ jobs' \in Seq(Delivery) /\ Len(jobs) \in Nat /\ Len(jobs') = Len(jobs) + 1
        /\ queue \in Seq(1 .. Len(jobs')) /\ deliveries \in Seq(1 .. Len(jobs'))
        /\ recorded \in Seq(1 .. Len(jobs'))
        BY <1>2, <1>a, <2>1, JobsGrow
  <2>3. queue' \in Seq(1 .. Len(jobs'))
    <3>1. Len(jobs) + 1 \in 1 .. Len(jobs')
          BY <2>2
    <3> QED BY <2>1, <2>2, <3>1, AppendProperties
  <2>4. JobsTypes'
        BY <1>2, <2>1, <2>2, <2>3 DEF JobsTypes
  <2>5. job' \in [Threads -> 0 .. Len(jobs')]
        BY <1>2, <2>1, <2>2 DEF ThreadTypes, Points
  <2>6. left' \in [Callers -> Seq(Webhooks)]
        BY <1>2, <1>a, <2>1 DEF ThreadTypes, Points
  <2>7. ThreadTypes'
        BY <1>2, <2>1, <2>5, <2>6 DEF ThreadTypes, Points
  <2> QED BY <2>4, <2>7, TypeParts
<1>4. CASE SubmitRaises(c)
  <2>1. /\ pc[c] = "fire" /\ pc' = [pc EXCEPT ![c] = "idle"]
        /\ left' = [left EXCEPT ![c] = <<>>]
        /\ UNCHANGED <<jobs, queue, job, deliveries, pool, recorded>>
        BY <1>4 DEF SubmitRaises
  <2>2. left' \in [Callers -> Seq(Webhooks)]
        BY <1>2, <2>1, EmptySeq DEF ThreadTypes, Points
  <2>3. ThreadTypes'
        BY <1>1, <1>2, <2>1, <2>2 DEF ThreadTypes, Points
  <2>4. JobsTypes'
        BY <1>2, <2>1 DEF JobsTypes
  <2> QED BY <2>3, <2>4, TypeParts
<1>5. CASE DeliverHere(c)
  <2>1. /\ jobs' = Append(jobs, Begun(Head(left[c])))
        /\ left' = [left EXCEPT ![c] = Tail(@)] /\ left[c] # <<>>
        /\ pc' = [pc EXCEPT ![c] = "post"]
        /\ job' = [job EXCEPT ![c] = Len(jobs) + 1]
        /\ UNCHANGED <<queue, deliveries, pool, recorded>>
        BY <1>5 DEF DeliverHere
  <2>2. /\ jobs' \in Seq(Delivery) /\ Len(jobs) \in Nat /\ Len(jobs') = Len(jobs) + 1
        /\ queue \in Seq(1 .. Len(jobs')) /\ deliveries \in Seq(1 .. Len(jobs'))
        /\ recorded \in Seq(1 .. Len(jobs'))
        BY <1>2, <1>a, <2>1, JobsGrow
  <2>3. JobsTypes'
        BY <1>2, <2>1, <2>2 DEF JobsTypes
  <2>4. left' \in [Callers -> Seq(Webhooks)]
        BY <1>2, <1>a, <2>1 DEF ThreadTypes, Points
  <2>5. job' \in [Threads -> 0 .. Len(jobs')]
    <3>1. job \in [Threads -> 0 .. Len(jobs')]
          BY <1>2, <2>2 DEF ThreadTypes, Points
    <3>2. Len(jobs) + 1 \in 0 .. Len(jobs')
          BY <2>2
    <3> QED BY <2>1, <3>1, <3>2
  <2>6. \A t \in Threads : pc'[t] \in {"idle", "fire", "sync"} <=> job'[t] = 0
        BY <1>1, <1>2, <2>1, <2>2 DEF ThreadTypes, Points
  <2>7. ThreadTypes'
        BY <1>1, <1>2, <2>1, <2>4, <2>5, <2>6 DEF ThreadTypes, Points
  <2> QED BY <2>3, <2>7, TypeParts
<1>6. CASE EndLoop(c)
  <2>1. /\ pc[c] \in {"fire", "sync"} /\ pc' = [pc EXCEPT ![c] = "idle"]
        /\ UNCHANGED <<jobs, queue, job, left, deliveries, pool, recorded>>
        BY <1>6 DEF EndLoop
  <2>2. ThreadTypes'
        BY <1>1, <1>2, <2>1 DEF ThreadTypes, Points
  <2>3. JobsTypes'
        BY <1>2, <2>1 DEF JobsTypes
  <2> QED BY <2>2, <2>3, TypeParts
<1> QED BY <1>3, <1>4, <1>5, <1>6 DEF Loop

(* That no delivery is recorded twice is the one part that needs more.     *)
LEMMA DeliverType ==
    ASSUME TypeOK, NEW t \in Threads, Deliver(t),
           pc[t] = "record" => job[t] \notin Range(recorded)
    PROVE  TypeOK'
<1>1. JobsTypes /\ ThreadTypes /\ Len(jobs) \in Nat
      BY TypeParts, LenProperties DEF TypeOK
<1>2. Callers \cap Workers = {} /\ Threads = Workers \cup Callers
      BY WebhookAssumption DEF Threads
<1>3. CASE Take(t)
  <2>1. /\ t \in Workers /\ pc[t] = "idle" /\ queue # <<>>
        /\ job' = [job EXCEPT ![t] = Head(queue)] /\ queue' = Tail(queue)
        /\ pc' = [pc EXCEPT ![t] = "post"]
        /\ UNCHANGED <<jobs, left, deliveries, pool, recorded>>
        BY <1>3 DEF Take
  <2>2. Head(queue) \in 1 .. Len(jobs) /\ queue' \in Seq(1 .. Len(jobs'))
        BY <1>1, <2>1, HeadTailProperties DEF JobsTypes
  <2>3. JobsTypes'
        BY <1>1, <2>1, <2>2 DEF JobsTypes
  <2>4. Head(queue) \in 0 .. Len(jobs) /\ Head(queue) # 0
        BY <1>1, <2>2
  <2>5. job' \in [Threads -> 0 .. Len(jobs')]
        BY <1>1, <2>1, <2>4 DEF ThreadTypes, Points
  <2>6. \A u \in Threads : pc'[u] \in {"idle", "fire", "sync"} <=> job'[u] = 0
        BY <1>1, <2>1, <2>4 DEF ThreadTypes, Points
  <2>7. ThreadTypes'
        BY <1>1, <1>2, <2>1, <2>5, <2>6 DEF ThreadTypes, Points
  <2> QED BY <2>3, <2>7, TypeParts
<1>4. ASSUME NEW answer \in {"accepted", "failed", "late"}, Post(t, answer) PROVE TypeOK'
  <2>1. jobs' \in Seq(Delivery) /\ Len(jobs') = Len(jobs)
        BY <1>4, PostChangesOne
  <2>2. /\ pc[t] = "post"
        /\ \/ pc' = [pc EXCEPT ![t] = "record"]
           \/ pc' = [pc EXCEPT ![t] = "sleep"]
        /\ UNCHANGED <<queue, job, left, deliveries, pool, recorded>>
        BY <1>4 DEF Post
  <2>3. JobsTypes'
        BY <1>1, <2>1, <2>2 DEF JobsTypes
  <2>4. ThreadTypes'
        BY <1>1, <1>2, <2>1, <2>2 DEF ThreadTypes, Points
  <2> QED BY <2>3, <2>4, TypeParts
<1>5. CASE Wake(t)
  <2>1. /\ pc[t] = "sleep" /\ pc' = [pc EXCEPT ![t] = "post"]
        /\ UNCHANGED <<jobs, queue, job, left, deliveries, pool, recorded>>
        BY <1>5 DEF Wake
  <2>2. JobsTypes' /\ ThreadTypes'
        BY <1>1, <1>2, <2>1 DEF JobsTypes, ThreadTypes, Points
  <2> QED BY <2>2, TypeParts
<1>6. CASE Record(t)
  <2>1. /\ pc[t] = "record" /\ pc' = [pc EXCEPT ![t] = "notify"]
        /\ deliveries' = LastOf(Append(deliveries, job[t]), MaxDeliveries)
        /\ recorded' = Append(recorded, job[t])
        /\ UNCHANGED <<jobs, queue, job, left, pool>>
        BY <1>6 DEF Record
  <2>2. job[t] \in 1 .. Len(jobs)
        BY <1>1, <2>1 DEF ThreadTypes, Points
  <2>3. MaxDeliveries \in Nat \ {0}
        BY WebhookAssumption
  <2>4. deliveries' \in Seq(1 .. Len(jobs')) /\ Len(deliveries') <= MaxDeliveries
        BY <1>1, <2>1, <2>2, <2>3, AppendProperties, LastOfCuts DEF JobsTypes
  <2>5. recorded' \in Seq(1 .. Len(jobs'))
        BY <1>1, <2>1, <2>2, AppendProperties DEF JobsTypes
  <2>6. IsInjective(recorded')
        BY <1>1, <2>1, <2>2, AppendInjectiveSeq DEF JobsTypes
  <2>7. JobsTypes'
        BY <1>1, <2>1, <2>4, <2>5, <2>6 DEF JobsTypes
  <2>8. ThreadTypes'
        BY <1>1, <1>2, <2>1 DEF ThreadTypes, Points
  <2> QED BY <2>7, <2>8, TypeParts
<1>7. CASE Notify(t)
  <2>1. /\ pc[t] = "notify" /\ job' = [job EXCEPT ![t] = 0]
        /\ \/ t \in Callers /\ pc' = [pc EXCEPT ![t] = "sync"]
           \/ t \notin Callers /\ pc' = [pc EXCEPT ![t] = "idle"]
        /\ UNCHANGED <<jobs, queue, left, deliveries, pool, recorded>>
        BY <1>7 DEF Notify
  <2>2. JobsTypes'
        BY <1>1, <2>1 DEF JobsTypes
  <2>3. job' \in [Threads -> 0 .. Len(jobs')]
        BY <1>1, <2>1 DEF ThreadTypes, Points
  <2>4. ThreadTypes'
        BY <1>1, <1>2, <2>1, <2>3 DEF ThreadTypes, Points
  <2> QED BY <2>2, <2>4, TypeParts
<1> QED BY <1>3, <1>4, <1>5, <1>6, <1>7 DEF Deliver

-----------------------------------------------------------------------------
(***************************************************************************)
(* Where each delivery is, and what is known of it there                   *)
(***************************************************************************)

(* What VerdictIsRight says of one delivery. *)
Verdict(d) ==
    /\ d.attempts <= Attempts(d.webhook)
    /\ d.success => d.accepted > 0
    /\ ~d.success => d.error /\ d.attempts = Attempts(d.webhook)
    /\ d.accepted > 1 => d.late

(* A delivery that is still to be tried: so far nothing was accepted       *)
(* unless the answer was late.                                             *)
Underway(d) ==
    /\ d.attempts < Attempts(d.webhook)
    /\ ~d.success
    /\ d.accepted > 0 => d.late

(* A delivery waits in the queue once, and nowhere else. *)
Queued ==
    /\ IsInjective(queue)
    /\ \A n \in Range(queue) :
         /\ Underway(jobs[n])
         /\ n \notin Range(recorded)
         /\ \A t \in Threads : job[t] # n

(* A thread has its delivery for itself, and records it once. *)
Held ==
    \A t \in Threads : job[t] # 0 =>
      /\ \A u \in Threads : job[u] = job[t] => u = t
      /\ pc[t] = "notify" <=> job[t] \in Range(recorded)
      /\ pc[t] \in {"post", "sleep"} => Underway(jobs[job[t]])
      /\ pc[t] = "record" => Verdict(jobs[job[t]])

Concluded == \A n \in Range(recorded) : Verdict(jobs[n])

Somewhere ==
    \A n \in 1 .. Len(jobs) :
      n \in Range(queue) \/ n \in Range(recorded) \/ \E t \in Threads : job[t] = n

Down == pool = "down" => queue = <<>> /\ \A w \in Workers : pc[w] = "idle"

HookInv == TypeOK /\ Queued /\ Held /\ Concluded /\ Somewhere /\ Down

(* The numbers in use are numbers of deliveries. *)
LEMMA NumbersInUse ==
    ASSUME TypeOK
    PROVE  /\ Len(jobs) \in Nat /\ Len(jobs) + 1 \notin 1 .. Len(jobs)
           /\ Range(queue) \subseteq 1 .. Len(jobs)
           /\ Range(recorded) \subseteq 1 .. Len(jobs)
           /\ \A t \in Threads : job[t] \in 0 .. Len(jobs)
<1>1. /\ jobs \in Seq(Delivery) /\ queue \in Seq(1 .. Len(jobs))
      /\ recorded \in Seq(1 .. Len(jobs)) /\ job \in [Threads -> 0 .. Len(jobs)]
      BY DEF TypeOK
<1>2. Len(jobs) \in Nat
      BY <1>1, LenProperties
<1>3. Range(queue) \subseteq 1 .. Len(jobs) /\ Range(recorded) \subseteq 1 .. Len(jobs)
      BY <1>1, RangeIn
<1> QED BY <1>1, <1>2, <1>3

LEMMA HookInit == Init => HookInv
<1> SUFFICES ASSUME Init PROVE HookInv
    OBVIOUS
<1>1. Range(queue) = {} /\ Range(recorded) = {} /\ Len(jobs) = 0 /\ IsInjective(queue)
      BY DEF Init, Range, IsInjective
<1>2. \A t \in Threads : job[t] = 0
      BY DEF Init
<1>3. Queued /\ Held /\ Concluded /\ Somewhere
      BY <1>1, <1>2 DEF Queued, Held, Concluded, Somewhere
<1>4. Down
      BY DEF Down, Init
<1> QED BY <1>3, <1>4, TypeInit DEF HookInv

(* A step that begins, moves and records no delivery. *)
LEMMA QuietStep ==
    ASSUME HookInv, UNCHANGED <<jobs, queue, job, recorded>>,
           \A t \in Threads : job[t] # 0 =>
             pc'[t] = pc[t] \/ (pc[t] = "sleep" /\ pc'[t] = "post")
    PROVE  Queued' /\ Held' /\ Concluded' /\ Somewhere'
<1>1. Queued /\ Held /\ Concluded /\ Somewhere
      BY DEF HookInv
<1>2. Queued' /\ Concluded' /\ Somewhere'
      BY <1>1 DEF Queued, Concluded, Somewhere
<1>3. Held'
      BY <1>1 DEF Held
<1> QED BY <1>2, <1>3

(* Once the pool is down its threads stay idle. *)
LEMMA StaysDown ==
    ASSUME HookInv, pool' = pool, pool = "down" => queue' = queue,
           \A w \in Workers : pc[w] = "idle" => pc'[w] = "idle"
    PROVE  Down'
BY DEF HookInv, Down


(* The deliveries that were begun before are where they were. *)
LEMMA BeginKeeps ==
    ASSUME HookInv, NEW w \in Webhooks, jobs' = Append(jobs, Begun(w)), recorded' = recorded
    PROVE  /\ Concluded'
           /\ Len(jobs) \in Nat /\ Len(jobs') = Len(jobs) + 1
           /\ \A n \in 1 .. Len(jobs) : jobs'[n] = jobs[n]
           /\ Underway(jobs'[Len(jobs) + 1])
           /\ Len(jobs) + 1 \notin Range(recorded)
           /\ Len(jobs) + 1 \notin Range(queue)
           /\ \A t \in Threads : job[t] # Len(jobs) + 1
<1>1. TypeOK /\ JobsTypes
      BY TypeParts DEF HookInv
<1>2. /\ Len(jobs) \in Nat /\ Len(jobs') = Len(jobs) + 1
      /\ \A n \in 1 .. Len(jobs) : jobs'[n] = jobs[n]
      /\ jobs'[Len(jobs) + 1] = Begun(w)
      BY <1>1, JobsGrow
<1>3. Underway(Begun(w))
      BY AttemptsArePositive DEF Underway, Begun
<1>4. Concluded'
      BY <1>1, <1>2, NumbersInUse DEF HookInv, Concluded
<1>5. /\ Len(jobs) + 1 \notin Range(recorded) /\ Len(jobs) + 1 \notin Range(queue)
      BY <1>1, NumbersInUse
<1>6. \A t \in Threads : job[t] # Len(jobs) + 1
      BY <1>1, <1>2, NumbersInUse
<1> QED BY <1>2, <1>3, <1>4, <1>5, <1>6

LEMMA SubmitStep ==
    ASSUME HookInv, NEW c \in Callers, Submit(c)
    PROVE  Queued' /\ Held' /\ Concluded' /\ Somewhere' /\ Down'
<1> DEFINE new == Len(jobs) + 1
<1>1. /\ TypeOK /\ Queued /\ Held /\ Somewhere
      /\ queue \in Seq(1 .. Len(jobs)) /\ Head(left[c]) \in Webhooks
  <2>1. left[c] \in Seq(Webhooks) /\ left[c] # <<>>
        BY DEF HookInv, TypeOK, Submit
  <2> QED BY <2>1, HeadTailProperties DEF HookInv, TypeOK, Points
<1>2. /\ jobs' = Append(jobs, Begun(Head(left[c]))) /\ queue' = Append(queue, new)
      /\ pool = "open"
      /\ UNCHANGED <<pc, job, deliveries, pool, recorded>>
      BY DEF Submit
<1>3. /\ Concluded' /\ Len(jobs) \in Nat /\ Len(jobs') = new
      /\ \A n \in 1 .. Len(jobs) : jobs'[n] = jobs[n]
      /\ Underway(jobs'[new]) /\ new \notin Range(recorded) /\ new \notin Range(queue)
      /\ \A t \in Threads : job[t] # new
      BY <1>1, <1>2, BeginKeeps
<1>4. /\ Range(queue) \subseteq 1 .. Len(jobs)
      /\ \A t \in Threads : job[t] \in 0 .. Len(jobs)
      BY <1>1, NumbersInUse
<1>5. queue \in Seq(1 .. new) /\ new \in 1 .. new
  <2>1. 1 .. Len(jobs) \subseteq 1 .. new /\ new \in 1 .. new
        BY <1>3
  <2> QED BY <1>1, <2>1, SeqMonotonic
<1>6. Range(queue') = Range(queue) \cup {new}
      BY <1>2, <1>5, RangeOfAppend
<1>7. IsInjective(queue')
      BY <1>1, <1>2, <1>3, <1>5, AppendInjectiveSeq DEF Queued
<1> HIDE DEF new
<1>8. Queued'
      BY <1>1, <1>2, <1>3, <1>4, <1>6, <1>7 DEF Queued
<1>9. Held'
  <2>1. \A t \in Threads : job[t] # 0 => jobs'[job[t]] = jobs[job[t]]
        BY <1>3, <1>4
  <2> QED BY <1>1, <1>2, <2>1 DEF Held
<1>10. Somewhere'
  <2>1. \A n \in 1 .. Len(jobs') : n \in 1 .. Len(jobs) \/ n = new
        BY <1>3 DEF new
  <2> QED BY <1>1, <1>2, <1>6, <2>1 DEF Somewhere
<1>11. Down'
      BY <1>2, StaysDown
<1> QED BY <1>3, <1>8, <1>9, <1>10, <1>11

LEMMA DeliverHereStep ==
    ASSUME HookInv, NEW c \in Callers, DeliverHere(c)
    PROVE  Queued' /\ Held' /\ Concluded' /\ Somewhere' /\ Down'
<1> DEFINE new == Len(jobs) + 1
<1>1. /\ TypeOK /\ Queued /\ Held /\ Somewhere
      /\ pc \in [Threads -> Points]
      /\ job \in [Threads -> 0 .. Len(jobs)]
      /\ Head(left[c]) \in Webhooks
  <2>1. left[c] \in Seq(Webhooks) /\ left[c] # <<>>
        BY DEF HookInv, TypeOK, DeliverHere
  <2> QED BY <2>1, HeadTailProperties DEF HookInv, TypeOK, Points
<1>2. /\ jobs' = Append(jobs, Begun(Head(left[c]))) /\ pc[c] = "sync"
      /\ pc' = [pc EXCEPT ![c] = "post"] /\ job' = [job EXCEPT ![c] = new]
      /\ UNCHANGED <<queue, deliveries, pool, recorded>>
      BY DEF DeliverHere
<1>3. /\ Concluded' /\ Len(jobs) \in Nat /\ Len(jobs') = new
      /\ \A n \in 1 .. Len(jobs) : jobs'[n] = jobs[n]
      /\ Underway(jobs'[new]) /\ new \notin Range(recorded) /\ new \notin Range(queue)
      /\ \A t \in Threads : job[t] # new
      BY <1>1, <1>2, BeginKeeps
<1>4. /\ Range(queue) \subseteq 1 .. Len(jobs)
      /\ \A t \in Threads : job[t] \in 0 .. Len(jobs)
      BY <1>1, NumbersInUse
<1>5. c \in Threads /\ c \notin Workers /\ job[c] = 0 /\ new # 0
      BY <1>2, <1>3, WebhookAssumption DEF Threads, HookInv, TypeOK
<1> HIDE DEF new
<1>6. /\ job'[c] = new /\ pc'[c] = "post"
      /\ \A t \in Threads : t # c => job'[t] = job[t] /\ pc'[t] = pc[t]
      BY <1>1, <1>2, <1>5
<1>7. Queued'
      BY <1>1, <1>2, <1>3, <1>4, <1>6 DEF Queued
<1>8. Held'
  <2>1. \A t \in Threads : job[t] # 0 => jobs'[job[t]] = jobs[job[t]]
        BY <1>3, <1>4
  <2>2. ASSUME NEW t \in Threads, t # c, job'[t] # 0
        PROVE  /\ \A u \in Threads : job'[u] = job'[t] => u = t
               /\ pc'[t] = "notify" <=> job'[t] \in Range(recorded')
               /\ pc'[t] \in {"post", "sleep"} => Underway(jobs'[job'[t]])
               /\ pc'[t] = "record" => Verdict(jobs'[job'[t]])
        BY <1>1, <1>2, <1>3, <1>6, <2>1, <2>2 DEF Held
  <2>3. \A u \in Threads : job'[u] = job'[c] => u = c
        BY <1>3, <1>6
  <2> QED BY <1>2, <1>3, <1>6, <2>2, <2>3 DEF Held
<1>9. Somewhere'
  <2>1. \A n \in 1 .. Len(jobs') : n \in 1 .. Len(jobs) \/ n = new
        BY <1>3 DEF new
  <2>2. \A n \in 1 .. Len(jobs) : n # 0
        OBVIOUS
  <2> QED BY <1>1, <1>2, <1>5, <1>6, <2>1, <2>2 DEF Somewhere
<1>10. Down'
      BY <1>2, <1>5, <1>6, StaysDown DEF Threads
<1> QED BY <1>3, <1>7, <1>8, <1>9, <1>10

LEMMA TakeStep ==
    ASSUME HookInv, NEW t \in Threads, Take(t)
    PROVE  Queued' /\ Held' /\ Concluded' /\ Somewhere' /\ Down'
<1> DEFINE n == Head(queue)
<1>1. /\ TypeOK /\ Queued /\ Held /\ Concluded /\ Somewhere /\ Down
      /\ pc \in [Threads -> Points]
      /\ job \in [Threads -> 0 .. Len(jobs)] /\ queue \in Seq(1 .. Len(jobs))
      BY DEF HookInv, TypeOK, Points
<1>2. /\ t \in Workers /\ pc[t] = "idle" /\ queue # <<>>
      /\ job' = [job EXCEPT ![t] = n] /\ queue' = Tail(queue)
      /\ pc' = [pc EXCEPT ![t] = "post"]
      /\ UNCHANGED <<jobs, deliveries, pool, recorded>>
      BY DEF Take
<1>3. Range(queue) = Range(queue') \cup {n}
      BY <1>1, <1>2, RangeOfTail
<1>4. IsInjective(queue') /\ n \notin Range(queue')
      BY <1>1, <1>2, TailInjectiveSeq DEF Queued
<1>5. /\ job[t] = 0 /\ n # 0
  <2>1. n \in 1 .. Len(jobs)
        BY <1>1, <1>2, HeadTailProperties
  <2> QED BY <1>1, <1>2, <2>1 DEF TypeOK
<1> HIDE DEF n
<1>6. /\ job'[t] = n /\ pc'[t] = "post"
      /\ \A u \in Threads : u # t => job'[u] = job[u] /\ pc'[u] = pc[u]
      BY <1>1, <1>2
<1>7. Underway(jobs[n]) /\ n \notin Range(recorded) /\ \A u \in Threads : job[u] # n
      BY <1>1, <1>3 DEF Queued
<1>8. Queued'
      BY <1>1, <1>2, <1>3, <1>4, <1>6 DEF Queued
<1>9. Held'
  <2>1. ASSUME NEW s \in Threads, s # t, job'[s] # 0
        PROVE  /\ \A u \in Threads : job'[u] = job'[s] => u = s
               /\ pc'[s] = "notify" <=> job'[s] \in Range(recorded')
               /\ pc'[s] \in {"post", "sleep"} => Underway(jobs'[job'[s]])
               /\ pc'[s] = "record" => Verdict(jobs'[job'[s]])
        BY <1>1, <1>2, <1>6, <1>7, <2>1 DEF Held
  <2>2. \A u \in Threads : job'[u] = job'[t] => u = t
        BY <1>6, <1>7
  <2> QED BY <1>2, <1>6, <1>7, <2>1, <2>2 DEF Held
<1>10. Concluded'
      BY <1>1, <1>2 DEF Concluded
<1>11. Somewhere'
  <2>1. \A k \in 1 .. Len(jobs) : k # 0
        OBVIOUS
  <2> QED BY <1>1, <1>2, <1>3, <1>5, <1>6, <2>1 DEF Somewhere
<1>12. Down'
      BY <1>1, <1>2 DEF Down
<1> QED BY <1>8, <1>9, <1>10, <1>11, <1>12

(* One attempt at a delivery: it is decided, or still underway. *)
LEMMA AttemptDecides ==
    ASSUME NEW d \in Delivery, Underway(d), NEW answer \in {"accepted", "failed", "late"},
           NEW new, Attempted(d, new, answer)
    PROVE  IF answer = "accepted" \/ d.attempts + 1 = Attempts(d.webhook)
           THEN Verdict(new) ELSE Underway(new)
<1>1. /\ d.attempts \in Nat /\ d.accepted \in Nat /\ d.webhook \in Webhooks
      BY DEF Delivery
<1> DEFINE a == d.attempts
<1> DEFINE max == Attempts(d.webhook)
<1>2. max \in Nat
      BY <1>1, AttemptsArePositive
<1>3. new.attempts = a + 1 /\ Attempts(new.webhook) = max
      BY DEF Attempted
<1>4. /\ new.success <=> answer = "accepted"
      /\ answer # "accepted" => new.error
      /\ d.late \/ answer = "late" => new.late
      BY DEF Attempted
<1>5. new.accepted = IF answer = "failed" THEN d.accepted ELSE d.accepted + 1
      BY DEF Attempted
<1>6. a < max /\ (d.accepted > 0 => d.late) /\ a \in Nat
      BY <1>1 DEF Underway
<1> HIDE DEF a, max
<1>7. a + 1 <= max /\ (a + 1 # max => a + 1 < max)
      BY <1>2, <1>6
<1>8. answer = "accepted" => new.accepted > 0
      BY <1>1, <1>5
<1>9. d.accepted > 0 => new.late
      BY <1>4, <1>6
<1>10. new.accepted > 1 => d.accepted > 0
      BY <1>1, <1>5
<1>11. answer # "accepted" /\ new.accepted > 0 => d.accepted > 0 \/ answer = "late"
      BY <1>1, <1>5
<1>12. answer = "accepted" \/ a + 1 = max => Verdict(new)
      BY <1>3, <1>4, <1>7, <1>8, <1>9, <1>10 DEF Verdict
<1>13. answer # "accepted" /\ a + 1 # max => Underway(new)
      BY <1>3, <1>4, <1>7, <1>9, <1>11 DEF Underway
<1> QED BY <1>12, <1>13 DEF a, max

LEMMA PostStep ==
    ASSUME HookInv, NEW t \in Threads, NEW answer \in {"accepted", "failed", "late"},
           Post(t, answer)
    PROVE  Queued' /\ Held' /\ Concluded' /\ Somewhere' /\ Down'
<1> DEFINE n == job[t]
<1>1. /\ TypeOK /\ Queued /\ Held /\ Concluded /\ Somewhere /\ Down
      /\ pc \in [Threads -> Points]
      BY DEF HookInv, TypeOK, Points
<1>2. /\ pc[t] = "post" /\ UNCHANGED <<queue, job, left, deliveries, pool, recorded>>
      /\ pc' = [pc EXCEPT ![t] =
             IF answer = "accepted" \/ jobs[n].attempts + 1 = Attempts(jobs[n].webhook)
             THEN "record" ELSE "sleep"]
      BY DEF Post
<1>3. /\ n \in 1 .. Len(jobs) /\ jobs[n] \in Delivery
      /\ Len(jobs') = Len(jobs)
      /\ \A m \in 1 .. Len(jobs) : m # n => jobs'[m] = jobs[m]
      /\ Attempted(jobs[n], jobs'[n], answer)
      BY <1>1, PostChangesOne
<1>4. /\ n # 0
      /\ \A u \in Threads : job[u] = n => u = t
      /\ n \notin Range(recorded)
      /\ Underway(jobs[n])
  <2>1. n # 0
        BY <1>3
  <2> QED BY <1>1, <1>2, <2>1 DEF Held
<1>5. IF answer = "accepted" \/ jobs[n].attempts + 1 = Attempts(jobs[n].webhook)
      THEN Verdict(jobs'[n]) ELSE Underway(jobs'[n])
      BY <1>3, <1>4, AttemptDecides
<1>6. \/ pc'[t] = "record" /\ Verdict(jobs'[n])
      \/ pc'[t] = "sleep" /\ Underway(jobs'[n])
      BY <1>1, <1>2, <1>5
<1>7. n \notin Range(queue)
      BY <1>1 DEF Queued
<1>8. \A u \in Threads : u # t => pc'[u] = pc[u]
      BY <1>1, <1>2
<1>9. /\ \A m \in Range(queue) : jobs'[m] = jobs[m]
      /\ \A m \in Range(recorded) : jobs'[m] = jobs[m]
      BY <1>1, <1>3, <1>4, <1>7, NumbersInUse
<1>10. \A u \in Threads : u # t /\ job[u] # 0 => jobs'[job[u]] = jobs[job[u]]
  <2> SUFFICES ASSUME NEW u \in Threads, u # t, job[u] # 0 PROVE jobs'[job[u]] = jobs[job[u]]
      OBVIOUS
  <2>1. job[u] # n
        BY <1>4
  <2>2. job[u] \in 1 .. Len(jobs)
        BY <1>1, NumbersInUse
  <2> QED BY <1>3, <2>1, <2>2
<1> HIDE DEF n
<1>11. Queued'
      BY <1>1, <1>2, <1>9 DEF Queued
<1>12. Held'
  <2>1. ASSUME NEW s \in Threads, s # t, job'[s] # 0
        PROVE  /\ \A u \in Threads : job'[u] = job'[s] => u = s
               /\ pc'[s] = "notify" <=> job'[s] \in Range(recorded')
               /\ pc'[s] \in {"post", "sleep"} => Underway(jobs'[job'[s]])
               /\ pc'[s] = "record" => Verdict(jobs'[job'[s]])
        BY <1>1, <1>2, <1>8, <1>10, <2>1 DEF Held
  <2>2. job'[t] = n
        BY <1>2 DEF n
  <2>3. /\ \A u \in Threads : job'[u] = job'[t] => u = t
        /\ pc'[t] = "notify" <=> job'[t] \in Range(recorded')
        /\ pc'[t] \in {"post", "sleep"} => Underway(jobs'[job'[t]])
        /\ pc'[t] = "record" => Verdict(jobs'[job'[t]])
        BY <1>2, <1>4, <1>6, <2>2
  <2> QED BY <2>1, <2>3 DEF Held
<1>13. Concluded'
      BY <1>1, <1>2, <1>9 DEF Concluded
<1>14. Somewhere'
      BY <1>1, <1>2, <1>3 DEF Somewhere
<1>15. Down'
  <2>1. \A w \in Workers : pc[w] = "idle" => pc'[w] = "idle"
        BY <1>2, <1>8 DEF Threads
  <2> QED BY <1>2, <2>1, StaysDown
<1> QED BY <1>11, <1>12, <1>13, <1>14, <1>15

LEMMA RecordStep ==
    ASSUME HookInv, NEW t \in Threads, Record(t)
    PROVE  Queued' /\ Held' /\ Concluded' /\ Somewhere' /\ Down'
<1> DEFINE n == job[t]
<1>1. /\ TypeOK /\ Queued /\ Held /\ Concluded /\ Somewhere
      /\ pc \in [Threads -> Points]
      /\ job \in [Threads -> 0 .. Len(jobs)] /\ recorded \in Seq(1 .. Len(jobs))
      BY DEF HookInv, TypeOK, Points
<1>2. /\ pc[t] = "record" /\ pc' = [pc EXCEPT ![t] = "notify"]
      /\ recorded' = Append(recorded, n)
      /\ UNCHANGED <<jobs, queue, job, left, pool>>
      BY DEF Record
<1>3. n \in 1 .. Len(jobs) /\ n # 0
      BY <1>1, <1>2 DEF TypeOK
<1>4. Range(recorded') = Range(recorded) \cup {n}
      BY <1>1, <1>2, <1>3, RangeOfAppend
<1>5. /\ \A u \in Threads : job[u] = n => u = t
      /\ Verdict(jobs[n])
      BY <1>1, <1>2, <1>3 DEF Held
<1>6. n \notin Range(queue)
      BY <1>1 DEF Queued
<1>7. pc'[t] = "notify" /\ \A u \in Threads : u # t => pc'[u] = pc[u]
      BY <1>1, <1>2
<1>8. Queued'
      BY <1>1, <1>2, <1>4, <1>6 DEF Queued
<1>9. Held'
  <2>1. ASSUME NEW s \in Threads, s # t, job'[s] # 0
        PROVE  /\ \A u \in Threads : job'[u] = job'[s] => u = s
               /\ pc'[s] = "notify" <=> job'[s] \in Range(recorded')
               /\ pc'[s] \in {"post", "sleep"} => Underway(jobs'[job'[s]])
               /\ pc'[s] = "record" => Verdict(jobs'[job'[s]])
    <3>1. job[s] # n
          BY <1>5, <2>1
    <3> QED BY <1>1, <1>2, <1>4, <1>7, <2>1, <3>1 DEF Held
  <2>2. \A u \in Threads : job'[u] = job'[t] => u = t
        BY <1>2, <1>5
  <2> QED BY <1>2, <1>4, <1>7, <2>1, <2>2 DEF Held
<1>10. Concluded'
      BY <1>1, <1>2, <1>4, <1>5 DEF Concluded
<1>11. Somewhere'
      BY <1>1, <1>2, <1>4 DEF Somewhere
<1>12. Down'
  <2>1. \A w \in Workers : pc[w] = "idle" => pc'[w] = "idle"
        BY <1>2, <1>7 DEF Threads
  <2> QED BY <1>2, <2>1, StaysDown
<1> QED BY <1>8, <1>9, <1>10, <1>11, <1>12

LEMMA NotifyStep ==
    ASSUME HookInv, NEW t \in Threads, Notify(t)
    PROVE  Queued' /\ Held' /\ Concluded' /\ Somewhere' /\ Down'
<1>1. /\ TypeOK /\ Queued /\ Held /\ Concluded /\ Somewhere
      /\ pc \in [Threads -> Points]
      /\ job \in [Threads -> 0 .. Len(jobs)]
      BY DEF HookInv, TypeOK, Points
<1>2. /\ pc[t] = "notify" /\ job' = [job EXCEPT ![t] = 0]
      /\ \/ t \in Callers /\ pc' = [pc EXCEPT ![t] = "sync"]
         \/ t \notin Callers /\ pc' = [pc EXCEPT ![t] = "idle"]
      /\ UNCHANGED <<jobs, queue, left, deliveries, pool, recorded>>
      BY DEF Notify
<1>3. job[t] # 0
      BY <1>1, <1>2 DEF TypeOK
<1>4. job[t] \in Range(recorded)
      BY <1>1, <1>2, <1>3 DEF Held
<1>5. /\ job'[t] = 0
      /\ \A u \in Threads : u # t => pc'[u] = pc[u] /\ job'[u] = job[u]
      BY <1>1, <1>2
<1>6. Queued'
  <2>1. \A n \in Range(queue) : n # 0
        BY <1>1, NumbersInUse
  <2> QED BY <1>1, <1>2, <1>5, <2>1 DEF Queued
<1>7. Held'
      BY <1>1, <1>2, <1>5 DEF Held
<1>8. Concluded'
      BY <1>1, <1>2 DEF Concluded
<1>9. Somewhere'
  <2> SUFFICES ASSUME NEW n \in 1 .. Len(jobs')
               PROVE  n \in Range(queue') \/ n \in Range(recorded')
                      \/ \E u \in Threads : job'[u] = n
      BY DEF Somewhere
  <2>1. n \in Range(queue) \/ n \in Range(recorded) \/ \E u \in Threads : job[u] = n
        BY <1>1, <1>2 DEF Somewhere
  <2>2. ASSUME NEW u \in Threads, job[u] = n PROVE n \in Range(recorded) \/ job'[u] = n
        BY <1>4, <1>5, <2>2
  <2> QED BY <1>2, <2>1, <2>2
<1>10. Down'
  <2>1. \A w \in Workers : pc[w] = "idle" => pc'[w] = "idle"
        BY <1>2, <1>5 DEF Threads
  <2> QED BY <1>2, <2>1, StaysDown
<1> QED BY <1>6, <1>7, <1>8, <1>9, <1>10

(* A step of a call itself; those of its deliveries are above. *)
LEMMA CallStep ==
    ASSUME HookInv, NEW c \in Callers, Loop(c) \/ Call(c)
    PROVE  Queued' /\ Held' /\ Concluded' /\ Somewhere' /\ Down'
<1>1. c \in Threads /\ c \notin Workers
      BY WebhookAssumption DEF Threads
<1>2. TypeOK /\ pc \in [Threads -> Points]
      BY DEF HookInv, TypeOK, Points
<1>3. ASSUME UNCHANGED <<jobs, queue, job, deliveries, pool, recorded>>,
             pc[c] \in {"idle", "fire", "sync"},
             NEW v, pc' = [pc EXCEPT ![c] = v]
      PROVE  Queued' /\ Held' /\ Concluded' /\ Somewhere' /\ Down'
  <2>1. \A t \in Threads : t # c => pc'[t] = pc[t]
        BY <1>2, <1>3
  <2>2. job[c] = 0
        BY <1>1, <1>2, <1>3 DEF TypeOK
  <2>3. \A t \in Threads : job[t] # 0 => pc'[t] = pc[t]
        BY <2>1, <2>2
  <2>4. \A w \in Workers : pc[w] = "idle" => pc'[w] = "idle"
        BY <1>1, <2>1 DEF Threads
  <2> QED BY <1>3, <2>3, <2>4, QuietStep, StaysDown
<1>4. CASE SubmitRaises(c)
      BY <1>3, <1>4 DEF SubmitRaises
<1>5. CASE EndLoop(c)
      BY <1>3, <1>5 DEF EndLoop
<1>6. ASSUME NEW kind, NEW targets, BeginLoop(c, kind, targets)
      PROVE  Queued' /\ Held' /\ Concluded' /\ Somewhere' /\ Down'
      BY <1>3, <1>6 DEF BeginLoop
<1>7. CASE Call(c)
      BY <1>6, <1>7 DEF Call, Fire, FireSync, SendTest
<1> QED BY <1>4, <1>5, <1>7, SubmitStep, DeliverHereStep DEF Loop

LEMMA DeliverStep ==
    ASSUME HookInv, NEW t \in Threads, Deliver(t)
    PROVE  Queued' /\ Held' /\ Concluded' /\ Somewhere' /\ Down'
<1>1. CASE Wake(t)
  <2>1. /\ pc[t] = "sleep" /\ pc' = [pc EXCEPT ![t] = "post"]
        /\ UNCHANGED <<jobs, queue, job, left, deliveries, pool, recorded>>
        BY <1>1 DEF Wake
  <2>2. pc \in [Threads -> Points]
        BY DEF HookInv, TypeOK, Points
  <2>3. \A u \in Threads : pc'[u] = pc[u] \/ (pc[u] = "sleep" /\ pc'[u] = "post")
        BY <2>1, <2>2
  <2>4. \A w \in Workers : pc[w] = "idle" => pc'[w] = "idle"
        BY <2>3 DEF Threads
  <2> QED BY <2>1, <2>3, <2>4, QuietStep, StaysDown
<1> QED BY <1>1, TakeStep, PostStep, RecordStep, NotifyStep DEF Deliver

(* shutdown(), and its return. *)
LEMMA ShutdownStep ==
    ASSUME HookInv, Shutdown \/ ShutdownReturns
    PROVE  HookInv'
<1>1. /\ UNCHANGED <<jobs, queue, pc, job, left, deliveries, recorded>>
      /\ \/ pool' = "closing"
         \/ pool' = "down" /\ queue = <<>> /\ \A w \in Workers : pc[w] = "idle"
      BY DEF Shutdown, ShutdownReturns
<1>2. Queued' /\ Held' /\ Concluded' /\ Somewhere'
      BY <1>1, QuietStep
<1>3. Down'
      BY <1>1 DEF Down
<1>4. JobsTypes' /\ ThreadTypes'
  <2>1. JobsTypes /\ ThreadTypes
        BY TypeParts DEF HookInv
  <2> QED BY <1>1, <2>1 DEF JobsTypes, ThreadTypes, Points
<1> QED BY <1>2, <1>3, <1>4, TypeParts DEF HookInv

LEMMA HookStep == HookInv /\ [Next]_vars => HookInv'
<1> SUFFICES ASSUME HookInv, [Next]_vars PROVE HookInv'
    OBVIOUS
<1>1. ASSUME NEW t \in Threads, Deliver(t) PROVE HookInv'
  <2>1. pc[t] = "record" => job[t] \notin Range(recorded)
    <3>1. pc[t] = "record" => job[t] # 0
          BY DEF HookInv, TypeOK, Points
    <3> QED BY <3>1 DEF HookInv, Held
  <2>2. TypeOK'
        BY <1>1, <2>1, DeliverType DEF HookInv
  <2> QED BY <1>1, <2>2, DeliverStep DEF HookInv
<1>2. ASSUME NEW c \in Callers, Loop(c) PROVE HookInv'
      BY <1>2, LoopType, CallStep DEF HookInv
<1>3. ASSUME NEW c \in Callers, Call(c) PROVE HookInv'
      BY <1>3, CallType, CallStep DEF HookInv
<1>4. CASE Shutdown \/ ShutdownReturns
      BY <1>4, ShutdownStep
<1>5. CASE UNCHANGED vars
  <2>1. UNCHANGED <<jobs, queue, pc, job, left, deliveries, pool, recorded>>
        BY <1>5 DEF vars
  <2>2. Queued' /\ Held' /\ Concluded' /\ Somewhere'
        BY <2>1, QuietStep
  <2>3. Down'
        BY <2>1 DEF HookInv, Down
  <2>4. JobsTypes' /\ ThreadTypes'
    <3>1. JobsTypes /\ ThreadTypes
          BY TypeParts DEF HookInv
    <3> QED BY <2>1, <3>1 DEF JobsTypes, ThreadTypes, Points
  <2> QED BY <2>2, <2>3, <2>4, TypeParts DEF HookInv
<1> QED BY <1>1, <1>2, <1>3, <1>4, <1>5 DEF Next

LEMMA HookAlways == Spec => []HookInv
<1> QED BY HookInit, HookStep, PTL DEF Spec

-----------------------------------------------------------------------------
(***************************************************************************)
(* The theorems                                                            *)
(***************************************************************************)

(* The report is never longer than its limit, no delivery is recorded      *)
(* twice, and a thread is at a delivery exactly while it delivers          *)
(* (webhooks.py:219-279).                                                  *)
THEOREM HooksTypeCorrect == Spec => []TypeOK
<1>1. HookInv => TypeOK
      BY DEF HookInv
<1> QED BY <1>1, HookAlways, PTL

(* A recorded verdict is right for every retry_count, zero and negative    *)
(* ones included: success was accepted, failure used up its attempts and   *)
(* says why, and only a late answer makes the endpoint accept it twice     *)
(* (webhooks.py:219-265).                                                  *)
THEOREM VerdictsAreRight == Spec => []VerdictIsRight
<1>1. HookInv => VerdictIsRight
      BY DEF HookInv, Concluded, Verdict, VerdictIsRight
<1> QED BY <1>1, HookAlways, PTL

(* shutdown(wait=True) returns with nothing left to the pool, however many *)
(* threads it has and whoever was in the middle of firing                  *)
(* (webhooks.py:184-186).                                                  *)
THEOREM ShutdownLeavesNothing == Spec => []ShutdownDrains
<1>1. ASSUME HookInv PROVE ShutdownDrains
  <2> SUFFICES ASSUME pool = "down", NEW n \in 1 .. Len(jobs), n \notin Range(recorded)
               PROVE  \E c \in Callers : job[c] = n
      BY DEF ShutdownDrains
  <2>1. queue = <<>> /\ \A w \in Workers : pc[w] = "idle"
        BY <1>1 DEF HookInv, Down
  <2>2. Range(queue) = {}
        BY <2>1 DEF Range
  <2>3. PICK t \in Threads : job[t] = n
        BY <1>1, <2>2 DEF HookInv, Somewhere
  <2>4. job[t] # 0
        BY <2>3
  <2>5. t \notin Workers
        BY <1>1, <2>1, <2>4 DEF HookInv, TypeOK, Points
  <2> QED BY <2>3, <2>5 DEF Threads
<1> QED BY <1>1, HookAlways, PTL

-----------------------------------------------------------------------------
(***************************************************************************)
(* Every delivery goes on, and comes to an end                             *)
(***************************************************************************)

At(n, p) == \E t \in Threads : job[t] = n /\ pc[t] = p

(* The steps that are left until a delivery is recorded: one to take it    *)
(* from the queue or to wake up, for each attempt the post and what comes  *)
(* after it.                                                               *)
Owed(n) ==
    IF n \in Range(recorded) THEN 0
    ELSE IF At(n, "record") THEN 1
    ELSE 2 * (Attempts(jobs[n].webhook) - jobs[n].attempts) + (IF At(n, "post") THEN 0 ELSE 1)

(* The attempts a delivery still has, as numbers. *)
LEMMA AttemptsLeft ==
    ASSUME NEW d \in Delivery
    PROVE  d.attempts \in Int /\ Attempts(d.webhook) \in Int
<1>1. d.attempts \in Nat /\ d.webhook \in Webhooks
      BY DEF Delivery
<1> QED BY <1>1, AttemptsArePositive

(* What a delivery in the hands of a thread still needs. *)
HeldOwes ==
    \A t \in Threads : \A n \in 1 .. Len(jobs) : job[t] = n =>
      /\ pc[t] \in {"post", "sleep", "record", "notify"}
      /\ jobs[n] \in Delivery
      /\ pc[t] = "notify" => Owed(n) = 0
      /\ pc[t] = "record" => Owed(n) = 1
      /\ pc[t] = "post" =>
           Owed(n) = 2 * (Attempts(jobs[n].webhook) - jobs[n].attempts)
      /\ pc[t] = "sleep" =>
           Owed(n) = 2 * (Attempts(jobs[n].webhook) - jobs[n].attempts) + 1
      /\ pc[t] \in {"post", "sleep"} => jobs[n].attempts < Attempts(jobs[n].webhook)

LEMMA HeldOwed == HookInv => HeldOwes
<1> SUFFICES ASSUME HookInv, NEW t \in Threads, NEW n \in 1 .. Len(jobs), job[t] = n
             PROVE  /\ pc[t] \in {"post", "sleep", "record", "notify"}
                    /\ jobs[n] \in Delivery
                    /\ pc[t] = "notify" => Owed(n) = 0
                    /\ pc[t] = "record" => Owed(n) = 1
                    /\ pc[t] = "post" =>
                         Owed(n) = 2 * (Attempts(jobs[n].webhook) - jobs[n].attempts)
                    /\ pc[t] = "sleep" =>
                         Owed(n) = 2 * (Attempts(jobs[n].webhook) - jobs[n].attempts) + 1
                    /\ pc[t] \in {"post", "sleep"} =>
                         jobs[n].attempts < Attempts(jobs[n].webhook)
    BY DEF HeldOwes
<1>1. TypeOK /\ Held /\ n # 0
      BY NumbersInUse DEF HookInv
<1>2. pc[t] \in {"post", "sleep", "record", "notify"}
      BY <1>1 DEF TypeOK
<1>3. jobs[n] \in Delivery
      BY <1>1, ElementOfSeq DEF TypeOK
<1>4. /\ \A u \in Threads : job[u] = n => u = t
      /\ pc[t] = "notify" <=> n \in Range(recorded)
      /\ pc[t] \in {"post", "sleep"} => Underway(jobs[n])
      BY <1>1 DEF Held
<1>5. \A p \in Points : At(n, p) <=> pc[t] = p
      BY <1>4 DEF At
<1>6. At(n, "record") <=> pc[t] = "record"
      BY <1>5 DEF Points
<1>7. At(n, "post") <=> pc[t] = "post"
      BY <1>5 DEF Points
<1>8. /\ jobs[n].attempts \in Int /\ Attempts(jobs[n].webhook) \in Int
      BY <1>3, AttemptsLeft
<1>9. pc[t] \in {"post", "sleep"} => jobs[n].attempts < Attempts(jobs[n].webhook)
      BY <1>4 DEF Underway
<1> QED BY <1>2, <1>3, <1>4, <1>6, <1>7, <1>8, <1>9 DEF Owed

LEMMA HeldOwedNext == HookInv' => HeldOwes'
BY HeldOwed, PTL

(* What no step touches needs what it needed. *)
LEMMA OwedKept ==
    ASSUME NEW n, jobs'[n] = jobs[n], n \in Range(recorded') <=> n \in Range(recorded),
           \A u \in Threads : job'[u] = n <=> job[u] = n,
           \A u \in Threads : job[u] = n => pc'[u] = pc[u]
    PROVE  Owed(n)' = Owed(n)
<1>1. (At(n, "record")' <=> At(n, "record")) /\ (At(n, "post")' <=> At(n, "post"))
      BY DEF At
<1> QED BY <1>1, Zenon DEF Owed

(* How a step leaves the delivery n: no further from its end, nearer if it *)
(* is a step of the thread that has it, and as it is once it is recorded.  *)
GoesOn(n) ==
    /\ Owed(n)' <= Owed(n)
    /\ n \in Range(recorded) => jobs'[n] = jobs[n]
    /\ \A t \in Threads :
         job[t] = n /\ pc[t] # "notify" /\ pc'[t] # pc[t] => Owed(n)' < Owed(n)

(* A delivery that is begun needs at least one step until it is recorded,  *)
(* and none afterwards.                                                    *)
Owing ==
    \A n \in 1 .. Len(jobs) :
      Owed(n) \in Nat /\ (n \notin Range(recorded) => Owed(n) > 0)

LEMMA AllOwe == HookInv => Owing
<1> SUFFICES ASSUME HookInv, NEW n \in 1 .. Len(jobs)
             PROVE  Owed(n) \in Nat /\ (n \notin Range(recorded) => Owed(n) > 0)
    BY DEF Owing
<1>1. CASE n \in Range(recorded)
      BY <1>1 DEF Owed
<1>2. CASE n \in Range(queue)
  <2>1. /\ Underway(jobs[n]) /\ n \notin Range(recorded)
        /\ ~At(n, "record") /\ ~At(n, "post")
        BY <1>2 DEF HookInv, Queued, At
  <2>2. jobs[n] \in Delivery
        BY ElementOfSeq DEF HookInv, TypeOK
  <2>3. jobs[n].attempts \in Int /\ Attempts(jobs[n].webhook) \in Int
        BY <2>2, AttemptsLeft
  <2>4. Owed(n) = 2 * (Attempts(jobs[n].webhook) - jobs[n].attempts) + 1
        BY <2>1 DEF Owed
  <2>5. jobs[n].attempts < Attempts(jobs[n].webhook)
        BY <2>1 DEF Underway
  <2> QED BY <2>3, <2>4, <2>5
<1>3. CASE n \notin Range(recorded) /\ n \notin Range(queue)
  <2>1. PICK t \in Threads : job[t] = n
        BY <1>3 DEF HookInv, Somewhere
  <2>2. n # 0 /\ pc[t] # "notify"
        BY <1>3, <2>1, NumbersInUse DEF HookInv, Held
  <2>3. /\ pc[t] \in {"post", "sleep", "record", "notify"}
        /\ jobs[n] \in Delivery
        /\ pc[t] = "record" => Owed(n) = 1
        /\ pc[t] = "post" =>
             Owed(n) = 2 * (Attempts(jobs[n].webhook) - jobs[n].attempts)
        /\ pc[t] = "sleep" =>
             Owed(n) = 2 * (Attempts(jobs[n].webhook) - jobs[n].attempts) + 1
        /\ pc[t] \in {"post", "sleep"} => jobs[n].attempts < Attempts(jobs[n].webhook)
        BY <2>1, HeldOwed DEF HeldOwes
  <2>4. jobs[n].attempts \in Int /\ Attempts(jobs[n].webhook) \in Int
        BY <2>3, AttemptsLeft
  <2> QED BY <2>2, <2>3, <2>4
<1> QED BY <1>1, <1>2, <1>3

(* A step that leaves the delivery n where it is. *)
LEMMA GoesOnUntouched ==
    ASSUME HookInv, NEW n \in 1 .. Len(jobs), jobs'[n] = jobs[n],
           n \in Range(recorded') <=> n \in Range(recorded),
           \A u \in Threads : job'[u] = n <=> job[u] = n,
           \A u \in Threads : job[u] = n => pc'[u] = pc[u]
    PROVE  GoesOn(n)
<1>1. Owed(n)' = Owed(n)
      BY OwedKept
<1>2. Owed(n) \in Nat
      BY AllOwe DEF Owing
<1> QED BY <1>1, <1>2 DEF GoesOn

(* A step of a thread at one of its deliveries leaves the others alone.    *)
LEMMA GoesOnBeside ==
    ASSUME HookInv, NEW t \in Threads, NEW n \in 1 .. Len(jobs),
           job[t] # n, job'[t] # n, jobs'[n] = jobs[n],
           n \in Range(recorded') <=> n \in Range(recorded),
           \A u \in Threads : u # t => job'[u] = job[u] /\ pc'[u] = pc[u]
    PROVE  GoesOn(n)
<1>1. \A u \in Threads : job'[u] = n <=> job[u] = n
      OBVIOUS
<1>2. \A u \in Threads : job[u] = n => pc'[u] = pc[u]
      OBVIOUS
<1> QED BY <1>1, <1>2, GoesOnUntouched

LEMMA TakeGoesOn ==
    ASSUME HookInv, HookInv', NEW t \in Threads, Take(t), NEW n \in 1 .. Len(jobs)
    PROVE  GoesOn(n)
<1>1. /\ pc \in [Threads -> Points] /\ job \in [Threads -> 0 .. Len(jobs)]
      /\ queue \in Seq(1 .. Len(jobs)) /\ pc[t] = "idle" /\ queue # <<>>
      /\ job' = [job EXCEPT ![t] = Head(queue)] /\ pc' = [pc EXCEPT ![t] = "post"]
      /\ UNCHANGED <<jobs, deliveries, recorded>>
      BY DEF HookInv, TypeOK, Points, Take
<1>2. /\ job'[t] = Head(queue) /\ pc'[t] = "post" /\ job[t] # n
      /\ \A u \in Threads : u # t => job'[u] = job[u] /\ pc'[u] = pc[u]
  <2>1. job[t] = 0
        BY <1>1 DEF HookInv, TypeOK
  <2> QED BY <1>1, <2>1
<1>3. CASE n # Head(queue)
      BY <1>1, <1>2, <1>3, GoesOnBeside
<1>4. CASE n = Head(queue)
  <2>1. n \in Range(queue)
        BY <1>1, <1>4, RangeOfTail
  <2>2. n \notin Range(recorded) /\ \A u \in Threads : job[u] # n
        BY <2>1 DEF HookInv, Queued
  <2>3. Owed(n) = 2 * (Attempts(jobs[n].webhook) - jobs[n].attempts) + 1
        BY <2>2 DEF Owed, At
  <2>4. /\ jobs[n] \in Delivery
        /\ Owed(n)' = 2 * (Attempts(jobs[n].webhook) - jobs[n].attempts)
    <3>1. HeldOwes' /\ jobs' = jobs /\ n \in 1 .. Len(jobs')
          BY <1>1, HeldOwedNext
    <3>2. /\ jobs'[n] \in Delivery
          /\ Owed(n)' = 2 * (Attempts(jobs'[n].webhook) - jobs'[n].attempts)
          BY <1>2, <1>4, <3>1 DEF HeldOwes
    <3> QED BY <3>1, <3>2
  <2>5. jobs[n].attempts \in Int /\ Attempts(jobs[n].webhook) \in Int
        BY <2>4, AttemptsLeft
  <2>6. Owed(n)' < Owed(n) /\ Owed(n)' <= Owed(n)
        BY <2>3, <2>4, <2>5
  <2> QED BY <2>2, <2>6 DEF GoesOn
<1> QED BY <1>3, <1>4

LEMMA PostGoesOn ==
    ASSUME HookInv, HookInv', NEW t \in Threads, NEW answer \in {"accepted", "failed", "late"},
           Post(t, answer), NEW n \in 1 .. Len(jobs)
    PROVE  GoesOn(n)
<1>1. /\ pc \in [Threads -> Points] /\ pc[t] = "post"
      /\ UNCHANGED <<queue, job, left, deliveries, pool, recorded>>
      /\ pc' = [pc EXCEPT ![t] =
             IF answer = "accepted"
                \/ jobs[job[t]].attempts + 1 = Attempts(jobs[job[t]].webhook)
             THEN "record" ELSE "sleep"]
      BY DEF HookInv, TypeOK, Points, Post
<1>2. /\ job[t] \in 1 .. Len(jobs) /\ Len(jobs') = Len(jobs)
      /\ \A m \in 1 .. Len(jobs) : m # job[t] => jobs'[m] = jobs[m]
      /\ Attempted(jobs[job[t]], jobs'[job[t]], answer)
      BY PostChangesOne DEF HookInv
<1>3. \A u \in Threads : u # t => job'[u] = job[u] /\ pc'[u] = pc[u]
      BY <1>1
<1>4. CASE job[t] # n
      BY <1>1, <1>2, <1>3, <1>4, GoesOnBeside
<1>5. CASE job[t] = n
  <2>1. /\ jobs[n] \in Delivery /\ jobs[n].attempts < Attempts(jobs[n].webhook)
        /\ Owed(n) = 2 * (Attempts(jobs[n].webhook) - jobs[n].attempts)
        /\ n \notin Range(recorded)
    <3>1. HeldOwes /\ n # 0
          BY HeldOwed
    <3>2. n \notin Range(recorded)
          BY <1>1, <1>5, <3>1 DEF HookInv, Held
    <3> QED BY <1>1, <1>5, <3>1, <3>2 DEF HeldOwes
  <2>2. jobs[n].attempts \in Int /\ Attempts(jobs[n].webhook) \in Int
        BY <2>1, AttemptsLeft
  <2>3. /\ jobs'[n].webhook = jobs[n].webhook
        /\ jobs'[n].attempts = jobs[n].attempts + 1
        BY <1>2, <1>5 DEF Attempted
  <2>4. /\ job'[t] = n /\ n \in 1 .. Len(jobs') /\ HeldOwes'
        /\ pc'[t] = "record" \/ pc'[t] = "sleep"
        BY <1>1, <1>2, <1>5, HeldOwedNext
  <2>5. CASE pc'[t] = "record"
    <3>1. Owed(n)' = 1
          BY <2>4, <2>5 DEF HeldOwes
    <3>2. Owed(n)' < Owed(n) /\ Owed(n)' <= Owed(n)
          BY <2>1, <2>2, <3>1
    <3> QED BY <2>1, <3>2 DEF GoesOn
  <2>6. CASE pc'[t] = "sleep"
    <3>1. Owed(n)' = 2 * (Attempts(jobs'[n].webhook) - jobs'[n].attempts) + 1
          BY <2>4, <2>6 DEF HeldOwes
    <3>2. Owed(n)' = 2 * (Attempts(jobs[n].webhook) - (jobs[n].attempts + 1)) + 1
          BY <2>3, <3>1
    <3>3. Owed(n)' < Owed(n) /\ Owed(n)' <= Owed(n)
          BY <2>1, <2>2, <3>2
    <3> QED BY <2>1, <3>3 DEF GoesOn
  <2> QED BY <2>4, <2>5, <2>6
<1> QED BY <1>4, <1>5

LEMMA WakeGoesOn ==
    ASSUME HookInv, HookInv', NEW t \in Threads, Wake(t), NEW n \in 1 .. Len(jobs)
    PROVE  GoesOn(n)
<1>1. /\ pc \in [Threads -> Points] /\ pc[t] = "sleep" /\ pc' = [pc EXCEPT ![t] = "post"]
      /\ UNCHANGED <<jobs, queue, job, left, deliveries, pool, recorded>>
      BY DEF HookInv, TypeOK, Points, Wake
<1>2. \A u \in Threads : u # t => job'[u] = job[u] /\ pc'[u] = pc[u]
      BY <1>1
<1>3. CASE job[t] # n
      BY <1>1, <1>2, <1>3, GoesOnBeside
<1>4. CASE job[t] = n
  <2>1. /\ jobs[n] \in Delivery /\ n \notin Range(recorded)
        /\ Owed(n) = 2 * (Attempts(jobs[n].webhook) - jobs[n].attempts) + 1
    <3>1. HeldOwes /\ n # 0
          BY HeldOwed
    <3>2. n \notin Range(recorded)
          BY <1>1, <1>4, <3>1 DEF HookInv, Held
    <3> QED BY <1>1, <1>4, <3>1, <3>2 DEF HeldOwes
  <2>2. jobs[n].attempts \in Int /\ Attempts(jobs[n].webhook) \in Int
        BY <2>1, AttemptsLeft
  <2>3. Owed(n)' = 2 * (Attempts(jobs[n].webhook) - jobs[n].attempts)
    <3>1. HeldOwes' /\ jobs' = jobs /\ job'[t] = n /\ pc'[t] = "post"
          BY <1>1, <1>4, HeldOwedNext
    <3> QED BY <3>1 DEF HeldOwes
  <2>4. Owed(n)' < Owed(n) /\ Owed(n)' <= Owed(n)
        BY <2>1, <2>2, <2>3
  <2> QED BY <2>1, <2>4 DEF GoesOn
<1> QED BY <1>3, <1>4

LEMMA RecordGoesOn ==
    ASSUME HookInv, HookInv', NEW t \in Threads, Record(t), NEW n \in 1 .. Len(jobs)
    PROVE  GoesOn(n)
<1>1. /\ pc \in [Threads -> Points] /\ pc[t] = "record"
      /\ pc' = [pc EXCEPT ![t] = "notify"]
      /\ job \in [Threads -> 0 .. Len(jobs)] /\ recorded \in Seq(1 .. Len(jobs))
      /\ recorded' = Append(recorded, job[t])
      /\ UNCHANGED <<jobs, queue, job, left, pool>>
      BY DEF HookInv, TypeOK, Points, Record
<1>2. \A u \in Threads : u # t => job'[u] = job[u] /\ pc'[u] = pc[u]
      BY <1>1
<1>3. job[t] \in 1 .. Len(jobs)
  <2>1. job[t] # 0
        BY <1>1 DEF HookInv, TypeOK
  <2> QED BY <1>1, <2>1
<1>4. Range(recorded') = Range(recorded) \cup {job[t]}
  <2>1. \A k \in 1 .. Len(jobs) : Range(Append(recorded, k)) = Range(recorded) \cup {k}
        BY <1>1, RangeOfAppend
  <2> QED BY <1>1, <1>3, <2>1
<1>5. CASE job[t] # n
      BY <1>1, <1>2, <1>4, <1>5, GoesOnBeside
<1>6. CASE job[t] = n
  <2>1. HeldOwes /\ HeldOwes' /\ pc'[t] = "notify" /\ job'[t] = n /\ jobs' = jobs
        BY <1>1, <1>6, HeldOwed, HeldOwedNext
  <2>2. Owed(n) = 1 /\ Owed(n)' = 0
        BY <1>1, <1>6, <2>1 DEF HeldOwes
  <2> QED BY <2>1, <2>2 DEF GoesOn
<1> QED BY <1>5, <1>6

LEMMA NotifyGoesOn ==
    ASSUME HookInv, HookInv', NEW t \in Threads, Notify(t), NEW n \in 1 .. Len(jobs)
    PROVE  GoesOn(n)
<1>1. /\ pc \in [Threads -> Points] /\ pc[t] = "notify"
      /\ job \in [Threads -> 0 .. Len(jobs)]
      /\ job' = [job EXCEPT ![t] = 0]
      /\ \/ pc' = [pc EXCEPT ![t] = "sync"]
         \/ pc' = [pc EXCEPT ![t] = "idle"]
      /\ UNCHANGED <<jobs, queue, left, deliveries, pool, recorded>>
      BY DEF HookInv, TypeOK, Points, Notify
<1>2. /\ job'[t] = 0
      /\ \A u \in Threads : u # t => job'[u] = job[u] /\ pc'[u] = pc[u]
      BY <1>1
<1>3. CASE job[t] # n
      BY <1>1, <1>2, <1>3, GoesOnBeside
<1>4. CASE job[t] = n
  <2>1. n # 0 /\ n \in Range(recorded)
        BY <1>1, <1>4 DEF HookInv, Held
  <2>2. /\ Owed(n) = 0 /\ Owed(n)' = 0
        /\ \A u \in Threads : job[u] = n => u = t
        BY <1>1, <1>4, <2>1 DEF Owed, HookInv, Held
  <2> QED BY <1>1, <2>2 DEF GoesOn
<1> QED BY <1>3, <1>4

(* Calls, their loops and the shutdown touch no delivery that is begun.    *)
LEMMA CallGoesOn ==
    ASSUME HookInv, NEW c \in Callers, Loop(c) \/ Call(c), NEW n \in 1 .. Len(jobs)
    PROVE  GoesOn(n)
<1>1. /\ c \in Threads /\ pc \in [Threads -> Points]
      /\ job \in [Threads -> 0 .. Len(jobs)] /\ JobsTypes
      /\ pc[c] \in {"idle", "fire", "sync"} => job[c] = 0
      BY TypeParts DEF HookInv, TypeOK, Points, Threads
<1>2. n # 0 /\ n # Len(jobs) + 1
      BY NumbersInUse DEF HookInv
<1>3. ASSUME pc[c] \in {"idle", "fire", "sync"}, jobs'[n] = jobs[n], recorded' = recorded,
             job'[c] # n, \A u \in Threads : u # c => job'[u] = job[u] /\ pc'[u] = pc[u]
      PROVE  GoesOn(n)
      BY <1>1, <1>2, <1>3, GoesOnBeside
<1>4. CASE Submit(c) \/ DeliverHere(c)
  <2>1. pc[c] \in {"fire", "sync"} /\ left[c] \in Seq(Webhooks) /\ left[c] # <<>>
        BY <1>4 DEF Submit, DeliverHere, HookInv, TypeOK
  <2>2. Head(left[c]) \in Webhooks
        BY <2>1, HeadTailProperties
  <2>3. jobs' = Append(jobs, Begun(Head(left[c]))) /\ recorded' = recorded
        BY <1>4 DEF Submit, DeliverHere
  <2>4. jobs'[n] = jobs[n]
        BY <1>1, <2>2, <2>3, JobsGrow
  <2>5. job'[c] # n /\ \A u \in Threads : u # c => job'[u] = job[u] /\ pc'[u] = pc[u]
    <3>1. CASE Submit(c)
          BY <1>1, <1>2, <2>1, <3>1 DEF Submit
    <3>2. CASE DeliverHere(c)
          BY <1>1, <1>2, <2>1, <3>2 DEF DeliverHere
    <3> QED BY <1>4, <3>1, <3>2
  <2> QED BY <1>3, <2>1, <2>3, <2>4, <2>5
<1>5. ASSUME UNCHANGED <<jobs, queue, job, recorded>>, pc[c] \in {"idle", "fire", "sync"},
             NEW v, pc' = [pc EXCEPT ![c] = v]
      PROVE  GoesOn(n)
  <2>1. job'[c] # n /\ \A u \in Threads : u # c => job'[u] = job[u] /\ pc'[u] = pc[u]
        BY <1>1, <1>2, <1>5
  <2> QED BY <1>3, <1>5, <2>1
<1>6. CASE SubmitRaises(c)
      BY <1>5, <1>6 DEF SubmitRaises
<1>7. CASE EndLoop(c)
      BY <1>5, <1>7 DEF EndLoop
<1>8. ASSUME NEW kind, NEW targets, BeginLoop(c, kind, targets)
      PROVE  GoesOn(n)
      BY <1>5, <1>8 DEF BeginLoop
<1>9. CASE Call(c)
      BY <1>8, <1>9 DEF Call, Fire, FireSync, SendTest
<1> QED BY <1>4, <1>6, <1>7, <1>9 DEF Loop

(* No step takes a delivery away from its end: what it still needs until   *)
(* it is recorded never grows, not by a retry either, and every step of    *)
(* the thread that has it makes it less; what is recorded stays as it is,  *)
(* so a report shows a delivery as it ended (webhooks.py:219-279).         *)
THEOREM DeliveriesGoOn == Spec => [][\A n \in 1 .. Len(jobs) : GoesOn(n)]_vars
<1>1. ASSUME HookInv, Next PROVE \A n \in 1 .. Len(jobs) : GoesOn(n)
  <2>1. HookInv'
        BY <1>1, HookStep
  <2> TAKE n \in 1 .. Len(jobs)
  <2>2. ASSUME NEW t \in Threads, Deliver(t) PROVE GoesOn(n)
        BY <1>1, <2>1, <2>2, TakeGoesOn, PostGoesOn, WakeGoesOn, RecordGoesOn,
           NotifyGoesOn DEF Deliver
  <2>3. ASSUME NEW c \in Callers, Loop(c) \/ Call(c) PROVE GoesOn(n)
        BY <1>1, <2>3, CallGoesOn
  <2>4. CASE Shutdown \/ ShutdownReturns
    <3>1. UNCHANGED <<jobs, queue, pc, job, left, deliveries, recorded>>
          BY <2>4 DEF Shutdown, ShutdownReturns
    <3> QED BY <1>1, <3>1, GoesOnUntouched
  <2> QED BY <1>1, <2>2, <2>3, <2>4 DEF Next
<1> QED BY <1>1, HookAlways, PTL DEF Spec

(* What a thread of the pool or of a caller can do by itself. *)
Ready(t) ==
    \/ pc[t] \in {"post", "sleep", "record", "notify"}
    \/ t \in Workers /\ pc[t] = "idle" /\ queue # <<>>

NeverStuck ==
    \A n \in 1 .. Len(jobs) : n \notin Range(recorded) =>
      /\ Owed(n) \in Nat \ {0}
      /\ \E t \in Threads : Ready(t)

(* Whatever is begun and not recorded needs a number of steps that is      *)
(* known, and some thread can go on, also when the pool is shut down: with *)
(* DeliveriesGoOn this leaves BegunIsRecorded to the fairness of the       *)
(* threads (webhooks.py:122, 184-186, 222-279).                            *)
THEOREM DeliveriesNeverStuck == Spec => []NeverStuck
<1>1. ASSUME HookInv PROVE NeverStuck
  <2> SUFFICES ASSUME NEW n \in 1 .. Len(jobs), n \notin Range(recorded)
               PROVE  Owed(n) \in Nat \ {0} /\ \E t \in Threads : Ready(t)
      BY DEF NeverStuck
  <2>1. Owed(n) \in Nat \ {0}
        BY <1>1, AllOwe DEF Owing
  <2>2. CASE n \in Range(queue)
    <3>1. PICK w \in Workers : TRUE
          BY WebhookAssumption
    <3>2. queue # <<>> /\ w \in Threads
          BY <2>2 DEF Range, Threads
    <3>3. Ready(w)
          BY <1>1, <3>2 DEF Ready, HookInv, TypeOK
    <3> QED BY <2>1, <3>2, <3>3
  <2>3. CASE n \notin Range(queue)
    <3>1. PICK t \in Threads : job[t] = n
          BY <1>1, <2>3 DEF HookInv, Somewhere
    <3>2. Ready(t)
          BY <1>1, <3>1, HeldOwed DEF HeldOwes, Ready
    <3> QED BY <2>1, <3>2
  <2> QED BY <2>2, <2>3
<1> QED BY <1>1, HookAlways, PTL

(* The report is always the last of what was recorded, in its order,       *)
(* however the threads that record come to the lock (webhooks.py:273-279). *)
ReportIsLast == deliveries = LastOf(recorded, MaxDeliveries)

THEOREM ReportShowsTheLast == Spec => []ReportIsLast
<1>1. Init => ReportIsLast
      BY WebhookAssumption DEF Init, ReportIsLast, LastOf
<1>2. HookInv /\ ReportIsLast /\ [Next]_vars => ReportIsLast'
  <2> SUFFICES ASSUME HookInv, ReportIsLast, [Next]_vars PROVE ReportIsLast'
      OBVIOUS
  <2>1. ASSUME UNCHANGED <<deliveries, recorded>> PROVE ReportIsLast'
        BY <2>1 DEF ReportIsLast
  <2>2. ASSUME NEW t \in Threads, Record(t) PROVE ReportIsLast'
    <3>1. /\ deliveries' = LastOf(Append(deliveries, job[t]), MaxDeliveries)
          /\ recorded' = Append(recorded, job[t])
          /\ recorded \in Seq(1 .. Len(jobs)) /\ job[t] \in 1 .. Len(jobs)
      <4>1. job[t] # 0 /\ job[t] \in 0 .. Len(jobs) /\ Len(jobs) \in Nat
            BY <2>2, NumbersInUse DEF Record, HookInv, TypeOK
      <4> QED BY <2>2, <4>1 DEF Record, HookInv, TypeOK
    <3>2. LastOf(Append(LastOf(recorded, MaxDeliveries), job[t]), MaxDeliveries)
            = LastOf(Append(recorded, job[t]), MaxDeliveries)
      <4>1. recorded \in Seq(1 .. Len(jobs)) /\ MaxDeliveries \in Nat \ {0}
            BY <3>1, WebhookAssumption
      <4> DEFINE k == job[t]
      <4>2. k \in 1 .. Len(jobs)
            BY <3>1
      <4> HIDE DEF k
      <4>3. LastOf(Append(LastOf(recorded, MaxDeliveries), k), MaxDeliveries)
              = LastOf(Append(recorded, k), MaxDeliveries)
            BY <4>1, <4>2, LastOfLast
      <4> QED BY <4>3 DEF k
    <3> QED BY <3>1, <3>2 DEF ReportIsLast
  <2>3. ASSUME NEW t \in Threads, Deliver(t) PROVE ReportIsLast'
        BY <2>1, <2>2, <2>3 DEF Deliver, Take, Post, Wake, Notify
  <2>4. ASSUME NEW c \in Callers, Loop(c) \/ Call(c) PROVE ReportIsLast'
        BY <2>1, <2>4 DEF Loop, Call, Submit, SubmitRaises, DeliverHere, EndLoop, Fire,
           FireSync, SendTest, BeginLoop
  <2>5. CASE Shutdown \/ ShutdownReturns \/ UNCHANGED vars
        BY <2>1, <2>5 DEF Shutdown, ShutdownReturns, vars
  <2> QED BY <2>3, <2>4, <2>5 DEF Next
<1> QED BY <1>1, <1>2, HookAlways, PTL DEF Spec

=============================================================================
