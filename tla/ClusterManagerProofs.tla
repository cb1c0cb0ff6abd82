------------------------ MODULE ClusterManagerProofs ------------------------
(***************************************************************************)
(* Proofs about ClusterManager, for every number of hosts, roles and       *)
(* callers and every list of orders.                                       *)
(*                                                                         *)
(* The first half is about data: ordered_groups() of any order visits      *)
(* every host, one whose role comes earlier before one whose role comes    *)
(* later, and twice only a host whose role the order names twice.  The     *)
(* second half is about the calls: what a run has done when it is at some  *)
(* place of the groups, who wrote what the file says, how many steps a run *)
(* has left, and when a second one can begin beside it.                    *)
(***************************************************************************)
EXTENDS ClusterManager, SequenceTheorems, FiniteSetTheorems, WellFoundedInduction, TLAPS

-----------------------------------------------------------------------------
(***************************************************************************)
(* Induction over the natural numbers, for sets of numbers                 *)
(***************************************************************************)

(* A set of numbers that is not empty has a least element. *)
LEMMA Least ==
    ASSUME NEW T, T \subseteq Nat, T # {}
    PROVE  \E n \in T : \A m \in T : n <= m
<1> DEFINE R == OpToRel(<, Nat)
<1>1. IsWellFoundedOn(R, Nat)
      BY NatLessThanWellFounded
<1>2. \A x, y \in Nat : x < y => <<x, y>> \in R
      BY DEF OpToRel
<1> HIDE DEF R
<1>3. PICK x \in T : \A y \in T : ~ (<<y, x>> \in R)
      BY <1>1, WFMin
<1>4. \A y \in T : ~ (y < x)
      BY <1>2, <1>3
<1>5. \A y \in T : y \in Nat /\ x \in Nat
      OBVIOUS
<1>6. \A y \in T : x <= y
      BY <1>4, <1>5
<1> QED BY <1>6

(* A set with 0 and the successors of its numbers holds all the numbers. *)
LEMMA Induct ==
    ASSUME NEW T, 0 \in T, \A n \in Nat : n \in T => n + 1 \in T
    PROVE  Nat \subseteq T
<1> SUFFICES ASSUME Nat \ T # {} PROVE FALSE
    OBVIOUS
<1>1. PICK n \in Nat \ T : \A m \in Nat \ T : n <= m
      BY Least
<1>2. n # 0 /\ n - 1 \in Nat
      OBVIOUS
<1>3. n - 1 \in T
      BY <1>1, <1>2
<1>4. n \in T
      BY <1>2, <1>3
<1> QED BY <1>4

-----------------------------------------------------------------------------
(***************************************************************************)
(* The elements that KeepIn keeps                                          *)
(***************************************************************************)

(* The function in KeepIn exists: it is built up one element at a time. *)
LEMMA KeepInStepwise ==
    ASSUME NEW X, NEW s \in Seq(X), NEW S
    PROVE  \E F : /\ KeepIn(s, S) = F[Len(s)]
                 /\ F[0] = <<>>
                 /\ \A n \in 1 .. Len(s) :
                      F[n] = IF s[n] \in S THEN Append(F[n - 1], s[n]) ELSE F[n - 1]
<1> DEFINE Turn(f, n) ==
             IF n = 0 THEN <<>>
             ELSE IF s[n] \in S THEN Append(f[n - 1], s[n]) ELSE f[n - 1]
<1> DEFINE T == {k \in Nat : \E f : f = [n \in 0 .. k |-> Turn(f, n)]}
<1>1. Len(s) \in Nat
      BY LenProperties
<1>2. 0 \in T
  <2>1. [n \in 0 .. 0 |-> <<>>] = [n \in 0 .. 0 |-> Turn([m \in 0 .. 0 |-> <<>>], n)]
        OBVIOUS
  <2> QED BY <2>1
<1>3. ASSUME NEW k \in Nat, k \in T PROVE k + 1 \in T
  <2> HIDE DEF Turn
  <2>1. PICK f : f = [n \in 0 .. k |-> Turn(f, n)]
        BY <1>3
  <2> DEFINE g == [n \in 0 .. k + 1 |-> IF n <= k THEN f[n] ELSE Turn(f, n)]
  <2>2. ASSUME NEW n \in 0 .. k + 1 PROVE g[n] = Turn(g, n)
    <3>1. g[n] = IF n <= k THEN f[n] ELSE Turn(f, n)
          OBVIOUS
    <3>2. n # 0 => g[n - 1] = f[n - 1]
          OBVIOUS
    <3>3. Turn(g, n) = Turn(f, n)
          BY <3>2 DEF Turn
    <3>4. n <= k => f[n] = Turn(f, n)
          BY <2>1
    <3> HIDE DEF g
    <3> QED BY <3>1, <3>3, <3>4
  <2>3. g = [n \in 0 .. k + 1 |-> Turn(g, n)]
        BY <2>2
  <2> HIDE DEF g
  <2>4. \E h : h = [n \in 0 .. k + 1 |-> Turn(h, n)]
        BY <2>3
  <2> QED BY <2>4
<1>4. Nat \subseteq T
  <2> HIDE DEF T
  <2> QED BY <1>2, <1>3, Induct
<1>5. \E f : f = [n \in 0 .. Len(s) |-> Turn(f, n)]
      BY <1>1, <1>4
<1> DEFINE F == CHOOSE f : f = [n \in 0 .. Len(s) |-> Turn(f, n)]
<1>6. F = [n \in 0 .. Len(s) |-> Turn(F, n)]
      BY <1>5
<1>7. KeepIn(s, S) = F[Len(s)]
      BY DEF KeepIn
<1> HIDE DEF F
<1>8. \A n \in 0 .. Len(s) : F[n] = Turn(F, n)
      BY <1>6
<1>9. F[0] = <<>>
      BY <1>1, <1>8
<1>10. \A n \in 1 .. Len(s) : F[n] = Turn(F, n) /\ n # 0
      BY <1>8
<1> QED BY <1>7, <1>9, <1>10

(* ix says where the elements of f come from, in the first k of s: in      *)
(* their order, and all that are in S.                                     *)
Indexes(ix, f, s, k, S) ==
    /\ ix \in [1 .. Len(f) -> 1 .. k]
    /\ \A i \in 1 .. Len(f) : f[i] = s[ix[i]]
    /\ \A i, j \in 1 .. Len(f) : i < j => ix[i] < ix[j]
    /\ \A n \in 1 .. k : s[n] \in S => \E i \in 1 .. Len(f) : ix[i] = n

(* KeepIn keeps the elements that are in S, and their order. *)
LEMMA KeepInIndexes ==
    ASSUME NEW X, NEW s \in Seq(X), NEW S
    PROVE  /\ KeepIn(s, S) \in Seq(X \cap S)
           /\ \E ix : Indexes(ix, KeepIn(s, S), s, Len(s), S)
<1>1. Len(s) \in Nat /\ \A n \in 1 .. Len(s) : s[n] \in X
      BY LenProperties, ElementOfSeq
<1>2. PICK F : /\ KeepIn(s, S) = F[Len(s)]
               /\ F[0] = <<>>
               /\ \A n \in 1 .. Len(s) :
                    F[n] = IF s[n] \in S THEN Append(F[n - 1], s[n]) ELSE F[n - 1]
      BY KeepInStepwise
<1> DEFINE U == {k \in Nat : k <= Len(s) =>
                    F[k] \in Seq(X \cap S) /\ \E ix : Indexes(ix, F[k], s, k, S)}
<1>3. 0 \in U
  <2>1. F[0] \in Seq(X \cap S) /\ Len(F[0]) = 0
        BY <1>2, EmptySeq
  <2>2. Indexes([i \in 1 .. 0 |-> 0], F[0], s, 0, S)
        BY <2>1 DEF Indexes
  <2> QED BY <2>1, <2>2
<1>4. ASSUME NEW k \in Nat, k \in U PROVE k + 1 \in U
  <2> SUFFICES ASSUME k + 1 <= Len(s)
               PROVE  /\ F[k + 1] \in Seq(X \cap S)
                      /\ \E ix : Indexes(ix, F[k + 1], s, k + 1, S)
      OBVIOUS
  <2>1. k + 1 \in 1 .. Len(s) /\ k <= Len(s)
        BY <1>1
  <2>2. F[k] \in Seq(X \cap S) /\ \E ix : Indexes(ix, F[k], s, k, S)
        BY <1>4, <2>1
  <2>3. PICK ix : Indexes(ix, F[k], s, k, S)
        BY <2>2
  <2> DEFINE f == F[k]
  <2> DEFINE l == Len(f)
  <2> DEFINE e == s[k + 1]
  <2>4. F[k + 1] = IF e \in S THEN Append(f, e) ELSE f
    <3>1. (k + 1) - 1 = k
          OBVIOUS
    <3> QED BY <1>2, <2>1, <3>1
  <2>5. f \in Seq(X \cap S) /\ l \in Nat /\ e \in X
        BY <1>1, <2>1, <2>2, LenProperties
  <2>6. /\ ix \in [1 .. l -> 1 .. k]
        /\ \A i \in 1 .. l : f[i] = s[ix[i]]
        /\ \A i, j \in 1 .. l : i < j => ix[i] < ix[j]
        /\ \A n \in 1 .. k : s[n] \in S => \E i \in 1 .. l : ix[i] = n
        BY <2>3 DEF Indexes
  <2> HIDE DEF f, e
  <2>7. CASE e \notin S
    <3>1. F[k + 1] = f
          BY <2>4, <2>7
    <3>2. \A n \in 1 .. k + 1 : n \in 1 .. k \/ s[n] = e
          BY DEF e
    <3>3. ix \in [1 .. l -> 1 .. k + 1]
          BY <2>5, <2>6
    <3>4. Indexes(ix, f, s, k + 1, S)
          BY <2>6, <2>7, <3>2, <3>3 DEF Indexes
    <3> QED BY <2>5, <3>1, <3>4
  <2>8. CASE e \in S
    <3> DEFINE g == Append(f, e)
    <3> DEFINE jx == [i \in 1 .. l + 1 |-> IF i <= l THEN ix[i] ELSE k + 1]
    <3>1. F[k + 1] = g
          BY <2>4, <2>8
    <3>2. /\ g \in Seq(X \cap S) /\ Len(g) = l + 1
          /\ \A i \in 1 .. l : g[i] = f[i]
          /\ g[l + 1] = e
          BY <2>5, <2>8, AppendProperties
    <3> HIDE DEF l
    <3>3. /\ \A i \in 1 .. l : jx[i] = ix[i] /\ ix[i] \in 1 .. k
          /\ jx[l + 1] = k + 1
      <4>1. \A i \in 1 .. l : ix[i] \in 1 .. k
            BY <2>6
      <4>2. \A i \in 1 .. l : i \in 1 .. l + 1 /\ i <= l
            BY <2>5
      <4>3. l + 1 \in 1 .. l + 1 /\ ~(l + 1 <= l)
            BY <2>5
      <4> QED BY <4>1, <4>2, <4>3
    <3>4. \A i \in 1 .. l + 1 : i \in 1 .. l \/ i = l + 1
          BY <2>5
    <3>5. jx \in [1 .. l + 1 -> 1 .. k + 1]
      <4>1. jx = [i \in 1 .. l + 1 |-> jx[i]]
            OBVIOUS
      <4> HIDE DEF jx
      <4>2. k + 1 \in 1 .. k + 1 /\ 1 .. k \subseteq 1 .. k + 1
            OBVIOUS
      <4>3. \A i \in 1 .. l + 1 : jx[i] \in 1 .. k + 1
            BY <3>3, <3>4, <4>2
      <4> QED BY <4>1, <4>3
    <3> HIDE DEF g, jx
    <3>6. \A i \in 1 .. l + 1 : g[i] = s[jx[i]]
          BY <2>6, <3>2, <3>3, <3>4 DEF e
    <3>7. ASSUME NEW i \in 1 .. l + 1, NEW j \in 1 .. l + 1, i < j
          PROVE  jx[i] < jx[j]
      <4>1. i \in 1 .. l
            BY <2>5, <3>7
      <4>2. CASE j \in 1 .. l
            BY <2>6, <3>3, <3>7, <4>1, <4>2
      <4>3. CASE j = l + 1
            BY <3>3, <4>1, <4>3
      <4> QED BY <3>4, <4>2, <4>3
    <3>8. ASSUME NEW n \in 1 .. k + 1, s[n] \in S
          PROVE  \E i \in 1 .. l + 1 : jx[i] = n
      <4>1. CASE n \in 1 .. k
        <5>1. PICK i \in 1 .. l : ix[i] = n
              BY <2>6, <3>8, <4>1
        <5>2. i \in 1 .. l + 1 /\ jx[i] = n
              BY <2>5, <3>3, <5>1
        <5> QED BY <5>2
      <4>2. CASE n = k + 1
        <5>1. l + 1 \in 1 .. l + 1 /\ jx[l + 1] = n
              BY <2>5, <3>3, <4>2
        <5> QED BY <5>1
      <4> QED BY <4>1, <4>2
    <3>9. Indexes(jx, g, s, k + 1, S)
          BY <3>2, <3>5, <3>6, <3>7, <3>8 DEF Indexes
    <3> QED BY <3>1, <3>2, <3>9
  <2> QED BY <2>7, <2>8
<1>5. Nat \subseteq U
  <2> HIDE DEF U
  <2> QED BY <1>3, <1>4, Induct
<1>6. Len(s) \in U
      BY <1>1, <1>5
<1> QED BY <1>1, <1>2, <1>6

-----------------------------------------------------------------------------
(***************************************************************************)
(* The groups of an order, and the places of the hosts in them             *)
(***************************************************************************)

(* A place of the groups: the number of a group and one in that group. *)
Places(order) ==
    {p \in Nat \X Nat : /\ p[1] \in 1 .. Len(OrderedGroups(order))
                        /\ p[2] \in 1 .. Len(OrderedGroups(order)[p[1]])}
HostAt(order, p) == OrderedGroups(order)[p[1]][p[2]]
End(order) == <<Len(OrderedGroups(order)) + 1, 1>>
Ahead(p, q) == p[1] < q[1] \/ (p[1] = q[1] /\ p[2] < q[2])
Once(order) == \A i, j \in DOMAIN order : order[i] = order[j] => i = j

(* The k-th group before the empty ones are dropped, and who is in it. *)
AllGroups(order) == [i \in DOMAIN order |-> HostsByRole(order[i])] \o <<Remaining(order)>>
Within(order, h, k) ==
    \/ k \in 1 .. Len(order) /\ order[k] = RoleOf[h]
    \/ k = Len(order) + 1 /\ \A i \in DOMAIN order : order[i] # RoleOf[h]

LEMMA HostsNonEmpty == Hosts # {} /\ HostSeq \in Seq(Hosts)
<1>1. HostSeq \in Seq(Hosts) /\ HostSeq # <<>>
      BY ClusterAssumption
<1>2. 1 \in 1 .. Len(HostSeq) /\ DOMAIN HostSeq = 1 .. Len(HostSeq)
      BY <1>1, EmptySeq, LenProperties
<1> QED BY <1>1, <1>2 DEF Hosts

(* Some of the hosts, in the order of the definition: each of them once. *)
LEMMA KeptHosts ==
    ASSUME NEW S, S \subseteq Hosts, NEW K, K = KeepIn(HostSeq, S)
    PROVE  /\ K \in Seq(Hosts)
           /\ \A i \in 1 .. Len(K) : K[i] \in S
           /\ \A h \in S : \E i \in 1 .. Len(K) : K[i] = h
           /\ \A i, j \in 1 .. Len(K) : K[i] = K[j] => i = j
<1>1. HostSeq \in Seq(Hosts) /\ DOMAIN HostSeq = 1 .. Len(HostSeq)
      BY HostsNonEmpty, LenProperties
<1>2. K \in Seq(Hosts \cap S) /\ \E ix : Indexes(ix, K, HostSeq, Len(HostSeq), S)
      BY <1>1, KeepInIndexes
<1>3. PICK ix : Indexes(ix, K, HostSeq, Len(HostSeq), S)
      BY <1>2
<1>4. K \in Seq(Hosts)
      BY <1>2, SeqMonotonic
<1>5. \A i \in 1 .. Len(K) : K[i] \in S
      BY <1>2, ElementOfSeq
<1>6. /\ ix \in [1 .. Len(K) -> 1 .. Len(HostSeq)]
      /\ \A i \in 1 .. Len(K) : K[i] = HostSeq[ix[i]]
      /\ \A i, j \in 1 .. Len(K) : i < j => ix[i] < ix[j]
      /\ \A n \in 1 .. Len(HostSeq) : HostSeq[n] \in S => \E i \in 1 .. Len(K) : ix[i] = n
      BY <1>3 DEF Indexes
<1>7. ASSUME NEW h \in S PROVE \E i \in 1 .. Len(K) : K[i] = h
  <2>1. PICK n \in 1 .. Len(HostSeq) : HostSeq[n] = h
        BY <1>1 DEF Hosts
  <2>2. PICK i \in 1 .. Len(K) : ix[i] = n
        BY <1>6, <2>1
  <2> QED BY <1>6, <2>1, <2>2
<1>8. ASSUME NEW i \in 1 .. Len(K), NEW j \in 1 .. Len(K), K[i] = K[j] PROVE i = j
  <2>1. ix[i] \in 1 .. Len(HostSeq) /\ ix[j] \in 1 .. Len(HostSeq)
        BY <1>6
  <2>2. HostSeq[ix[i]] = HostSeq[ix[j]]
        BY <1>6, <1>8
  <2>3. ix[i] = ix[j]
        BY <1>1, <2>1, <2>2, ClusterAssumption
  <2>4. ~(i < j) /\ ~(j < i)
        BY <1>6, <2>1, <2>3
  <2> QED BY <2>4
<1> QED BY <1>4, <1>5, <1>7, <1>8

(* Each group holds the hosts of its role, each once; the last one those   *)
(* whose role the order does not name.                                     *)
LEMMA AllGroupsAre ==
    ASSUME NEW order \in Seq(STRING)
    PROVE  /\ AllGroups(order) \in Seq(Seq(Hosts))
           /\ Len(order) \in Nat /\ Len(AllGroups(order)) = Len(order) + 1
           /\ DOMAIN order = 1 .. Len(order)
           /\ \A k \in 1 .. Len(order) + 1 :
                AllGroups(order)[k] = KeepIn(HostSeq, {h \in Hosts : Within(order, h, k)})
<1> DEFINE named == [i \in DOMAIN order |-> HostsByRole(order[i])]
<1> DEFINE l == Len(order)
<1>1. l \in Nat /\ DOMAIN order = 1 .. l
      BY LenProperties
<1>2. \A i \in 1 .. l : HostsByRole(order[i]) \in Seq(Hosts)
  <2> TAKE i \in 1 .. l
  <2>1. {h \in Hosts : RoleOf[h] = order[i]} \subseteq Hosts
        OBVIOUS
  <2> QED BY <2>1, KeptHosts DEF HostsByRole
<1>3. Remaining(order) \in Seq(Hosts)
  <2>1. {h \in Hosts : \A i \in DOMAIN order : order[i] # RoleOf[h]} \subseteq Hosts
        OBVIOUS
  <2> QED BY <2>1, KeptHosts DEF Remaining
<1>4. named \in Seq(Seq(Hosts)) /\ Len(named) = l
      /\ \A i \in 1 .. l : named[i] = HostsByRole(order[i])
  <2>1. named = [i \in 1 .. l |-> HostsByRole(order[i])]
        BY <1>1
  <2> HIDE DEF named
  <2>2. named \in [1 .. l -> Seq(Hosts)]
        BY <1>2, <2>1
  <2>3. named \in Seq(Seq(Hosts))
        BY <1>1, <2>2, SeqDef
  <2>4. DOMAIN named = 1 .. l
        BY <2>1
  <2>5. DOMAIN named = 1 .. Len(named) /\ Len(named) \in Nat
        BY <2>3, LenProperties
  <2>6. Len(named) = l
        BY <1>1, <2>4, <2>5
  <2> QED BY <2>1, <2>3, <2>6
<1> DEFINE last == <<Remaining(order)>>
<1>5. last \in Seq(Seq(Hosts)) /\ Len(last) = 1 /\ last[1] = Remaining(order)
      BY <1>3
<1> HIDE DEF named, last
<1>6. /\ named \o last \in Seq(Seq(Hosts))
      /\ Len(named \o last) = l + 1
      /\ \A i \in 1 .. l + 1 : (named \o last)[i] = IF i <= l THEN named[i] ELSE last[i - l]
  <2> HIDE DEF l
  <2>1. /\ named \o last \in Seq(Seq(Hosts))
        /\ Len(named \o last) = Len(named) + Len(last)
        /\ \A i \in 1 .. Len(named) + Len(last) :
             (named \o last)[i] = IF i <= Len(named) THEN named[i] ELSE last[i - Len(named)]
        BY <1>4, <1>5, ConcatProperties
  <2>2. Len(named) = l /\ Len(last) = 1
        BY <1>4, <1>5
  <2> QED BY <2>1, <2>2
<1>7. AllGroups(order) = named \o last
      BY DEF AllGroups, named, last
<1>8. ASSUME NEW k \in 1 .. l
      PROVE  AllGroups(order)[k] = KeepIn(HostSeq, {h \in Hosts : Within(order, h, k)})
  <2>1. k \in 1 .. l + 1 /\ k <= l /\ k # l + 1
        BY <1>1
  <2>2. {h \in Hosts : Within(order, h, k)} = {h \in Hosts : RoleOf[h] = order[k]}
        BY <2>1 DEF Within
  <2>3. AllGroups(order)[k] = HostsByRole(order[k])
        BY <1>4, <1>6, <1>7, <2>1
  <2> QED BY <2>2, <2>3 DEF HostsByRole
<1>9. AllGroups(order)[l + 1] = KeepIn(HostSeq, {h \in Hosts : Within(order, h, l + 1)})
  <2>1. l + 1 \in 1 .. l + 1 /\ ~(l + 1 <= l) /\ (l + 1) - l = 1 /\ l + 1 \notin 1 .. l
        BY <1>1
  <2>2. {h \in Hosts : Within(order, h, l + 1)}
          = {h \in Hosts : \A i \in DOMAIN order : order[i] # RoleOf[h]}
        BY <2>1 DEF Within
  <2>3. AllGroups(order)[l + 1] = Remaining(order)
    <3>1. (named \o last)[l + 1] = last[(l + 1) - l]
          BY <1>6, <2>1
    <3>2. last[(l + 1) - l] = last[1]
          BY <2>1
    <3> QED BY <1>5, <1>7, <3>1, <3>2
  <2> QED BY <2>2, <2>3 DEF Remaining
<1>10. \A k \in 1 .. l + 1 : k \in 1 .. l \/ k = l + 1
      BY <1>1
<1> QED BY <1>1, <1>6, <1>7, <1>8, <1>9, <1>10

(* A host is in the group of its rank, and in none before. *)
LEMMA RankIsFirst ==
    ASSUME NEW order \in Seq(STRING), NEW h \in Hosts
    PROVE  /\ Rank(order, h) \in 1 .. Len(order) + 1
           /\ Within(order, h, Rank(order, h))
           /\ \A k \in 1 .. Len(order) + 1 : Within(order, h, k) => Rank(order, h) <= k
<1> DEFINE l == Len(order)
<1> DEFINE named == {i \in DOMAIN order : order[i] = RoleOf[h]}
<1>1. l \in Nat /\ DOMAIN order = 1 .. l
      BY LenProperties
<1>2. CASE named = {}
  <2>1. Rank(order, h) = l + 1
        BY <1>2 DEF Rank
  <2>2. \A i \in DOMAIN order : order[i] # RoleOf[h]
        BY <1>2
  <2>3. Within(order, h, l + 1)
        BY <2>2 DEF Within
  <2>4. \A k \in 1 .. l + 1 : Within(order, h, k) => l + 1 <= k
        BY <1>1, <2>2 DEF Within
  <2> QED BY <1>1, <2>1, <2>3, <2>4
<1>3. CASE named # {}
  <2> DEFINE r == CHOOSE i \in named : \A j \in named : i <= j
  <2>1. named \subseteq Nat
        BY <1>1
  <2>2. \E i \in named : \A j \in named : i <= j
    <3> HIDE DEF named
    <3> QED BY <1>3, <2>1, Least
  <2>3. r \in named /\ \A j \in named : r <= j
        BY <2>2
  <2>4. Rank(order, h) = r
        BY <1>3 DEF Rank
  <2> HIDE DEF r
  <2>5. r \in 1 .. l /\ order[r] = RoleOf[h]
        BY <1>1, <2>3
  <2>6. Within(order, h, r)
        BY <2>5 DEF Within
  <2>7. ASSUME NEW k \in 1 .. l + 1, Within(order, h, k) PROVE r <= k
    <3>1. k # l + 1
          BY <1>1, <1>3, <2>5, <2>7 DEF Within
    <3>2. k \in named
          BY <1>1, <2>7, <3>1 DEF Within
    <3> QED BY <2>3, <3>2
  <2> QED BY <1>1, <2>4, <2>5, <2>6, <2>7
<1> QED BY <1>2, <1>3

(* ordered_groups() keeps the groups that are not empty. *)
LEMMA GroupsAre ==
    ASSUME NEW order \in Seq(STRING)
    PROVE  /\ OrderedGroups(order) \in Seq(Groups)
           /\ \E ix : Indexes(ix, OrderedGroups(order), AllGroups(order), Len(order) + 1, Groups)
<1> DEFINE A == AllGroups(order)
<1>1. A \in Seq(Seq(Hosts)) /\ Len(A) = Len(order) + 1
      BY AllGroupsAre
<1>2. OrderedGroups(order) = KeepIn(A, Groups)
      BY DEF OrderedGroups, AllGroups
<1> HIDE DEF A
<1>3. KeepIn(A, Groups) \in Seq(Seq(Hosts) \cap Groups)
      /\ \E ix : Indexes(ix, KeepIn(A, Groups), A, Len(A), Groups)
      BY <1>1, KeepInIndexes
<1>4. Seq(Hosts) \cap Groups = Groups
      BY DEF Groups
<1> QED BY <1>1, <1>2, <1>3, <1>4 DEF A

(* Every host has a place, behind no host whose role comes later. *)
LEMMA EveryHostHasAPlace ==
    ASSUME NEW order \in Seq(STRING), NEW h \in Hosts
    PROVE  \E p \in Places(order) :
             /\ HostAt(order, p) = h
             /\ \A q \in Places(order) :
                  Rank(order, h) < Rank(order, HostAt(order, q)) => Ahead(p, q)
<1> DEFINE G == OrderedGroups(order)
<1> DEFINE A == AllGroups(order)
<1> DEFINE r == Rank(order, h)
<1>1. G \in Seq(Groups) /\ Len(G) \in Nat
      BY GroupsAre, LenProperties
<1>2. PICK ix : Indexes(ix, G, A, Len(order) + 1, Groups)
      BY GroupsAre
<1>3. /\ ix \in [1 .. Len(G) -> 1 .. Len(order) + 1]
      /\ \A i \in 1 .. Len(G) : G[i] = A[ix[i]]
      /\ \A i, j \in 1 .. Len(G) : i < j => ix[i] < ix[j]
      /\ \A n \in 1 .. Len(order) + 1 : A[n] \in Groups => \E i \in 1 .. Len(G) : ix[i] = n
      BY <1>2 DEF Indexes
<1>4. \A k \in 1 .. Len(order) + 1 :
        A[k] = KeepIn(HostSeq, {g \in Hosts : Within(order, g, k)})
      BY AllGroupsAre
<1>5. r \in 1 .. Len(order) + 1 /\ Within(order, h, r)
      BY RankIsFirst
<1> HIDE DEF G, A, r
<1>6. A[r] \in Seq(Hosts) /\ \E j \in 1 .. Len(A[r]) : A[r][j] = h
  <2> DEFINE S == {g \in Hosts : Within(order, g, r)}
  <2>1. h \in S /\ S \subseteq Hosts
        BY <1>5
  <2>2. A[r] = KeepIn(HostSeq, S)
        BY <1>4, <1>5
  <2> HIDE DEF S
  <2> QED BY <2>1, <2>2, KeptHosts
<1>7. PICK j \in 1 .. Len(A[r]) : A[r][j] = h
      BY <1>6
<1>8. A[r] \in Groups /\ Len(A[r]) \in Nat
  <2>1. A[r] # <<>>
        BY <1>7, EmptySeq
  <2> QED BY <1>6, <2>1, LenProperties DEF Groups
<1>9. PICK i \in 1 .. Len(G) : ix[i] = r
      BY <1>3, <1>5, <1>8
<1>10. G[i] = A[r]
      BY <1>3, <1>9
<1> DEFINE p == <<i, j>>
<1>11. p \in Places(order)
  <2>1. i \in Nat /\ j \in Nat
        BY <1>1, <1>8
  <2>2. j \in 1 .. Len(G[i])
        BY <1>7, <1>10
  <2> QED BY <2>1, <2>2 DEF Places, G
<1>12. HostAt(order, p) = h
      BY <1>7, <1>10 DEF HostAt, G
<1>13. ASSUME NEW q \in Places(order), Rank(order, h) < Rank(order, HostAt(order, q))
       PROVE  Ahead(p, q)
  <2> DEFINE g == HostAt(order, q)
  <2>1. q[1] \in 1 .. Len(G) /\ q[2] \in 1 .. Len(G[q[1]])
        BY DEF Places, G
  <2>2. g = G[q[1]][q[2]]
        BY DEF HostAt, G
  <2> DEFINE k == ix[q[1]]
  <2>3. k \in 1 .. Len(order) + 1 /\ G[q[1]] = A[k]
        BY <1>3, <2>1
  <2> HIDE DEF g, k
  <2>4. g \in {x \in Hosts : Within(order, x, k)}
    <3>1. A[k] = KeepIn(HostSeq, {x \in Hosts : Within(order, x, k)})
          BY <1>4, <2>3
    <3>2. \A n \in 1 .. Len(A[k]) : A[k][n] \in {x \in Hosts : Within(order, x, k)}
          BY <3>1, KeptHosts
    <3> QED BY <2>1, <2>2, <2>3, <3>2
  <2>5. Rank(order, g) <= k /\ Rank(order, g) \in 1 .. Len(order) + 1
        BY <2>3, <2>4, RankIsFirst
  <2>6. ix[i] < k
    <3>1. r < Rank(order, g)
          BY <1>13 DEF r, g
    <3> QED BY <1>5, <1>9, <2>3, <2>5, <3>1, LenProperties
  <2>7. i < q[1]
    <3>1. i \in Nat /\ q[1] \in Nat
          BY <1>1, <2>1
    <3>2. ~(q[1] < i) /\ q[1] # i
      <4>1. Len(order) \in Nat
            BY LenProperties
      <4>2. ix[i] \in Nat /\ k \in Nat
            BY <1>3, <2>3, <4>1
      <4> QED BY <1>3, <2>1, <2>6, <4>2 DEF k
    <3> QED BY <3>1, <3>2
  <2> QED BY <2>7 DEF Ahead
<1> QED BY <1>11, <1>12, <1>13 DEF r

(* A host has one place only when the order names no role twice. *)
LEMMA OnePlaceOnly ==
    ASSUME NEW order \in Seq(STRING), Once(order),
           NEW p \in Places(order), NEW q \in Places(order),
           HostAt(order, p) = HostAt(order, q)
    PROVE  p = q
<1> DEFINE G == OrderedGroups(order)
<1> DEFINE A == AllGroups(order)
<1>1. PICK ix : Indexes(ix, G, A, Len(order) + 1, Groups)
      BY GroupsAre
<1>2. /\ ix \in [1 .. Len(G) -> 1 .. Len(order) + 1]
      /\ \A i \in 1 .. Len(G) : G[i] = A[ix[i]]
      /\ \A i, j \in 1 .. Len(G) : i < j => ix[i] < ix[j]
      BY <1>1 DEF Indexes
<1>3. \A k \in 1 .. Len(order) + 1 :
        A[k] = KeepIn(HostSeq, {g \in Hosts : Within(order, g, k)})
      BY AllGroupsAre
<1>4. /\ Len(order) \in Nat /\ DOMAIN order = 1 .. Len(order)
      /\ Len(G) \in Nat
      BY GroupsAre, LenProperties
<1>5. /\ p[1] \in 1 .. Len(G) /\ p[2] \in 1 .. Len(G[p[1]])
      /\ q[1] \in 1 .. Len(G) /\ q[2] \in 1 .. Len(G[q[1]])
      /\ G[p[1]][p[2]] = G[q[1]][q[2]]
      /\ p = <<p[1], p[2]>> /\ q = <<q[1], q[2]>>
      BY DEF Places, HostAt
<1> HIDE DEF G, A
<1> DEFINE k == ix[p[1]]
<1> DEFINE m == ix[q[1]]
<1> DEFINE h == G[p[1]][p[2]]
<1>6. /\ k \in 1 .. Len(order) + 1 /\ m \in 1 .. Len(order) + 1
      /\ G[p[1]] = A[k] /\ G[q[1]] = A[m]
      BY <1>2, <1>5
<1> HIDE DEF k, m
<1>7. ASSUME NEW c \in 1 .. Len(order) + 1
      PROVE  /\ \A i \in 1 .. Len(A[c]) : Within(order, A[c][i], c)
             /\ \A i, j \in 1 .. Len(A[c]) : A[c][i] = A[c][j] => i = j
  <2>1. A[c] = KeepIn(HostSeq, {x \in Hosts : Within(order, x, c)})
        BY <1>3
  <2>2. \A i \in 1 .. Len(A[c]) : A[c][i] \in {x \in Hosts : Within(order, x, c)}
        BY <2>1, KeptHosts
  <2>3. \A i, j \in 1 .. Len(A[c]) : A[c][i] = A[c][j] => i = j
        BY <2>1, KeptHosts
  <2> QED BY <2>2, <2>3
<1>8. Within(order, h, k) /\ Within(order, h, m)
      BY <1>5, <1>6, <1>7
<1>9. k = m
      BY <1>4, <1>8 DEF Within, Once
<1>10. p[1] = q[1]
  <2>1. ~(p[1] < q[1]) /\ ~(q[1] < p[1])
    <3>1. ~(k < m) /\ ~(m < k)
          BY <1>4, <1>6, <1>9
    <3> QED BY <1>2, <1>5, <3>1 DEF k, m
  <2> QED BY <1>4, <1>5, <2>1
<1>11. p[2] = q[2]
      BY <1>5, <1>6, <1>7, <1>9, <1>10
<1> QED BY <1>5, <1>10, <1>11

(* No group is empty: its first place is a place. *)
LEMMA GroupHasAPlace ==
    ASSUME NEW order \in Seq(STRING), NEW i \in 1 .. Len(OrderedGroups(order))
    PROVE  <<i, 1>> \in Places(order)
<1> DEFINE G == OrderedGroups(order)
<1>1. G \in Seq(Groups) /\ Len(G) \in Nat
      BY GroupsAre, LenProperties
<1> HIDE DEF G
<1>2. i \in 1 .. Len(G)
      BY DEF G
<1>3. G[i] \in Seq(Hosts) /\ G[i] # <<>>
      BY <1>1, <1>2, ElementOfSeq DEF Groups
<1>4. Len(G[i]) \in Nat \ {0}
      BY <1>3, EmptySeq
<1>5. i \in Nat /\ 1 \in 1 .. Len(G[i])
      BY <1>1, <1>2, <1>4
<1> QED BY <1>2, <1>5 DEF Places, G

LEMMA GroupsOfOrder ==
    ASSUME NEW order \in Orders
    PROVE  GroupsOf[order] = OrderedGroups(order) /\ order \in Seq(STRING)
BY ClusterAssumption DEF GroupsOf

(* The walk over the places: it begins at one no other is ahead of ... *)
LEMMA FirstPlace ==
    ASSUME NEW order \in Seq(STRING)
    PROVE  <<1, 1>> \in Places(order) /\ \A p \in Places(order) : ~Ahead(p, <<1, 1>>)
<1>1. PICK h \in Hosts : TRUE
      BY HostsNonEmpty
<1>2. PICK p \in Places(order) : HostAt(order, p) = h
      BY EveryHostHasAPlace
<1>3. Len(OrderedGroups(order)) \in Nat
      BY GroupsAre, LenProperties
<1>4. 1 \in 1 .. Len(OrderedGroups(order))
      BY <1>3 DEF Places
<1>5. <<1, 1>> \in Places(order)
      BY <1>4, GroupHasAPlace
<1>6. ASSUME NEW q \in Places(order) PROVE ~Ahead(q, <<1, 1>>)
  <2>1. q[1] \in 1 .. Len(OrderedGroups(order))
        /\ q[2] \in 1 .. Len(OrderedGroups(order)[q[1]])
        /\ q[1] \in Nat /\ q[2] \in Nat
        BY DEF Places
  <2>2. ~(q[1] < 1) /\ ~(q[2] < 1)
        BY <2>1
  <2> QED BY <2>2 DEF Ahead
<1> QED BY <1>5, <1>6

(* ... goes from each to the one after, or to the end ... *)
LEMMA NextPlace ==
    ASSUME NEW order \in Orders, NEW p \in Places(order)
    PROVE  /\ After(order, p) \in Places(order) \cup {End(order)}
           /\ \A q \in Places(order) : Ahead(q, After(order, p)) <=> Ahead(q, p) \/ q = p
<1>0. order \in Seq(STRING) /\ GroupsOf[order] = OrderedGroups(order)
      BY GroupsOfOrder
<1> DEFINE G == OrderedGroups(order)
<1>1. G \in Seq(Groups) /\ Len(G) \in Nat
      BY <1>0, GroupsAre, LenProperties
<1>2. /\ p[1] \in 1 .. Len(G) /\ p[2] \in 1 .. Len(G[p[1]])
      /\ p = <<p[1], p[2]>> /\ p[1] \in Nat /\ p[2] \in Nat
      BY DEF Places
<1>3. ASSUME NEW q \in Places(order)
      PROVE  /\ q[1] \in 1 .. Len(G) /\ q[2] \in 1 .. Len(G[q[1]])
             /\ q = <<q[1], q[2]>> /\ q[1] \in Nat /\ q[2] \in Nat
      BY DEF Places
<1>4. Len(G[p[1]]) \in Nat
  <2> HIDE DEF G
  <2>1. G[p[1]] \in Seq(Hosts)
        BY <1>1, <1>2, ElementOfSeq DEF Groups
  <2> QED BY <2>1, LenProperties
<1>5. After(order, p) = IF p[2] < Len(G[p[1]]) THEN <<p[1], p[2] + 1>> ELSE <<p[1] + 1, 1>>
      BY <1>0 DEF After
<1>6. CASE p[2] < Len(G[p[1]])
  <2> DEFINE n == <<p[1], p[2] + 1>>
  <2>1. After(order, p) = n
        BY <1>5, <1>6
  <2>2. p[2] + 1 \in 1 .. Len(G[p[1]]) /\ p[2] + 1 \in Nat
        BY <1>2, <1>4, <1>6
  <2>3. n \in Places(order)
        BY <1>2, <2>2 DEF Places
  <2>4. ASSUME NEW q \in Places(order) PROVE Ahead(q, n) <=> Ahead(q, p) \/ q = p
    <3> HIDE DEF G
    <3>1. q[2] < p[2] + 1 <=> q[2] < p[2] \/ q[2] = p[2]
          BY <1>2, <1>3
    <3>2. q = p <=> q[1] = p[1] /\ q[2] = p[2]
          BY <1>2, <1>3
    <3>3. Ahead(q, n) <=> q[1] < p[1] \/ (q[1] = p[1] /\ q[2] < p[2] + 1)
          BY DEF Ahead
    <3>4. Ahead(q, p) <=> q[1] < p[1] \/ (q[1] = p[1] /\ q[2] < p[2])
          BY DEF Ahead
    <3>5. q[1] = p[1] => ~(q[1] < p[1])
          BY <1>2, <1>3
    <3> QED BY <3>1, <3>2, <3>3, <3>4
  <2> QED BY <2>1, <2>3, <2>4
<1>7. CASE ~(p[2] < Len(G[p[1]]))
  <2> DEFINE n == <<p[1] + 1, 1>>
  <2>1. After(order, p) = n
        BY <1>5, <1>7
  <2>2. n \in Places(order) \cup {End(order)}
    <3>1. CASE p[1] = Len(G)
          BY <3>1 DEF End
    <3>2. CASE p[1] # Len(G)
      <4>1. p[1] + 1 \in 1 .. Len(G)
            BY <1>1, <1>2, <3>2
      <4> QED BY <1>0, <4>1, GroupHasAPlace
    <3> QED BY <3>1, <3>2
  <2>3. ASSUME NEW q \in Places(order) PROVE Ahead(q, n) <=> Ahead(q, p) \/ q = p
    <3>0. q[1] = p[1] => G[q[1]] = G[p[1]]
          OBVIOUS
    <3> HIDE DEF G
    <3>1. p[2] = Len(G[p[1]])
          BY <1>2, <1>4, <1>7
    <3>2. q[1] = p[1] => q[2] < p[2] \/ q[2] = p[2]
          BY <1>3, <1>4, <3>0, <3>1
    <3>3. q[1] < p[1] + 1 <=> q[1] < p[1] \/ q[1] = p[1]
          BY <1>2, <1>3
    <3>4. ~(q[2] < 1)
          BY <1>3, <1>1
    <3>5. q = p <=> q[1] = p[1] /\ q[2] = p[2]
          BY <1>2, <1>3
    <3>6. Ahead(q, n) <=> q[1] < p[1] + 1 \/ (q[1] = p[1] + 1 /\ q[2] < 1)
          BY DEF Ahead
    <3>7. Ahead(q, p) <=> q[1] < p[1] \/ (q[1] = p[1] /\ q[2] < p[2])
          BY DEF Ahead
    <3> QED BY <3>2, <3>3, <3>4, <3>5, <3>6, <3>7
  <2> QED BY <2>1, <2>2, <2>3
<1> QED BY <1>6, <1>7

(* ... and has then been at all of them. *)
LEMMA LastPlace ==
    ASSUME NEW order \in Seq(STRING)
    PROVE  \A p \in Places(order) : Ahead(p, End(order)) /\ p # End(order) /\ p # <<0, 0>>
<1>1. Len(OrderedGroups(order)) \in Nat
      BY GroupsAre, LenProperties
<1> TAKE p \in Places(order)
<1>2. p[1] \in 1 .. Len(OrderedGroups(order))
      BY DEF Places
<1>3. p[1] < Len(OrderedGroups(order)) + 1 /\ p[1] # 0
      BY <1>1, <1>2
<1> QED BY <1>1, <1>3 DEF Ahead, End

-----------------------------------------------------------------------------
(***************************************************************************)
(* A definition and its summary                                            *)
(***************************************************************************)

(* What the assignments to a definition do to its fields. *)
LEMMA HostChanged ==
    ASSUME NEW c \in Cluster, NEW h \in Hosts, NEW v \in HostState,
           NEW d, d = [c EXCEPT !.hosts[h] = v]
    PROVE  /\ d \in Cluster /\ d.state = c.state /\ d.order = c.order
           /\ \A g \in Hosts : d.hosts[g] = IF g = h THEN v ELSE c.hosts[g]
<1>1. c.hosts \in [Hosts -> HostState] /\ c.state \in ClusterState /\ c.order \in Orders
      BY DEF Cluster
<1>2. d.hosts = [c.hosts EXCEPT ![h] = v] /\ d.state = c.state /\ d.order = c.order
      BY DEF Cluster
<1>3. d.hosts \in [Hosts -> HostState]
      BY <1>1, <1>2
<1>4. d = [state |-> c.state, hosts |-> d.hosts, order |-> c.order]
      BY <1>2 DEF Cluster
<1>5. d \in Cluster
      BY <1>1, <1>3, <1>4 DEF Cluster
<1>6. \A g \in Hosts : d.hosts[g] = IF g = h THEN v ELSE c.hosts[g]
      BY <1>1, <1>2
<1> QED BY <1>2, <1>5, <1>6

LEMMA StateChanged ==
    ASSUME NEW c \in Cluster, NEW s \in ClusterState, NEW d, d = [c EXCEPT !.state = s]
    PROVE  /\ d \in Cluster /\ d.state = s /\ d.order = c.order /\ d.hosts = c.hosts
BY DEF Cluster

LEMMA HostIsTyped ==
    ASSUME NEW c \in Cluster, NEW h \in Hosts PROVE c.hosts[h] \in HostState
BY DEF Cluster

LEMMA OrderIsTyped == ASSUME NEW c \in Cluster PROVE c.order \in Seq(STRING)
<1>1. c.order \in Orders
      BY DEF Cluster
<1> QED BY <1>1, ClusterAssumption

(* A summary that is none cannot be wrong. *)
LEMMA UnfinishedIsTruthful ==
    ASSUME NEW c, c.state \in {"defined", "provisioning"} PROVE Truthful(c)
BY DEF Truthful

AsComplete(f, h) ==
    LET c == [f EXCEPT !.hosts[h] = "complete"]
    IN  [c EXCEPT !.state = IF All(c, "complete") THEN "complete"
                            ELSE IF Exists(c, "failed") THEN "partial" ELSE f.state]

(* mark_host_complete() keeps the summary true ... *)
LEMMA MarkCompleteIsTruthful ==
    ASSUME NEW f \in Cluster, Truthful(f), NEW h \in Hosts
    PROVE  /\ AsComplete(f, h) \in Cluster /\ Truthful(AsComplete(f, h))
           /\ AsComplete(f, h).state = "provisioning" => f.state = "provisioning"
<1> DEFINE c == [f EXCEPT !.hosts[h] = "complete"]
<1> DEFINE s == IF All(c, "complete") THEN "complete"
                ELSE IF Exists(c, "failed") THEN "partial" ELSE f.state
<1> DEFINE d == [c EXCEPT !.state = s]
<1>0. /\ c = [f EXCEPT !.hosts[h] = "complete"] /\ d = [c EXCEPT !.state = s] /\ d = AsComplete(f, h)
      /\ s = IF All(c, "complete") THEN "complete"
             ELSE IF Exists(c, "failed") THEN "partial" ELSE f.state
      BY DEF AsComplete
<1> HIDE DEF c, s, d
<1> SUFFICES d \in Cluster /\ Truthful(d) /\ (d.state = "provisioning" => f.state = "provisioning")
    BY <1>0
<1>1. /\ c \in Cluster /\ c.state = f.state /\ c.order = f.order
      /\ \A g \in Hosts : c.hosts[g] = IF g = h THEN "complete" ELSE f.hosts[g]
      BY <1>0, HostChanged DEF HostState
<1>2. s \in ClusterState
      BY <1>0, <1>1 DEF Cluster, ClusterState
<1>3. /\ d \in Cluster /\ d.state = s /\ d.order = c.order /\ d.hosts = c.hosts
  <2>1. c \in Cluster
        BY <1>1
  <2>2. d = [c EXCEPT !.state = s]
        BY <1>0
  <2> QED BY ONLY <1>2, <2>1, <2>2 DEF Cluster
<1>4. \A g \in Hosts : d.hosts[g] = IF g = h THEN "complete" ELSE f.hosts[g]
      BY <1>1, <1>3
<1>5. d.hosts[h] = "complete"
      BY <1>4
<1>6. ~All(d, "failed")
      BY <1>5 DEF All
<1>7. CASE All(c, "complete")
  <2>1. s = "complete" /\ All(d, "complete")
        BY <1>0, <1>3, <1>7 DEF All
  <2> QED BY <1>3, <2>1 DEF Truthful
<1>8. CASE ~All(c, "complete") /\ Exists(c, "failed")
  <2>1. s = "partial" /\ ~All(d, "complete")
        BY <1>0, <1>3, <1>8 DEF All
  <2> QED BY <1>3, <1>6, <2>1 DEF Truthful
<1>9. CASE ~All(c, "complete") /\ ~Exists(c, "failed")
  <2>1. s = f.state /\ ~All(d, "complete") /\ ~Exists(d, "failed")
        BY <1>0, <1>3, <1>9 DEF All, Exists
  <2>2. f.state # "complete"
    <3>1. ~All(f, "complete")
          BY <1>4, <2>1 DEF All
    <3> QED BY <3>1 DEF Truthful
  <2>3. f.state # "failed"
    <3> SUFFICES ASSUME All(f, "failed") PROVE FALSE
        BY DEF Truthful
    <3>1. \A g \in Hosts : g = h
          BY <1>4, <2>1 DEF All, Exists
    <3> QED BY <1>5, <2>1, <3>1 DEF All
  <2> QED BY <1>3, <1>6, <2>1, <2>2, <2>3 DEF Truthful
<1> QED BY <1>7, <1>8, <1>9

AsFailed(f, h) ==
    LET c == [f EXCEPT !.hosts[h] = "failed"]
    IN  [c EXCEPT !.state = IF Exists(c, "complete") THEN "partial"
                            ELSE IF All(c, "failed") THEN "failed" ELSE f.state]

(* ... and so does mark_host_failed(). *)
LEMMA MarkFailedIsTruthful ==
    ASSUME NEW f \in Cluster, Truthful(f), NEW h \in Hosts
    PROVE  /\ AsFailed(f, h) \in Cluster /\ Truthful(AsFailed(f, h))
           /\ AsFailed(f, h).state = "provisioning" => f.state = "provisioning"
<1> DEFINE c == [f EXCEPT !.hosts[h] = "failed"]
<1> DEFINE s == IF Exists(c, "complete") THEN "partial"
                ELSE IF All(c, "failed") THEN "failed" ELSE f.state
<1> DEFINE d == [c EXCEPT !.state = s]
<1>0. /\ c = [f EXCEPT !.hosts[h] = "failed"] /\ d = [c EXCEPT !.state = s] /\ d = AsFailed(f, h)
      /\ s = IF Exists(c, "complete") THEN "partial"
             ELSE IF All(c, "failed") THEN "failed" ELSE f.state
      BY DEF AsFailed
<1> HIDE DEF c, s, d
<1> SUFFICES d \in Cluster /\ Truthful(d) /\ (d.state = "provisioning" => f.state = "provisioning")
    BY <1>0
<1>1. /\ c \in Cluster /\ c.state = f.state /\ c.order = f.order
      /\ \A g \in Hosts : c.hosts[g] = IF g = h THEN "failed" ELSE f.hosts[g]
      BY <1>0, HostChanged DEF HostState
<1>2. s \in ClusterState
      BY <1>0, <1>1 DEF Cluster, ClusterState
<1>3. /\ d \in Cluster /\ d.state = s /\ d.order = c.order /\ d.hosts = c.hosts
  <2>1. c \in Cluster
        BY <1>1
  <2>2. d = [c EXCEPT !.state = s]
        BY <1>0
  <2> QED BY ONLY <1>2, <2>1, <2>2 DEF Cluster
<1>4. \A g \in Hosts : d.hosts[g] = IF g = h THEN "failed" ELSE f.hosts[g]
      BY <1>1, <1>3
<1>5. d.hosts[h] = "failed"
      BY <1>4
<1>6. ~All(d, "complete")
      BY <1>5 DEF All
<1>7. CASE Exists(c, "complete")
  <2>1. s = "partial" /\ ~All(d, "failed")
        BY <1>0, <1>3, <1>7 DEF All, Exists
  <2> QED BY <1>3, <1>6, <2>1 DEF Truthful
<1>8. CASE ~Exists(c, "complete") /\ All(c, "failed")
  <2>1. s = "failed" /\ All(d, "failed")
        BY <1>0, <1>3, <1>8 DEF All
  <2> QED BY <1>3, <2>1 DEF Truthful
<1>9. CASE ~Exists(c, "complete") /\ ~All(c, "failed")
  <2>1. s = f.state /\ ~Exists(d, "complete") /\ ~All(d, "failed")
        BY <1>0, <1>3, <1>9 DEF All, Exists
  <2>2. f.state # "failed"
    <3>1. ~All(f, "failed")
          BY <1>4, <2>1 DEF All
    <3> QED BY <3>1 DEF Truthful
  <2>3. f.state # "complete"
    <3> SUFFICES ASSUME All(f, "complete") PROVE FALSE
        BY DEF Truthful
    <3>1. \A g \in Hosts : g = h
          BY <1>4, <2>1 DEF All, Exists
    <3> QED BY <1>5, <2>1, <3>1 DEF All
  <2> QED BY <1>3, <1>6, <2>1, <2>2, <2>3 DEF Truthful
<1> QED BY <1>7, <1>8, <1>9

-----------------------------------------------------------------------------
(***************************************************************************)
(* How far a run has come                                                  *)
(***************************************************************************)

Ended == {"complete", "failed"}

(* Between the save that marks a host "provisioning" and its callbacks. *)
IsMarked(p, k) == p = "callback" \/ (p \in {"open", "write"} /\ k = "callback")

(* In the save of the outcome. *)
IsFinishing(p, k) == p \in {"open", "write"} /\ k = "idle"

(* The hosts at the places ahead of a have ended, all well if o; if not    *)
(* o, and no host comes twice, one of them has failed.  The host just      *)
(* marked may have been there before.                                      *)
Walked(c, a, o, marked) ==
    /\ \A q \in Places(c.order) : Ahead(q, a) =>
         \/ marked /\ HostAt(c.order, q) = HostAt(c.order, a)
         \/ /\ c.hosts[HostAt(c.order, q)] \in Ended
            /\ o => c.hosts[HostAt(c.order, q)] = "complete"
    /\ ~o /\ Once(c.order) =>
         \E q \in Places(c.order) : Ahead(q, a) /\ c.hosts[HostAt(c.order, q)] = "failed"

(* A run whose pc, then, copy, at and ok are p, k, c, a and o. *)
RunOK(p, k, c, a, o) ==
    /\ a \in Places(c.order) \cup {End(c.order)}
    /\ IsMarked(p, k) => a \in Places(c.order)
    /\ IsFinishing(p, k) => c.state # "provisioning"
    /\ ~IsFinishing(p, k) => c.state = "provisioning" /\ Walked(c, a, o, IsMarked(p, k))

(* A thread: a run, another call, or idle. *)
LocalOK(p, k, c, a, o) ==
    /\ p = "idle" => a = <<0, 0>> /\ o
    /\ p \in {"callback", "advance"} \/ k # "idle" => a # <<0, 0>>
    /\ p # "idle" /\ a # <<0, 0>> => RunOK(p, k, c, a, o)
    /\ p # "idle" => Truthful(c)

LEMMA HostAtIsHost ==
    ASSUME NEW order \in Seq(STRING), NEW p \in Places(order)
    PROVE  HostAt(order, p) \in Hosts
<1> DEFINE G == OrderedGroups(order)
<1>1. G \in Seq(Groups) /\ p[1] \in 1 .. Len(G) /\ p[2] \in 1 .. Len(G[p[1]])
      BY GroupsAre DEF Places
<1>2. HostAt(order, p) = G[p[1]][p[2]]
      BY DEF HostAt
<1> HIDE DEF G
<1>3. G[p[1]] \in Seq(Hosts)
      BY <1>1, ElementOfSeq DEF Groups
<1> QED BY <1>1, <1>2, <1>3, ElementOfSeq

(* start_provisioning() begins with nothing behind it. *)
LEMMA StartIsOK ==
    ASSUME NEW f \in Cluster, NEW c, c = [f EXCEPT !.state = "provisioning"], NEW k
    PROVE  /\ c \in Cluster /\ c.state = "provisioning"
           /\ RunOK("advance", k, c, <<1, 1>>, TRUE)
<1>1. c \in Cluster /\ c.state = "provisioning"
      BY StateChanged DEF ClusterState
<1>2. c.order \in Seq(STRING)
      BY <1>1, OrderIsTyped
<1>3. <<1, 1>> \in Places(c.order) /\ \A p \in Places(c.order) : ~Ahead(p, <<1, 1>>)
      BY <1>2, FirstPlace
<1>4. Walked(c, <<1, 1>>, TRUE, FALSE)
      BY <1>3 DEF Walked
<1>5. ~IsFinishing("advance", k) /\ ~IsMarked("advance", k)
      BY DEF IsFinishing, IsMarked
<1>6. Walked(c, <<1, 1>>, TRUE, IsMarked("advance", k))
      BY <1>4, <1>5 DEF Walked
<1> QED BY <1>1, <1>3, <1>5, <1>6 DEF RunOK

(* Marking the next host: only it may lose what it had. *)
LEMMA NextHostIsOK ==
    ASSUME NEW c \in Cluster, NEW k, NEW a, NEW o \in BOOLEAN,
           RunOK("advance", k, c, a, o), a \in Places(c.order),
           NEW d, d = [c EXCEPT !.hosts[HostAt(c.order, a)] = "provisioning"]
    PROVE  d \in Cluster /\ RunOK("open", "callback", d, a, o)
<1> DEFINE x == HostAt(c.order, a)
<1>1. c.order \in Seq(STRING)
      BY OrderIsTyped
<1>2. x \in Hosts
      BY <1>1, HostAtIsHost
<1>3. /\ d \in Cluster /\ d.state = c.state /\ d.order = c.order
      /\ \A g \in Hosts : d.hosts[g] = IF g = x THEN "provisioning" ELSE c.hosts[g]
      BY <1>2, HostChanged DEF HostState
<1>4. /\ ~IsFinishing("advance", k) /\ ~IsMarked("advance", k)
      /\ ~IsFinishing("open", "callback") /\ IsMarked("open", "callback")
      BY DEF IsFinishing, IsMarked
<1>5. c.state = "provisioning" /\ Walked(c, a, o, IsMarked("advance", k))
      BY <1>4 DEF RunOK
<1>6. /\ \A q \in Places(c.order) : Ahead(q, a) =>
           /\ c.hosts[HostAt(c.order, q)] \in Ended
           /\ o => c.hosts[HostAt(c.order, q)] = "complete"
      /\ ~o /\ Once(c.order) =>
           \E q \in Places(c.order) : Ahead(q, a) /\ c.hosts[HostAt(c.order, q)] = "failed"
      BY <1>4, <1>5 DEF Walked
<1>7. \A q \in Places(c.order) : HostAt(c.order, q) \in Hosts
      BY <1>1, HostAtIsHost
<1> HIDE DEF x
<1>8. ASSUME NEW q \in Places(c.order), Ahead(q, a)
      PROVE  \/ HostAt(c.order, q) = x
             \/ /\ d.hosts[HostAt(c.order, q)] \in Ended
                /\ o => d.hosts[HostAt(c.order, q)] = "complete"
      BY <1>3, <1>6, <1>7, <1>8
<1>9. ASSUME ~o, Once(c.order)
      PROVE  \E q \in Places(c.order) : Ahead(q, a) /\ d.hosts[HostAt(c.order, q)] = "failed"
  <2>1. PICK q \in Places(c.order) : Ahead(q, a) /\ c.hosts[HostAt(c.order, q)] = "failed"
        BY <1>6, <1>9
  <2>2. q # a
    <3>1. \A r \in Places(c.order) : ~Ahead(r, r)
          BY DEF Places, Ahead
    <3> QED BY <2>1, <3>1
  <2>3. HostAt(c.order, q) # x
        BY <1>1, <1>9, <2>2, OnePlaceOnly DEF x
  <2> QED BY <1>3, <1>7, <2>1, <2>3
<1>10. Walked(d, a, o, IsMarked("open", "callback"))
      BY <1>3, <1>4, <1>8, <1>9 DEF Walked, x
<1> QED BY <1>3, <1>4, <1>5, <1>10 DEF RunOK

(* The callbacks of a host end it, and the run goes on behind it. *)
LEMMA CallbacksIsOK ==
    ASSUME NEW c \in Cluster, NEW k, NEW a, NEW o \in BOOLEAN, NEW success \in BOOLEAN,
           RunOK("callback", k, c, a, o),
           NEW d, d = [c EXCEPT !.hosts[HostAt(c.order, a)] =
                                  IF success THEN "complete" ELSE "failed"]
    PROVE  /\ d \in Cluster
           /\ RunOK("open", "advance", d, After(c.order, a), o /\ success)
           /\ After(c.order, a) # <<0, 0>>
<1> DEFINE x == HostAt(c.order, a)
<1> DEFINE v == IF success THEN "complete" ELSE "failed"
<1> DEFINE b == After(c.order, a)
<1>0. c.order \in Orders /\ c.order \in Seq(STRING)
      BY OrderIsTyped DEF Cluster
<1>1. /\ ~IsFinishing("callback", k) /\ IsMarked("callback", k)
      /\ ~IsFinishing("open", "advance") /\ ~IsMarked("open", "advance")
      BY DEF IsFinishing, IsMarked
<1>2. /\ a \in Places(c.order) /\ c.state = "provisioning"
      /\ Walked(c, a, o, IsMarked("callback", k))
      BY <1>1 DEF RunOK
<1>3. x \in Hosts /\ \A q \in Places(c.order) : HostAt(c.order, q) \in Hosts
      BY <1>0, <1>2, HostAtIsHost
<1>4. /\ d \in Cluster /\ d.state = c.state /\ d.order = c.order
      /\ \A g \in Hosts : d.hosts[g] = IF g = x THEN v ELSE c.hosts[g]
      BY <1>3, HostChanged DEF HostState
<1>5. /\ b \in Places(c.order) \cup {End(c.order)}
      /\ \A q \in Places(c.order) : Ahead(q, b) <=> Ahead(q, a) \/ q = a
      BY <1>0, <1>2, NextPlace
<1>6. /\ \A q \in Places(c.order) : Ahead(q, a) =>
           \/ HostAt(c.order, q) = x
           \/ /\ c.hosts[HostAt(c.order, q)] \in Ended
              /\ o => c.hosts[HostAt(c.order, q)] = "complete"
      /\ ~o /\ Once(c.order) =>
           \E q \in Places(c.order) : Ahead(q, a) /\ c.hosts[HostAt(c.order, q)] = "failed"
      BY <1>2 DEF Walked
<1>7. v \in Ended /\ (success => v = "complete") /\ (~success => v = "failed")
      BY DEF Ended
<1> HIDE DEF x, v, b
<1>8. ASSUME NEW q \in Places(c.order), Ahead(q, b)
      PROVE  /\ d.hosts[HostAt(c.order, q)] \in Ended
             /\ o /\ success => d.hosts[HostAt(c.order, q)] = "complete"
  <2>1. Ahead(q, a) \/ HostAt(c.order, q) = x
        BY <1>5, <1>8 DEF x
  <2>2. CASE HostAt(c.order, q) = x
        BY <1>3, <1>4, <1>7, <2>2
  <2>3. CASE Ahead(q, a) /\ HostAt(c.order, q) # x
        BY <1>3, <1>4, <1>6, <2>3
  <2> QED BY <2>1, <2>2, <2>3
<1>9. ASSUME ~(o /\ success), Once(c.order)
      PROVE  \E q \in Places(c.order) : Ahead(q, b) /\ d.hosts[HostAt(c.order, q)] = "failed"
  <2>1. CASE ~success
    <3>1. Ahead(a, b) /\ d.hosts[HostAt(c.order, a)] = "failed"
          BY <1>2, <1>3, <1>4, <1>5, <1>7, <2>1 DEF x
    <3> QED BY <1>2, <3>1
  <2>2. CASE ~o
    <3>1. PICK q \in Places(c.order) : Ahead(q, a) /\ c.hosts[HostAt(c.order, q)] = "failed"
          BY <1>6, <1>9, <2>2
    <3>2. \A r \in Places(c.order) : ~Ahead(r, r)
          BY DEF Places, Ahead
    <3>3. HostAt(c.order, q) # x
          BY <1>0, <1>2, <1>9, <3>1, <3>2, OnePlaceOnly DEF x
    <3> QED BY <1>3, <1>4, <1>5, <3>1, <3>3
  <2> QED BY <1>9, <2>1, <2>2
<1>10. Walked(d, b, o /\ success, IsMarked("open", "advance"))
      BY <1>1, <1>4, <1>8, <1>9 DEF Walked
<1>11. RunOK("open", "advance", d, b, o /\ success)
      BY <1>1, <1>2, <1>4, <1>5, <1>10 DEF RunOK, End
<1>12. b # <<0, 0>>
  <2>1. Len(OrderedGroups(c.order)) + 1 # 0
        BY <1>0, GroupsAre, LenProperties
  <2>2. End(c.order) # <<0, 0>>
        BY <2>1 DEF End
  <2> QED BY <1>0, <1>5, <2>2, LastPlace
<1> QED BY <1>4, <1>11, <1>12 DEF b

(* After the last host every host has ended, and the outcome says how. *)
LEMMA FinishIsTruthful ==
    ASSUME NEW c \in Cluster, NEW k, NEW a, NEW o \in BOOLEAN,
           RunOK("advance", k, c, a, o), a = End(c.order),
           NEW d, d = [c EXCEPT !.state = Outcome(c, o)]
    PROVE  d \in Cluster /\ Truthful(d) /\ RunOK("open", "idle", d, a, o)
<1>1. c.order \in Seq(STRING)
      BY OrderIsTyped
<1>2. /\ ~IsFinishing("advance", k) /\ ~IsMarked("advance", k)
      /\ IsFinishing("open", "idle") /\ ~IsMarked("open", "idle")
      BY DEF IsFinishing, IsMarked
<1>3. Walked(c, a, o, IsMarked("advance", k))
      BY <1>2 DEF RunOK
<1>4. Outcome(c, o) \in {"complete", "partial", "failed"}
      BY DEF Outcome
<1>5. d \in Cluster /\ d.state = Outcome(c, o) /\ d.order = c.order /\ d.hosts = c.hosts
      BY <1>4, StateChanged DEF ClusterState
<1>6. \A h \in Hosts : c.hosts[h] \in Ended /\ (o => c.hosts[h] = "complete")
  <2> TAKE h \in Hosts
  <2>1. PICK q \in Places(c.order) : HostAt(c.order, q) = h
        BY <1>1, EveryHostHasAPlace
  <2>2. Ahead(q, a)
        BY <1>1, LastPlace
  <2> QED BY <1>2, <1>3, <2>1, <2>2 DEF Walked
<1>7. ~o /\ Once(c.order) => \E h \in Hosts : c.hosts[h] = "failed"
      BY <1>1, <1>3, HostAtIsHost DEF Walked
<1>8. CASE o
  <2>1. d.state = "complete" /\ All(d, "complete")
        BY <1>5, <1>6, <1>8 DEF Outcome, All
  <2> QED BY <2>1, <1>2, <1>5 DEF Truthful, RunOK
<1>9. CASE ~o /\ Exists(c, "complete")
  <2>1. d.state = "partial"
        BY <1>5, <1>9 DEF Outcome
  <2>2. ~All(d, "failed")
        BY <1>5, <1>9 DEF All, Exists
  <2>3. Once(d.order) => ~All(d, "complete")
        BY <1>5, <1>7, <1>9 DEF All
  <2> QED BY <2>1, <2>2, <2>3, <1>2, <1>5 DEF Truthful, RunOK, Once
<1>10. CASE ~o /\ ~Exists(c, "complete")
  <2>1. d.state = "failed"
        BY <1>5, <1>10 DEF Outcome
  <2>2. All(d, "failed")
        BY <1>5, <1>6, <1>10 DEF All, Exists, Ended
  <2> QED BY <2>1, <2>2, <1>2, <1>5 DEF Truthful, RunOK
<1> QED BY <1>8, <1>9, <1>10

-----------------------------------------------------------------------------
(***************************************************************************)
(* What the calls keep                                                     *)
(***************************************************************************)

LocalInv == \A t \in Threads : LocalOK(pc[t], then[t], cluster[t], at[t], ok[t])
SafeInv == TypeOK /\ LocalInv /\ SummaryIsTruthful

(* What a thread that goes to save has. *)
LEMMA SaveTypes ==
    ASSUME TypeOK, NEW t \in Threads, pc[t] # "write",
           NEW c \in Cluster, NEW k \in {"idle", "callback", "advance"}, Save(t, c, k)
    PROVE  /\ pc' \in [Threads -> Steps] /\ cluster' \in [Threads -> Cluster \cup {None}]
           /\ \A u \in Threads : pc'[u] # "idle" => cluster'[u] \in Cluster
           /\ then' \in [Threads -> {"idle", "callback", "advance"}]
           /\ \A u \in Threads : pc'[u] # "write" <=> pc[u] # "write"
           /\ pc'[t] = "open" /\ cluster'[t] = c /\ then'[t] = k
           /\ \A u \in Threads \ {t} : /\ pc'[u] = pc[u] /\ cluster'[u] = cluster[u]
                                       /\ then'[u] = then[u]
<1>1. /\ pc \in [Threads -> Steps] /\ cluster \in [Threads -> Cluster \cup {None}]
      /\ then \in [Threads -> {"idle", "callback", "advance"}]
      /\ \A u \in Threads : pc[u] # "idle" => cluster[u] \in Cluster
      BY DEF TypeOK
<1>2. /\ cluster' = [cluster EXCEPT ![t] = c] /\ then' = [then EXCEPT ![t] = k]
      /\ pc' = [pc EXCEPT ![t] = "open"]
      BY DEF Save
<1>3. pc'[t] = "open" /\ cluster'[t] = c /\ then'[t] = k
      BY <1>1, <1>2
<1>4. \A u \in Threads \ {t} : pc'[u] = pc[u] /\ cluster'[u] = cluster[u] /\ then'[u] = then[u]
      BY <1>1, <1>2
<1>5. /\ pc' \in [Threads -> Steps] /\ cluster' \in [Threads -> Cluster \cup {None}]
      /\ then' \in [Threads -> {"idle", "callback", "advance"}]
      BY <1>1, <1>2 DEF Steps
<1>6. \A u \in Threads : pc'[u] # "idle" => cluster'[u] \in Cluster
      BY <1>1, <1>3, <1>4
<1>7. \A u \in Threads : pc'[u] # "write" <=> pc[u] # "write"
      BY <1>3, <1>4
<1> QED BY <1>3, <1>4, <1>5, <1>6, <1>7

(* What a thread that returns has. *)
LEMMA ReturnTypes ==
    ASSUME TypeOK, NEW t \in Threads, Return(t)
    PROVE  /\ pc' \in [Threads -> Steps] /\ cluster' \in [Threads -> Cluster \cup {None}]
           /\ \A u \in Threads : pc'[u] # "idle" => cluster'[u] \in Cluster
           /\ at' \in [Threads -> Nat \X Nat] /\ ok' \in [Threads -> BOOLEAN]
           /\ then' \in [Threads -> {"idle", "callback", "advance"}]
           /\ pc'[t] = "idle" /\ then'[t] = "idle" /\ at'[t] = <<0, 0>> /\ ok'[t] = TRUE
           /\ \A u \in Threads \ {t} : /\ pc'[u] = pc[u] /\ cluster'[u] = cluster[u]
                                       /\ then'[u] = then[u]
                                       /\ at'[u] = at[u] /\ ok'[u] = ok[u]
<1>1. /\ pc \in [Threads -> Steps] /\ cluster \in [Threads -> Cluster \cup {None}]
      /\ then \in [Threads -> {"idle", "callback", "advance"}]
      /\ at \in [Threads -> Nat \X Nat] /\ ok \in [Threads -> BOOLEAN]
      /\ \A u \in Threads : pc[u] # "idle" => cluster[u] \in Cluster
      BY DEF TypeOK
<1>2. /\ cluster' = [cluster EXCEPT ![t] = None] /\ at' = [at EXCEPT ![t] = <<0, 0>>]
      /\ ok' = [ok EXCEPT ![t] = TRUE] /\ then' = [then EXCEPT ![t] = "idle"]
      /\ pc' = [pc EXCEPT ![t] = "idle"]
      BY DEF Return
<1>3. pc'[t] = "idle" /\ then'[t] = "idle" /\ at'[t] = <<0, 0>> /\ ok'[t] = TRUE
      BY <1>1, <1>2
<1>4. \A u \in Threads \ {t} : /\ pc'[u] = pc[u] /\ cluster'[u] = cluster[u]
                               /\ then'[u] = then[u] /\ at'[u] = at[u] /\ ok'[u] = ok[u]
      BY <1>1, <1>2
<1>5. /\ pc' \in [Threads -> Steps] /\ cluster' \in [Threads -> Cluster \cup {None}]
      /\ then' \in [Threads -> {"idle", "callback", "advance"}]
      BY <1>1, <1>2 DEF Steps
<1>6. at' \in [Threads -> Nat \X Nat] /\ ok' \in [Threads -> BOOLEAN]
      BY <1>1, <1>2
<1>7. \A u \in Threads : pc'[u] # "idle" => cluster'[u] \in Cluster
      BY <1>1, <1>3, <1>4
<1> QED BY <1>3, <1>4, <1>5, <1>6, <1>7

(* The other threads are where they were. *)
LEMMA OneThread ==
    ASSUME LocalInv, NEW t \in Threads,
           \A u \in Threads \ {t} : /\ pc'[u] = pc[u] /\ cluster'[u] = cluster[u]
                                    /\ then'[u] = then[u] /\ at'[u] = at[u] /\ ok'[u] = ok[u],
           LocalOK(pc'[t], then'[t], cluster'[t], at'[t], ok'[t])
    PROVE  LocalInv'
<1> SUFFICES ASSUME NEW u \in Threads
             PROVE  LocalOK(pc'[u], then'[u], cluster'[u], at'[u], ok'[u])
    BY DEF LocalInv
<1>1. CASE u = t
      BY <1>1
<1>2. CASE u # t
  <2>1. LocalOK(pc[u], then[u], cluster[u], at[u], ok[u])
        BY DEF LocalInv
  <2>2. /\ pc'[u] = pc[u] /\ cluster'[u] = cluster[u] /\ then'[u] = then[u]
        /\ at'[u] = at[u] /\ ok'[u] = ok[u]
        BY <1>2
  <2> QED BY <2>1, <2>2
<1> QED BY <1>1, <1>2

LEMMA IdleIsOK == ASSUME NEW k, NEW c, k = "idle" PROVE LocalOK("idle", k, c, <<0, 0>>, TRUE)
BY DEF LocalOK

(* A call that is no run: it saves a copy that is truthful. *)
LEMMA CallIsOK ==
    ASSUME NEW c, Truthful(c), NEW o PROVE LocalOK("open", "idle", c, <<0, 0>>, o)
BY DEF LocalOK

LEMMA SaveOpenTypes ==
    ASSUME TypeOK, NEW t \in Threads, SaveOpen(t) PROVE TypeOK'
<1>1. /\ pc[t] = "open" /\ file' = Torn /\ handle' = [handle EXCEPT ![t] = "mine"]
      /\ fresh' = fresh \cap {t} /\ contested' = (contested \/ t \notin fresh)
      /\ pc' = [pc EXCEPT ![t] = "write"]
      /\ UNCHANGED <<cluster, at, ok, then, abandoned>>
      BY DEF SaveOpen, local
<1>2. file' \in Cluster \cup {None, Torn}
      BY <1>1
<1>3. pc' \in [Threads -> Steps] /\ \A u \in Threads : pc'[u] = "idle" => pc[u] = "idle"
      BY <1>1 DEF TypeOK, Steps
<1>4. handle' \in [Threads -> {"closed", "mine", "shared", "gone"}]
      BY <1>1 DEF TypeOK
<1>5. \A u \in Threads : handle'[u] = "closed" <=> pc'[u] # "write"
      BY <1>1 DEF TypeOK
<1>6. fresh' \subseteq Threads /\ contested' \in BOOLEAN
      BY <1>1 DEF TypeOK
<1> QED BY <1>1, <1>2, <1>3, <1>4, <1>5, <1>6 DEF TypeOK

LEMMA SaveWriteTypes ==
    ASSUME TypeOK, NEW t \in Threads, SaveWrite(t) PROVE TypeOK'
<1>1. /\ pc[t] = "write" /\ cluster[t] \in Cluster
      /\ file' \in CASE handle[t] = "mine" -> {cluster[t]}
                     [] handle[t] = "shared" -> {cluster[t], Torn}
                     [] handle[t] = "gone" -> {file}
      /\ handle' = [u \in Threads |->
                     IF u = t THEN "closed"
                     ELSE IF handle[t] # "gone" /\ handle[u] = "mine" THEN "shared"
                     ELSE handle[u]]
      /\ UNCHANGED <<fresh, contested, abandoned>>
      BY DEF SaveWrite, TypeOK
<1>2. file' \in Cluster \cup {None, Torn}
  <2>1. handle[t] \in {"mine", "shared", "gone"}
        BY <1>1 DEF TypeOK
  <2>2. file' \in {cluster[t], Torn, file}
        BY <1>1, <2>1
  <2> QED BY <1>1, <2>2 DEF TypeOK
<1>3. handle' \in [Threads -> {"closed", "mine", "shared", "gone"}]
      /\ \A u \in Threads \ {t} : handle'[u] = "closed" <=> handle[u] = "closed"
      BY <1>1 DEF TypeOK
<1>4. handle'[t] = "closed"
      BY <1>1
<1>5. CASE then[t] = "idle"
  <2>1. Return(t)
        BY <1>5 DEF SaveWrite
  <2>2. \A u \in Threads : handle'[u] = "closed" <=> pc'[u] # "write"
    <3>1. pc'[t] = "idle" /\ \A u \in Threads \ {t} : pc'[u] = pc[u]
          BY <2>1, ReturnTypes
    <3>2. \A u \in Threads : handle[u] = "closed" <=> pc[u] # "write"
          BY DEF TypeOK
    <3> QED BY <3>1, <3>2, <1>3, <1>4
  <2> QED BY <1>1, <1>2, <1>3, <2>1, <2>2, ReturnTypes DEF TypeOK
<1>6. CASE then[t] # "idle"
  <2>1. pc' = [pc EXCEPT ![t] = then[t]] /\ UNCHANGED <<cluster, at, ok, then>>
        BY <1>6 DEF SaveWrite, local
  <2>2. then[t] \in {"callback", "advance"}
        BY <1>6 DEF TypeOK
  <2>3. /\ pc' \in [Threads -> Steps] /\ pc'[t] = then[t]
        /\ \A u \in Threads \ {t} : pc'[u] = pc[u]
        BY <2>1, <2>2 DEF TypeOK, Steps
  <2>4. \A u \in Threads : handle'[u] = "closed" <=> pc'[u] # "write"
        BY <2>2, <2>3, <1>3, <1>4 DEF TypeOK
  <2>5. \A u \in Threads : pc'[u] # "idle" => cluster'[u] \in Cluster
        BY <1>1, <2>1, <2>3 DEF TypeOK
  <2> QED BY <1>1, <1>2, <1>3, <2>1, <2>3, <2>4, <2>5 DEF TypeOK
<1> QED BY <1>5, <1>6

LEMMA SaveFailTypes ==
    ASSUME TypeOK, NEW t \in Threads, SaveFail(t) PROVE TypeOK'
<1>1. /\ handle' = [handle EXCEPT ![t] = "closed"] /\ abandoned' = TRUE /\ Return(t)
      /\ UNCHANGED <<file, fresh, contested>>
      BY DEF SaveFail
<1>2. handle' \in [Threads -> {"closed", "mine", "shared", "gone"}] /\ handle'[t] = "closed"
      /\ \A u \in Threads \ {t} : handle'[u] = handle[u]
      BY <1>1 DEF TypeOK
<1>3. \A u \in Threads : handle'[u] = "closed" <=> pc'[u] # "write"
  <2>1. pc'[t] = "idle" /\ \A u \in Threads \ {t} : pc'[u] = pc[u]
        BY <1>1, ReturnTypes
  <2>2. \A u \in Threads : handle[u] = "closed" <=> pc[u] # "write"
        BY DEF TypeOK
  <2> QED BY <2>1, <2>2, <1>2
<1> QED BY <1>1, <1>2, <1>3, ReturnTypes DEF TypeOK

(* A thread goes to save and touches neither the file nor the place it is at. *)
LEMMA SaveKeepsTypes ==
    ASSUME TypeOK, NEW t \in Threads, pc[t] # "write",
           NEW c \in Cluster, NEW k \in {"idle", "callback", "advance"}, Save(t, c, k),
           fresh' \subseteq Threads,
           at' \in [Threads -> Nat \X Nat], ok' \in [Threads -> BOOLEAN],
           UNCHANGED <<file, handle, contested, abandoned>>
    PROVE  TypeOK'
<1>1. /\ pc' \in [Threads -> Steps] /\ cluster' \in [Threads -> Cluster \cup {None}]
      /\ \A u \in Threads : pc'[u] # "idle" => cluster'[u] \in Cluster
      /\ then' \in [Threads -> {"idle", "callback", "advance"}]
      /\ \A u \in Threads : pc'[u] # "write" <=> pc[u] # "write"
      BY SaveTypes
<1>2. \A u \in Threads : handle'[u] = "closed" <=> pc'[u] # "write"
  <2>1. \A u \in Threads : handle[u] = "closed" <=> pc[u] # "write"
        BY DEF TypeOK
  <2> QED BY <1>1, <2>1
<1> QED BY <1>1, <1>2 DEF TypeOK

(* A call that is no run keeps what a run that is none keeps. *)
LEMMA CallKeeps ==
    ASSUME SafeInv, NEW t \in Threads, pc[t] = "idle",
           NEW c \in Cluster, Truthful(c), Save(t, c, "idle"), fresh' = fresh \cup {t},
           UNCHANGED <<file, at, ok, handle, contested, abandoned>>
    PROVE  SafeInv'
<1>1. TypeOK'
      BY SaveKeepsTypes DEF SafeInv, TypeOK
<1>2. /\ pc'[t] = "open" /\ cluster'[t] = c /\ then'[t] = "idle"
      /\ \A u \in Threads \ {t} : pc'[u] = pc[u] /\ cluster'[u] = cluster[u] /\ then'[u] = then[u]
      BY SaveTypes DEF SafeInv
<1>3. at'[t] = <<0, 0>>
      BY DEF SafeInv, LocalInv, LocalOK
<1>4. LocalOK(pc'[t], then'[t], cluster'[t], at'[t], ok'[t])
      BY <1>2, <1>3, CallIsOK
<1>5. LocalInv'
      BY <1>2, <1>4, OneThread DEF SafeInv
<1> QED BY <1>1, <1>5 DEF SafeInv, SummaryIsTruthful

LEMMA CreateClusterKeeps ==
    ASSUME SafeInv, NEW t \in Threads, NEW order \in Orders, CreateCluster(t, order)
    PROVE  SafeInv'
<1> DEFINE c == [state |-> "defined", hosts |-> [h \in Hosts |-> "pending"], order |-> order]
<1>1. c \in Cluster /\ c.state = "defined"
      BY DEF Cluster, ClusterState, HostState
<1>2. pc[t] = "idle" /\ Save(t, c, "idle") /\ fresh' = fresh \cup {t}
      /\ UNCHANGED <<file, at, ok, handle, contested, abandoned>>
      BY DEF CreateCluster
<1> HIDE DEF c
<1>3. Truthful(c)
      BY <1>1, UnfinishedIsTruthful
<1> QED BY <1>1, <1>2, <1>3, CallKeeps

LEMMA MarkHostCompleteKeeps ==
    ASSUME SafeInv, NEW t \in Threads, NEW h \in Hosts, MarkHostComplete(t, h)
    PROVE  SafeInv'
<1>1. /\ pc[t] = "idle" /\ file \in Cluster /\ Save(t, AsComplete(file, h), "idle")
      /\ fresh' = fresh \cup {t} /\ UNCHANGED <<file, at, ok, handle, contested, abandoned>>
      BY DEF MarkHostComplete, AsComplete
<1>2. Truthful(file)
      BY <1>1 DEF SafeInv, SummaryIsTruthful
<1>3. AsComplete(file, h) \in Cluster /\ Truthful(AsComplete(file, h))
      BY <1>1, <1>2, MarkCompleteIsTruthful
<1> QED BY <1>1, <1>3, CallKeeps

LEMMA MarkHostFailedKeeps ==
    ASSUME SafeInv, NEW t \in Threads, NEW h \in Hosts, MarkHostFailed(t, h)
    PROVE  SafeInv'
<1>1. /\ pc[t] = "idle" /\ file \in Cluster /\ Save(t, AsFailed(file, h), "idle")
      /\ fresh' = fresh \cup {t} /\ UNCHANGED <<file, at, ok, handle, contested, abandoned>>
      BY DEF MarkHostFailed, AsFailed
<1>2. Truthful(file)
      BY <1>1 DEF SafeInv, SummaryIsTruthful
<1>3. AsFailed(file, h) \in Cluster /\ Truthful(AsFailed(file, h))
      BY <1>1, <1>2, MarkFailedIsTruthful
<1> QED BY <1>1, <1>3, CallKeeps

LEMMA StartProvisioningKeeps ==
    ASSUME SafeInv, NEW t \in Threads, StartProvisioning(t)
    PROVE  SafeInv'
<1> DEFINE c == [file EXCEPT !.state = "provisioning"]
<1>1. /\ pc[t] = "idle" /\ file \in Cluster /\ cluster' = [cluster EXCEPT ![t] = c]
      /\ at' = [at EXCEPT ![t] = <<1, 1>>] /\ pc' = [pc EXCEPT ![t] = "advance"]
      /\ fresh' = fresh \cup {t} /\ UNCHANGED <<file, ok, then, handle, contested, abandoned>>
      BY DEF StartProvisioning
<1>2. c \in Cluster /\ c.state = "provisioning" /\ RunOK("advance", then[t], c, <<1, 1>>, TRUE)
      BY <1>1, StartIsOK
<1> HIDE DEF c
<1>3. /\ pc'[t] = "advance" /\ cluster'[t] = c /\ at'[t] = <<1, 1>>
      /\ pc' \in [Threads -> Steps] /\ cluster' \in [Threads -> Cluster \cup {None}]
      /\ at' \in [Threads -> Nat \X Nat]
      BY <1>1, <1>2 DEF SafeInv, TypeOK, Steps
<1>4. \A u \in Threads \ {t} : pc'[u] = pc[u] /\ cluster'[u] = cluster[u] /\ at'[u] = at[u]
      BY <1>1 DEF SafeInv, TypeOK
<1>5. TypeOK'
  <2>1. \A u \in Threads : pc'[u] # "idle" => cluster'[u] \in Cluster
        BY <1>2, <1>3, <1>4 DEF SafeInv, TypeOK
  <2>2. \A u \in Threads : handle[u] = "closed" <=> pc[u] # "write"
        BY DEF SafeInv, TypeOK
  <2>3. \A u \in Threads : handle'[u] = "closed" <=> pc'[u] # "write"
        BY <2>2, <1>1, <1>3, <1>4
  <2>4. fresh' \subseteq Threads
        BY <1>1 DEF SafeInv, TypeOK
  <2> QED BY <1>1, <1>3, <2>1, <2>3, <2>4 DEF SafeInv, TypeOK
<1>6. LocalInv'
  <2>1. ok[t] = TRUE /\ ok[t] \in BOOLEAN
        BY <1>1 DEF SafeInv, LocalInv, LocalOK, TypeOK
  <2>2. Truthful(c)
        BY <1>2, UnfinishedIsTruthful
  <2>3. LocalOK("advance", then[t], c, <<1, 1>>, TRUE)
    <3>1. <<1, 1>> # <<0, 0>> /\ "advance" # "idle"
          OBVIOUS
    <3> QED BY <1>2, <2>2, <3>1 DEF LocalOK
  <2>4. LocalOK(pc'[t], then'[t], cluster'[t], at'[t], ok'[t])
        BY <1>1, <1>3, <2>1, <2>3
  <2>5. \A u \in Threads \ {t} : /\ pc'[u] = pc[u] /\ cluster'[u] = cluster[u]
                                 /\ then'[u] = then[u] /\ at'[u] = at[u] /\ ok'[u] = ok[u]
        BY <1>1, <1>4
  <2> QED BY <2>4, <2>5, OneThread DEF SafeInv
<1> QED BY <1>1, <1>5, <1>6 DEF SafeInv, SummaryIsTruthful

(* From the open file to the text, and on: the run is where it was. *)
LEMMA OpenedIsOK ==
    ASSUME NEW k, NEW c, NEW a, NEW o, LocalOK("open", k, c, a, o)
    PROVE  LocalOK("write", k, c, a, o)
BY DEF LocalOK, RunOK, IsMarked, IsFinishing

LEMMA WrittenIsOK ==
    ASSUME NEW k \in {"callback", "advance"}, NEW c, NEW a, NEW o, LocalOK("write", k, c, a, o)
    PROVE  LocalOK(k, k, c, a, o)
<1>1. a # <<0, 0>> /\ RunOK("write", k, c, a, o) /\ Truthful(c)
      BY DEF LocalOK
<1>2. /\ ~IsFinishing("write", k) /\ ~IsFinishing(k, k)
      /\ IsMarked(k, k) = IsMarked("write", k)
      BY DEF IsFinishing, IsMarked
<1>3. RunOK(k, k, c, a, o)
      BY <1>1, <1>2 DEF RunOK
<1> QED BY <1>1, <1>3 DEF LocalOK

LEMMA SaveOpenKeeps ==
    ASSUME SafeInv, NEW t \in Threads, SaveOpen(t) PROVE SafeInv'
<1>1. /\ pc[t] = "open" /\ file' = Torn /\ pc' = [pc EXCEPT ![t] = "write"]
      /\ UNCHANGED <<cluster, at, ok, then>>
      BY DEF SaveOpen, local
<1>2. pc'[t] = "write" /\ \A u \in Threads \ {t} : pc'[u] = pc[u]
      BY <1>1 DEF SafeInv, TypeOK
<1>3. LocalOK("open", then[t], cluster[t], at[t], ok[t])
      BY <1>1 DEF SafeInv, LocalInv
<1>4. LocalOK(pc'[t], then'[t], cluster'[t], at'[t], ok'[t])
      BY <1>1, <1>2, <1>3, OpenedIsOK
<1>5. LocalInv'
      BY <1>1, <1>2, <1>4, OneThread DEF SafeInv
<1>6. SummaryIsTruthful'
      BY <1>1, ClusterAssumption DEF SummaryIsTruthful
<1> QED BY <1>5, <1>6, SaveOpenTypes DEF SafeInv

LEMMA SaveWriteKeeps ==
    ASSUME SafeInv, NEW t \in Threads, SaveWrite(t) PROVE SafeInv'
<1>1. /\ pc[t] = "write" /\ handle[t] \in {"mine", "shared", "gone"}
      /\ file' \in CASE handle[t] = "mine" -> {cluster[t]}
                     [] handle[t] = "shared" -> {cluster[t], Torn}
                     [] handle[t] = "gone" -> {file}
      BY DEF SaveWrite, SafeInv, TypeOK
<1>2. LocalOK("write", then[t], cluster[t], at[t], ok[t])
      BY <1>1 DEF SafeInv, LocalInv
<1>3. SummaryIsTruthful'
  <2>1. file' \in {cluster[t], Torn, file}
        BY <1>1
  <2>2. Truthful(cluster[t])
        BY <1>2 DEF LocalOK
  <2> QED BY <2>1, <2>2, ClusterAssumption DEF SummaryIsTruthful, SafeInv
<1>4. CASE then[t] = "idle"
  <2>1. Return(t)
        BY <1>4 DEF SaveWrite
  <2>2. /\ pc'[t] = "idle" /\ then'[t] = "idle" /\ at'[t] = <<0, 0>> /\ ok'[t] = TRUE
        /\ \A u \in Threads \ {t} : /\ pc'[u] = pc[u] /\ cluster'[u] = cluster[u]
                                    /\ then'[u] = then[u] /\ at'[u] = at[u] /\ ok'[u] = ok[u]
        BY <2>1, ReturnTypes DEF SafeInv
  <2>3. LocalOK(pc'[t], then'[t], cluster'[t], at'[t], ok'[t])
        BY <2>2, IdleIsOK
  <2>4. LocalInv'
        BY <2>2, <2>3, OneThread DEF SafeInv
  <2> QED BY <1>3, <2>4, SaveWriteTypes DEF SafeInv
<1>5. CASE then[t] # "idle"
  <2>1. pc' = [pc EXCEPT ![t] = then[t]] /\ UNCHANGED <<cluster, at, ok, then>>
        BY <1>5 DEF SaveWrite, local
  <2>2. then[t] \in {"callback", "advance"}
        BY <1>5 DEF SafeInv, TypeOK
  <2>3. pc'[t] = then[t] /\ \A u \in Threads \ {t} : pc'[u] = pc[u]
        BY <2>1 DEF SafeInv, TypeOK
  <2>4. LocalOK(pc'[t], then'[t], cluster'[t], at'[t], ok'[t])
        BY <1>2, <2>1, <2>2, <2>3, WrittenIsOK
  <2>5. LocalInv'
        BY <2>1, <2>3, <2>4, OneThread DEF SafeInv
  <2> QED BY <1>3, <2>5, SaveWriteTypes DEF SafeInv
<1> QED BY <1>4, <1>5

LEMMA SaveFailKeeps ==
    ASSUME SafeInv, NEW t \in Threads, SaveFail(t) PROVE SafeInv'
<1>1. Return(t) /\ file' = file
      BY DEF SaveFail
<1>2. /\ pc'[t] = "idle" /\ then'[t] = "idle" /\ at'[t] = <<0, 0>> /\ ok'[t] = TRUE
      /\ \A u \in Threads \ {t} : /\ pc'[u] = pc[u] /\ cluster'[u] = cluster[u]
                                  /\ then'[u] = then[u] /\ at'[u] = at[u] /\ ok'[u] = ok[u]
      BY <1>1, ReturnTypes DEF SafeInv
<1>3. LocalOK(pc'[t], then'[t], cluster'[t], at'[t], ok'[t])
      BY <1>2, IdleIsOK
<1>4. LocalInv'
      BY <1>2, <1>3, OneThread DEF SafeInv
<1> QED BY <1>1, <1>4, SaveFailTypes DEF SafeInv, SummaryIsTruthful

(* A run that goes to save, with its copy, place and outcome as they should be. *)
LEMMA RunKeeps ==
    ASSUME SafeInv, NEW t \in Threads, pc[t] # "write",
           NEW c \in Cluster, NEW k \in {"idle", "callback", "advance"}, Save(t, c, k),
           at' \in [Threads -> Nat \X Nat], ok' \in [Threads -> BOOLEAN],
           \A u \in Threads \ {t} : at'[u] = at[u] /\ ok'[u] = ok[u],
           at'[t] # <<0, 0>>, RunOK("open", k, c, at'[t], ok'[t]), Truthful(c),
           UNCHANGED <<file, fresh, handle, contested, abandoned>>
    PROVE  SafeInv'
<1>1. TypeOK'
      BY SaveKeepsTypes DEF SafeInv, TypeOK
<1>2. /\ pc'[t] = "open" /\ cluster'[t] = c /\ then'[t] = k
      /\ \A u \in Threads \ {t} : pc'[u] = pc[u] /\ cluster'[u] = cluster[u] /\ then'[u] = then[u]
      BY SaveTypes DEF SafeInv
<1>3. LocalOK(pc'[t], then'[t], cluster'[t], at'[t], ok'[t])
      BY <1>2 DEF LocalOK
<1>4. LocalInv'
      BY <1>2, <1>3, OneThread DEF SafeInv
<1> QED BY <1>1, <1>4 DEF SafeInv, SummaryIsTruthful

(* A run in the loop has a definition and a place in its groups. *)
LEMMA InTheLoop ==
    ASSUME SafeInv, NEW t \in Threads, pc[t] \in {"callback", "advance"}
    PROVE  /\ cluster[t] \in Cluster /\ cluster[t].order \in Seq(STRING)
           /\ at[t] # <<0, 0>> /\ at[t] \in Nat \X Nat /\ ok[t] \in BOOLEAN
           /\ RunOK(pc[t], then[t], cluster[t], at[t], ok[t])
           /\ at[t] \in Places(cluster[t].order) \cup {End(cluster[t].order)}
           /\ pc[t] = "callback" => at[t] \in Places(cluster[t].order)
           /\ cluster[t].state = "provisioning"
           /\ Current(t) = HostAt(cluster[t].order, at[t])
           /\ GroupsOf[cluster[t].order] = OrderedGroups(cluster[t].order)
<1>1. cluster[t] \in Cluster /\ at[t] \in Nat \X Nat /\ ok[t] \in BOOLEAN
      BY DEF SafeInv, TypeOK
<1>2. at[t] # <<0, 0>> /\ RunOK(pc[t], then[t], cluster[t], at[t], ok[t])
      BY DEF SafeInv, LocalInv, LocalOK
<1>3. ~IsFinishing(pc[t], then[t]) /\ (pc[t] = "callback" => IsMarked(pc[t], then[t]))
      BY DEF IsFinishing, IsMarked
<1>4. cluster[t].order \in Orders
      BY <1>1 DEF Cluster
<1> QED BY <1>1, <1>2, <1>3, <1>4, GroupsOfOrder DEF RunOK, Current, HostAt

LEMMA NextHostKeeps ==
    ASSUME SafeInv, NEW t \in Threads, NextHost(t) PROVE SafeInv'
<1> DEFINE x == HostAt(cluster[t].order, at[t])
<1> DEFINE d == [cluster[t] EXCEPT !.hosts[x] = "provisioning"]
<1>1. /\ pc[t] = "advance" /\ at[t][1] <= Len(GroupsOf[cluster[t].order])
      /\ UNCHANGED <<file, at, ok, handle, fresh, contested, abandoned>>
      BY DEF NextHost
<1>2. /\ cluster[t] \in Cluster /\ cluster[t].order \in Seq(STRING) /\ at[t] # <<0, 0>>
      /\ ok[t] \in BOOLEAN /\ RunOK("advance", then[t], cluster[t], at[t], ok[t])
      /\ at[t] \in Places(cluster[t].order) \cup {End(cluster[t].order)}
      /\ cluster[t].state = "provisioning" /\ Current(t) = x
      /\ GroupsOf[cluster[t].order] = OrderedGroups(cluster[t].order)
      BY <1>1, InTheLoop
<1>3. Save(t, d, "callback")
      BY <1>2 DEF NextHost
<1>4. at[t] \in Places(cluster[t].order)
  <2>1. Len(OrderedGroups(cluster[t].order)) \in Nat
        BY <1>2, GroupsAre, LenProperties
  <2>2. at[t] # End(cluster[t].order)
        BY <1>1, <1>2, <2>1 DEF End
  <2> QED BY <1>2, <2>2
<1>5. d \in Cluster /\ RunOK("open", "callback", d, at[t], ok[t])
      BY <1>2, <1>4, NextHostIsOK
<1> HIDE DEF d, x
<1>6. Truthful(d)
  <2>1. d.state = "provisioning"
        BY <1>5 DEF RunOK, IsFinishing
  <2> QED BY <2>1, UnfinishedIsTruthful
<1>7. /\ at' \in [Threads -> Nat \X Nat] /\ ok' \in [Threads -> BOOLEAN]
      /\ \A u \in Threads : at'[u] = at[u] /\ ok'[u] = ok[u]
      BY <1>1 DEF SafeInv, TypeOK
<1> QED BY <1>1, <1>2, <1>3, <1>5, <1>6, <1>7, RunKeeps

LEMMA CallbacksKeeps ==
    ASSUME SafeInv, NEW t \in Threads, NEW success \in BOOLEAN, Callbacks(t, success)
    PROVE  SafeInv'
<1> DEFINE x == HostAt(cluster[t].order, at[t])
<1> DEFINE d == [cluster[t] EXCEPT !.hosts[x] = IF success THEN "complete" ELSE "failed"]
<1> DEFINE b == After(cluster[t].order, at[t])
<1>1. /\ pc[t] = "callback" /\ at' = [at EXCEPT ![t] = b]
      /\ ok' = [ok EXCEPT ![t] = ok[t] /\ success]
      /\ UNCHANGED <<file, handle, fresh, contested, abandoned>>
      BY DEF Callbacks
<1>2. /\ cluster[t] \in Cluster /\ cluster[t].order \in Seq(STRING) /\ ok[t] \in BOOLEAN
      /\ RunOK("callback", then[t], cluster[t], at[t], ok[t])
      /\ at[t] \in Places(cluster[t].order) /\ Current(t) = x
      BY <1>1, InTheLoop
<1>3. Save(t, d, "advance")
      BY <1>2 DEF Callbacks
<1>4. /\ d \in Cluster /\ RunOK("open", "advance", d, b, ok[t] /\ success) /\ b # <<0, 0>>
      BY <1>2, CallbacksIsOK
<1>5. b \in Nat \X Nat
  <2>1. b \in Places(cluster[t].order) \cup {End(cluster[t].order)}
        BY <1>2, NextPlace DEF Cluster
  <2>2. End(cluster[t].order) \in Nat \X Nat
        BY <1>2, GroupsAre, LenProperties DEF End
  <2> QED BY <2>1, <2>2 DEF Places
<1> HIDE DEF d, x, b
<1>6. Truthful(d)
  <2>1. d.state = "provisioning"
        BY <1>4 DEF RunOK, IsFinishing
  <2> QED BY <2>1, UnfinishedIsTruthful
<1>7. at' \in [Threads -> Nat \X Nat] /\ at'[t] = b /\ \A u \in Threads \ {t} : at'[u] = at[u]
      BY <1>1, <1>5 DEF SafeInv, TypeOK
<1>8. /\ ok' \in [Threads -> BOOLEAN] /\ ok'[t] = (ok[t] /\ success)
      /\ \A u \in Threads \ {t} : ok'[u] = ok[u]
  <2>1. ok \in [Threads -> BOOLEAN]
        BY DEF SafeInv, TypeOK
  <2> QED BY <1>1, <2>1, Zenon
<1>9. RunOK("open", "advance", d, at'[t], ok'[t])
      BY <1>4, <1>7, <1>8
<1> QED BY <1>1, <1>3, <1>4, <1>6, <1>7, <1>8, <1>9, RunKeeps

LEMMA FinishKeeps ==
    ASSUME SafeInv, NEW t \in Threads, Finish(t) PROVE SafeInv'
<1> DEFINE d == [cluster[t] EXCEPT !.state = Outcome(cluster[t], ok[t])]
<1>1. /\ pc[t] = "advance" /\ at[t][1] > Len(GroupsOf[cluster[t].order])
      /\ Save(t, d, "idle")
      /\ UNCHANGED <<file, at, ok, handle, fresh, contested, abandoned>>
      BY DEF Finish
<1>2. /\ cluster[t] \in Cluster /\ cluster[t].order \in Seq(STRING) /\ at[t] # <<0, 0>>
      /\ ok[t] \in BOOLEAN /\ RunOK("advance", then[t], cluster[t], at[t], ok[t])
      /\ at[t] \in Places(cluster[t].order) \cup {End(cluster[t].order)}
      /\ GroupsOf[cluster[t].order] = OrderedGroups(cluster[t].order)
      BY <1>1, InTheLoop
<1>3. at[t] = End(cluster[t].order)
  <2>1. Len(OrderedGroups(cluster[t].order)) \in Nat
        BY <1>2, GroupsAre, LenProperties
  <2>2. at[t] \notin Places(cluster[t].order)
        BY <1>1, <1>2, <2>1 DEF Places
  <2> QED BY <1>2, <2>2
<1>4. d \in Cluster /\ Truthful(d) /\ RunOK("open", "idle", d, at[t], ok[t])
      BY <1>2, <1>3, FinishIsTruthful
<1> HIDE DEF d
<1>5. /\ at' \in [Threads -> Nat \X Nat] /\ ok' \in [Threads -> BOOLEAN]
      /\ \A u \in Threads : at'[u] = at[u] /\ ok'[u] = ok[u]
      BY <1>1 DEF SafeInv, TypeOK
<1> QED BY <1>1, <1>2, <1>4, <1>5, RunKeeps

LEMMA DeleteClusterKeeps ==
    ASSUME SafeInv, NEW t \in Threads, DeleteCluster(t) PROVE SafeInv'
<1>1. /\ file' = None /\ fresh' = {}
      /\ handle' = [u \in Threads |-> IF handle[u] = "closed" THEN "closed" ELSE "gone"]
      /\ UNCHANGED <<pc, cluster, at, ok, then, contested, abandoned>>
      BY DEF DeleteCluster, local
<1>2. /\ handle' \in [Threads -> {"closed", "mine", "shared", "gone"}]
      /\ \A u \in Threads : handle'[u] = "closed" <=> handle[u] = "closed"
      BY <1>1 DEF SafeInv, TypeOK
<1>3. \A u \in Threads : handle'[u] = "closed" <=> pc'[u] # "write"
      BY <1>1, <1>2 DEF SafeInv, TypeOK
<1>4. TypeOK'
      BY <1>1, <1>2, <1>3 DEF SafeInv, TypeOK
<1>5. LocalInv'
      BY <1>1 DEF SafeInv, LocalInv
<1>6. SummaryIsTruthful'
      BY <1>1, ClusterAssumption DEF SummaryIsTruthful
<1> QED BY <1>4, <1>5, <1>6 DEF SafeInv

(* A process that starts: every thread is idle. *)
LEMMA CrashKeeps == ASSUME SafeInv, Crash PROVE SafeInv'
<1>1. /\ pc' = [t \in Threads |-> "idle"] /\ cluster' = [t \in Threads |-> None]
      /\ at' = [t \in Threads |-> <<0, 0>>] /\ ok' = [t \in Threads |-> TRUE]
      /\ then' = [t \in Threads |-> "idle"] /\ handle' = [t \in Threads |-> "closed"]
      /\ fresh' = {} /\ abandoned' = TRUE /\ UNCHANGED <<file, contested>>
      BY DEF Crash
<1>2. TypeOK'
      BY <1>1 DEF SafeInv, TypeOK, Steps
<1>3. LocalInv'
      BY <1>1, IdleIsOK DEF LocalInv
<1> QED BY <1>1, <1>2, <1>3 DEF SafeInv, SummaryIsTruthful

LEMMA SafeStep == SafeInv /\ [Next]_vars => SafeInv'
<1> SUFFICES ASSUME SafeInv, [Next]_vars PROVE SafeInv'
    OBVIOUS
<1>1. ASSUME NEW t \in Threads, Step(t) PROVE SafeInv'
      BY <1>1, SaveOpenKeeps, SaveWriteKeeps, NextHostKeeps, CallbacksKeeps, FinishKeeps DEF Step
<1>2. ASSUME NEW t \in Threads, SaveFail(t) PROVE SafeInv'
      BY <1>2, SaveFailKeeps
<1>3. ASSUME NEW t \in Threads, NEW order \in Orders, CreateCluster(t, order) PROVE SafeInv'
      BY <1>3, CreateClusterKeeps
<1>4. ASSUME NEW t \in Threads, StartProvisioning(t) PROVE SafeInv'
      BY <1>4, StartProvisioningKeeps
<1>5. ASSUME NEW t \in Threads, NEW h \in Hosts, MarkHostComplete(t, h) \/ MarkHostFailed(t, h)
      PROVE  SafeInv'
      BY <1>5, MarkHostCompleteKeeps, MarkHostFailedKeeps
<1>6. ASSUME NEW t \in Threads, DeleteCluster(t) PROVE SafeInv'
      BY <1>6, DeleteClusterKeeps
<1>7. CASE Crash
      BY <1>7, CrashKeeps
<1>8. CASE UNCHANGED vars
  <2>1. UNCHANGED <<file, pc, cluster, at, ok, then, handle, fresh, contested, abandoned>>
        BY <1>8 DEF vars
  <2> QED BY <2>1 DEF SafeInv, TypeOK, LocalInv, SummaryIsTruthful
<1> QED BY <1>1, <1>2, <1>3, <1>4, <1>5, <1>6, <1>7, <1>8 DEF Next

LEMMA SafeInit == Init => SafeInv
<1> SUFFICES ASSUME Init PROVE SafeInv
    OBVIOUS
<1>1. TypeOK
      BY DEF Init, TypeOK, Steps
<1>2. LocalInv
      BY IdleIsOK DEF Init, LocalInv
<1>3. SummaryIsTruthful
      BY ClusterAssumption DEF Init, SummaryIsTruthful
<1> QED BY <1>1, <1>2, <1>3 DEF SafeInv

THEOREM SafeInvHolds == Spec => []SafeInv
BY SafeInit, SafeStep, PTL DEF Spec

(* What a call holds and where it is, in every state: in particular no     *)
(* handle outlives its save (Path.write_text closes it also when it fails).*)
THEOREM ClusterTypeCorrect == Spec => []TypeOK
<1>1. SafeInv => TypeOK
      BY DEF SafeInv
<1> QED BY <1>1, SafeInvHolds, PTL

(* Whatever is called, lost, cut short or overwritten, a cluster's         *)
(* summary agrees with its hosts, for any number of callers, of hosts and  *)
(* of roles and any order (cluster.py:444-455, 527-537, 569-582).          *)
THEOREM SummariesAreTruthful == Spec => []SummaryIsTruthful
<1>1. SafeInv => SummaryIsTruthful
      BY DEF SafeInv
<1> QED BY <1>1, SafeInvHolds, PTL

(* The callbacks of a host run when those of every host of an earlier role *)
(* have ended (cluster.py:177-179, 421-441).                               *)
THEOREM RolesGoInOrder == Spec => []RolesInOrder
<1>1. SafeInv => RolesInOrder
  <2> SUFFICES ASSUME SafeInv, NEW t \in Threads, pc[t] = "callback", NEW h \in Hosts,
                      Rank(cluster[t].order, h) < Rank(cluster[t].order, Current(t))
               PROVE  cluster[t].hosts[h] \in {"complete", "failed"}
      BY DEF RolesInOrder
  <2>1. /\ cluster[t].order \in Seq(STRING) /\ at[t] \in Places(cluster[t].order)
        /\ Current(t) = HostAt(cluster[t].order, at[t])
        /\ RunOK("callback", then[t], cluster[t], at[t], ok[t])
        BY InTheLoop
  <2>2. PICK p \in Places(cluster[t].order) :
               HostAt(cluster[t].order, p) = h /\ Ahead(p, at[t])
        BY <2>1, EveryHostHasAPlace
  <2>3. Walked(cluster[t], at[t], ok[t], IsMarked("callback", then[t]))
        BY <2>1 DEF RunOK, IsFinishing
  <2>4. h # Current(t)
        BY <2>1, RankIsFirst, HostAtIsHost
  <2> QED BY <2>1, <2>2, <2>3, <2>4 DEF Walked, Ended
<1> QED BY <1>1, SafeInvHolds, PTL

-----------------------------------------------------------------------------
(***************************************************************************)
(* Who keeps a cluster "provisioning"                                      *)
(***************************************************************************)

(* A run that has yet to save something; one whose text is still to land.  *)
Doing(t) == Running(t) /\ ~(pc[t] = "write" /\ then[t] = "idle")
SomeRun == \E t \in Threads : Doing(t)
Writer(t) == pc[t] = "write" /\ handle[t] # "gone"

(* While no outdated copy was saved and no call cut short: there is a run  *)
(* if the file says "provisioning", if a copy does that may yet be saved   *)
(* because it is what the file holds, or one that is being saved, by one   *)
(* thread, while the file is empty and nobody's copy is what it holds.     *)
FileProvisioning == file \in Cluster /\ file.state = "provisioning" => SomeRun
FreshProvisioning ==
    \A w \in fresh : pc[w] = "open" /\ cluster[w].state = "provisioning" => SomeRun
OneWriter ==
    \A w \in Threads : Writer(w) =>
      /\ file = Torn
      /\ fresh \subseteq {w}
      /\ cluster[w].state = "provisioning" => SomeRun
      /\ \A v \in Threads : Writer(v) => v = w
FileInv == ~contested /\ ~abandoned => FileProvisioning /\ FreshProvisioning /\ OneWriter

(* A step of t that leaves the file alone, ends no run, and after which t  *)
(* may be fresh and about to save a copy that says "provisioning" if there *)
(* is a run.                                                               *)
LEMMA FileUntouched ==
    ASSUME TypeOK, FileInv, NEW t \in Threads, pc[t] # "write", pc'[t] # "write",
           UNCHANGED <<file, handle, contested, abandoned>>,
           fresh' \subseteq fresh \cup {t},
           fresh' = fresh \/ file \in Cluster \cup {None},
           \A u \in Threads \ {t} : /\ pc'[u] = pc[u] /\ cluster'[u] = cluster[u]
                                    /\ then'[u] = then[u] /\ at'[u] = at[u],
           Doing(t) => Running(t)',
           (file \in Cluster /\ file.state = "provisioning" => SomeRun) =>
             (pc'[t] = "open" /\ cluster'[t].state = "provisioning" => SomeRun \/ Running(t)')
    PROVE  FileInv'
<1> SUFFICES ASSUME ~contested, ~abandoned
             PROVE  FileProvisioning' /\ FreshProvisioning' /\ OneWriter'
    BY DEF FileInv
<1>1. FileProvisioning /\ FreshProvisioning /\ OneWriter
      BY DEF FileInv
<1>2. Running(t)' => SomeRun'
      BY DEF SomeRun, Doing
<1>3. SomeRun => SomeRun'
  <2> SUFFICES ASSUME NEW u \in Threads, Doing(u) PROVE SomeRun'
      BY DEF SomeRun
  <2>1. CASE u = t
        BY <1>2, <2>1
  <2>2. CASE u # t
        BY <2>2 DEF SomeRun, Doing, Running
  <2> QED BY <2>1, <2>2
<1>4. FileProvisioning'
      BY <1>1, <1>3 DEF FileProvisioning
<1>5. FreshProvisioning'
  <2> SUFFICES ASSUME NEW w \in fresh', pc'[w] = "open", cluster'[w].state = "provisioning"
               PROVE  SomeRun'
      BY DEF FreshProvisioning
  <2>1. CASE w = t
        BY <1>1, <1>2, <1>3, <2>1 DEF FileProvisioning
  <2>2. CASE w # t
    <3>1. w \in fresh /\ w \in Threads
          BY <2>2 DEF TypeOK
    <3>2. pc[w] = "open" /\ cluster[w].state = "provisioning"
          BY <2>2, <3>1
    <3> QED BY <1>1, <1>3, <3>1, <3>2 DEF FreshProvisioning
  <2> QED BY <2>1, <2>2
<1>6. OneWriter'
  <2>1. \A u \in Threads : Writer(u)' => Writer(u) /\ u # t
        BY DEF Writer
  <2> SUFFICES ASSUME NEW w \in Threads, Writer(w)'
               PROVE  /\ file' = Torn /\ fresh' \subseteq {w}
                      /\ cluster'[w].state = "provisioning" => SomeRun'
                      /\ \A v \in Threads : Writer(v)' => v = w
      BY DEF OneWriter
  <2>2. /\ w # t /\ file = Torn /\ fresh \subseteq {w}
        /\ cluster[w].state = "provisioning" => SomeRun
        /\ \A v \in Threads : Writer(v) => v = w
        BY <1>1, <2>1 DEF OneWriter
  <2>3. fresh' = fresh
        BY <2>2, ClusterAssumption
  <2>4. cluster'[w].state = "provisioning" => SomeRun'
        BY <1>3, <2>2
  <2> QED BY <2>1, <2>2, <2>3, <2>4
<1> QED BY <1>4, <1>5, <1>6

(* The save of an outdated copy sets contested; the last save of a run     *)
(* holds an outcome; before any other save of a "provisioning" that counts *)
(* there is another run, and it goes on.                                   *)
LEMMA SaveOpenKeepsFile ==
    ASSUME SafeInv, FileInv, NEW t \in Threads, SaveOpen(t) PROVE FileInv'
<1>1. /\ pc[t] = "open" /\ file' = Torn /\ handle' = [handle EXCEPT ![t] = "mine"]
      /\ fresh' = fresh \cap {t} /\ contested' = (contested \/ t \notin fresh)
      /\ pc' = [pc EXCEPT ![t] = "write"]
      /\ UNCHANGED <<cluster, at, ok, then, abandoned>>
      BY DEF SaveOpen, local
<1> SUFFICES ASSUME ~contested', ~abandoned'
             PROVE  FileProvisioning' /\ FreshProvisioning' /\ OneWriter'
    BY DEF FileInv
<1>2. t \in fresh /\ FileProvisioning /\ FreshProvisioning /\ OneWriter
      BY <1>1 DEF FileInv
<1>3. /\ pc'[t] = "write" /\ handle'[t] = "mine"
      /\ \A u \in Threads \ {t} : pc'[u] = pc[u] /\ handle'[u] = handle[u]
      BY <1>1 DEF SafeInv, TypeOK
<1>4. cluster'[t].state = "provisioning" => SomeRun'
  <2> SUFFICES ASSUME cluster[t].state = "provisioning" PROVE SomeRun'
      BY <1>1
  <2>1. CASE Running(t) /\ then[t] # "idle"
    <3>1. Doing(t)'
          BY <1>1, <1>3, <2>1 DEF Doing, Running
    <3> QED BY <3>1 DEF SomeRun
  <2>2. CASE Running(t) /\ then[t] = "idle"
    <3>1. RunOK("open", "idle", cluster[t], at[t], ok[t])
          BY <1>1, <2>2 DEF SafeInv, LocalInv, LocalOK, Running
    <3>2. cluster[t].state # "provisioning"
          BY <3>1 DEF RunOK, IsFinishing
    <3> QED BY <3>2
  <2>3. CASE ~Running(t)
    <3>1. PICK u \in Threads : Doing(u)
          BY <1>1, <1>2 DEF FreshProvisioning, SomeRun
    <3>2. u # t
          BY <2>3, <3>1 DEF Doing
    <3>3. Doing(u)'
          BY <1>1, <1>3, <3>1, <3>2 DEF Doing, Running
    <3> QED BY <3>3 DEF SomeRun
  <2> QED BY <2>1, <2>2, <2>3
<1>5. FileProvisioning'
      BY <1>1, ClusterAssumption DEF FileProvisioning
<1>6. FreshProvisioning'
      BY <1>1, <1>3 DEF FreshProvisioning
<1>7. ASSUME NEW w \in Threads, Writer(w)' PROVE w = t
  <2> SUFFICES ASSUME w # t PROVE FALSE
      OBVIOUS
  <2>1. Writer(w)
        BY <1>3, <1>7 DEF Writer
  <2>2. fresh \subseteq {w}
        BY <1>2, <2>1 DEF OneWriter
  <2> QED BY <1>2, <2>2
<1>8. OneWriter'
      BY <1>1, <1>4, <1>7 DEF OneWriter
<1> QED BY <1>5, <1>6, <1>8

(* What lands says "provisioning" only if there is a run. *)
LEMMA SaveWriteKeepsFile ==
    ASSUME SafeInv, FileInv, NEW t \in Threads, SaveWrite(t) PROVE FileInv'
<1>1. /\ pc[t] = "write" /\ handle[t] \in {"mine", "shared", "gone"}
      /\ file' \in CASE handle[t] = "mine" -> {cluster[t]}
                     [] handle[t] = "shared" -> {cluster[t], Torn}
                     [] handle[t] = "gone" -> {file}
      /\ handle' = [u \in Threads |->
                     IF u = t THEN "closed"
                     ELSE IF handle[t] # "gone" /\ handle[u] = "mine" THEN "shared"
                     ELSE handle[u]]
      /\ UNCHANGED <<fresh, contested, abandoned>>
      BY DEF SaveWrite, SafeInv, TypeOK
<1>2. /\ \A u \in Threads \ {t} : /\ pc'[u] = pc[u] /\ cluster'[u] = cluster[u]
                                  /\ then'[u] = then[u] /\ at'[u] = at[u]
      /\ pc'[t] \in {"idle", "callback", "advance"}
      /\ then[t] # "idle" => Running(t)'
  <2>1. CASE then[t] = "idle"
    <3>1. Return(t)
          BY <2>1 DEF SaveWrite
    <3> QED BY <2>1, <3>1, ReturnTypes DEF SafeInv
  <2>2. CASE then[t] # "idle"
    <3>1. pc' = [pc EXCEPT ![t] = then[t]] /\ UNCHANGED <<cluster, at, ok, then>>
          BY <2>2 DEF SaveWrite, local
    <3>2. then[t] \in {"callback", "advance"} /\ pc'[t] = then[t]
          /\ \A u \in Threads \ {t} : pc'[u] = pc[u]
          BY <2>2, <3>1 DEF SafeInv, TypeOK
    <3>3. at[t] # <<0, 0>>
          BY <2>2 DEF SafeInv, LocalInv, LocalOK
    <3> QED BY <3>1, <3>2, <3>3 DEF Running
  <2> QED BY <2>1, <2>2
<1>3. \A u \in Threads : Writer(u)' => Writer(u) /\ u # t
  <2>1. \A u \in Threads : handle[u] = "gone" => handle'[u] = "gone" \/ u = t
        BY <1>1
  <2> QED BY <2>1, <1>1, <1>2 DEF Writer
<1> SUFFICES ASSUME ~contested, ~abandoned
             PROVE  FileProvisioning' /\ FreshProvisioning' /\ OneWriter'
    BY <1>1 DEF FileInv
<1>4. FileProvisioning /\ FreshProvisioning /\ OneWriter
      BY DEF FileInv
<1>5. SomeRun => SomeRun'
  <2> SUFFICES ASSUME NEW u \in Threads, Doing(u) PROVE SomeRun'
      BY DEF SomeRun
  <2>1. CASE u = t
    <3>1. Running(t)'
          BY <1>1, <1>2, <2>1 DEF Doing
    <3> QED BY <1>2, <3>1 DEF SomeRun, Doing
  <2>2. CASE u # t
        BY <1>2, <2>2 DEF SomeRun, Doing, Running
  <2> QED BY <2>1, <2>2
<1>6. FileProvisioning'
  <2> SUFFICES ASSUME file' \in Cluster, file'.state = "provisioning" PROVE SomeRun'
      BY DEF FileProvisioning
  <2>1. CASE handle[t] = "gone"
        BY <1>1, <1>4, <1>5, <2>1 DEF FileProvisioning
  <2>2. CASE handle[t] # "gone"
    <3>1. file' \in {cluster[t], Torn}
          BY <1>1, <2>2
    <3>2. file' = cluster[t]
          BY <3>1, ClusterAssumption
    <3>3. Writer(t)
          BY <1>1, <2>2 DEF Writer
    <3> QED BY <1>4, <1>5, <3>2, <3>3 DEF OneWriter
  <2> QED BY <2>1, <2>2
<1>7. FreshProvisioning'
  <2> SUFFICES ASSUME NEW w \in fresh', pc'[w] = "open", cluster'[w].state = "provisioning"
               PROVE  SomeRun'
      BY DEF FreshProvisioning
  <2>1. w # t /\ w \in Threads /\ w \in fresh
        BY <1>1, <1>2 DEF SafeInv, TypeOK
  <2>2. pc[w] = "open" /\ cluster[w].state = "provisioning"
        BY <1>2, <2>1
  <2> QED BY <1>4, <1>5, <2>1, <2>2 DEF FreshProvisioning
<1>8. OneWriter'
  <2> SUFFICES ASSUME NEW w \in Threads, Writer(w)'
               PROVE  /\ file' = Torn /\ fresh' \subseteq {w}
                      /\ cluster'[w].state = "provisioning" => SomeRun'
                      /\ \A v \in Threads : Writer(v)' => v = w
      BY DEF OneWriter
  <2>1. /\ w # t /\ file = Torn /\ fresh \subseteq {w}
        /\ cluster[w].state = "provisioning" => SomeRun
        /\ \A v \in Threads : Writer(v) => v = w
        BY <1>3, <1>4 DEF OneWriter
  <2>2. handle[t] = "gone"
        BY <1>1, <2>1 DEF Writer
  <2>3. file' = file
        BY <1>1, <2>2
  <2>4. cluster'[w].state = "provisioning" => SomeRun'
        BY <1>2, <1>5, <2>1
  <2> QED BY <1>1, <1>3, <2>1, <2>3, <2>4
<1> QED BY <1>6, <1>7, <1>8

(* create_cluster() and the two marks: from a file that is there to read, *)
(* or from none.                                                           *)
LEMMA CallKeepsFile ==
    ASSUME SafeInv, FileInv, NEW t \in Threads, pc[t] = "idle", file \in Cluster \cup {None},
           NEW c \in Cluster, Save(t, c, "idle"), fresh' = fresh \cup {t},
           c.state = "provisioning" => file \in Cluster /\ file.state = "provisioning",
           UNCHANGED <<file, at, ok, handle, contested, abandoned>>
    PROVE  FileInv'
<1>1. /\ pc'[t] = "open" /\ cluster'[t] = c
      /\ \A u \in Threads \ {t} : pc'[u] = pc[u] /\ cluster'[u] = cluster[u] /\ then'[u] = then[u]
      BY SaveTypes DEF SafeInv
<1>2. ~Doing(t)
      BY DEF Doing, Running
<1> QED BY <1>1, <1>2, FileUntouched DEF SafeInv

LEMMA CreateClusterKeepsFile ==
    ASSUME SafeInv, FileInv, NEW t \in Threads, NEW order \in Orders, CreateCluster(t, order)
    PROVE  FileInv'
<1> DEFINE c == [state |-> "defined", hosts |-> [h \in Hosts |-> "pending"], order |-> order]
<1>1. c \in Cluster /\ c.state = "defined"
      BY DEF Cluster, ClusterState, HostState
<1>2. pc[t] = "idle" /\ file = None /\ Save(t, c, "idle") /\ fresh' = fresh \cup {t}
      /\ UNCHANGED <<file, at, ok, handle, contested, abandoned>>
      BY DEF CreateCluster
<1> HIDE DEF c
<1> QED BY <1>1, <1>2, CallKeepsFile

LEMMA MarkHostCompleteKeepsFile ==
    ASSUME SafeInv, FileInv, NEW t \in Threads, NEW h \in Hosts, MarkHostComplete(t, h)
    PROVE  FileInv'
<1>1. /\ pc[t] = "idle" /\ file \in Cluster /\ Save(t, AsComplete(file, h), "idle")
      /\ fresh' = fresh \cup {t} /\ UNCHANGED <<file, at, ok, handle, contested, abandoned>>
      BY DEF MarkHostComplete, AsComplete
<1>2. Truthful(file)
      BY <1>1 DEF SafeInv, SummaryIsTruthful
<1>3. /\ AsComplete(file, h) \in Cluster
      /\ AsComplete(file, h).state = "provisioning" => file.state = "provisioning"
      BY <1>1, <1>2, MarkCompleteIsTruthful
<1> QED BY <1>1, <1>3, CallKeepsFile

LEMMA MarkHostFailedKeepsFile ==
    ASSUME SafeInv, FileInv, NEW t \in Threads, NEW h \in Hosts, MarkHostFailed(t, h)
    PROVE  FileInv'
<1>1. /\ pc[t] = "idle" /\ file \in Cluster /\ Save(t, AsFailed(file, h), "idle")
      /\ fresh' = fresh \cup {t} /\ UNCHANGED <<file, at, ok, handle, contested, abandoned>>
      BY DEF MarkHostFailed, AsFailed
<1>2. Truthful(file)
      BY <1>1 DEF SafeInv, SummaryIsTruthful
<1>3. /\ AsFailed(file, h) \in Cluster
      /\ AsFailed(file, h).state = "provisioning" => file.state = "provisioning"
      BY <1>1, <1>2, MarkFailedIsTruthful
<1> QED BY <1>1, <1>3, CallKeepsFile

LEMMA StartProvisioningKeepsFile ==
    ASSUME SafeInv, FileInv, NEW t \in Threads, StartProvisioning(t) PROVE FileInv'
<1> DEFINE c == [file EXCEPT !.state = "provisioning"]
<1>1. /\ pc[t] = "idle" /\ file \in Cluster /\ cluster' = [cluster EXCEPT ![t] = c]
      /\ at' = [at EXCEPT ![t] = <<1, 1>>] /\ pc' = [pc EXCEPT ![t] = "advance"]
      /\ fresh' = fresh \cup {t} /\ UNCHANGED <<file, ok, then, handle, contested, abandoned>>
      BY DEF StartProvisioning
<1> HIDE DEF c
<1>2. /\ pc'[t] = "advance"
      /\ \A u \in Threads \ {t} : pc'[u] = pc[u] /\ cluster'[u] = cluster[u] /\ at'[u] = at[u]
      BY <1>1 DEF SafeInv, TypeOK
<1>3. ~Doing(t)
      BY <1>1 DEF Doing, Running
<1> QED BY <1>1, <1>2, <1>3, FileUntouched DEF SafeInv

(* The steps of a run's loop, after which it still runs. *)
LEMMA RunKeepsFile ==
    ASSUME SafeInv, FileInv, NEW t \in Threads, pc[t] \in {"callback", "advance"},
           NEW c, NEW k, Save(t, c, k),
           \A u \in Threads \ {t} : at'[u] = at[u], at'[t] # <<0, 0>>,
           UNCHANGED <<file, fresh, handle, contested, abandoned>>
    PROVE  FileInv'
<1>1. /\ pc'[t] = "open"
      /\ \A u \in Threads \ {t} : pc'[u] = pc[u] /\ cluster'[u] = cluster[u] /\ then'[u] = then[u]
      BY DEF Save, SafeInv, TypeOK
<1>2. Running(t)'
      BY <1>1 DEF Running
<1> QED BY <1>1, <1>2, FileUntouched DEF SafeInv

LEMMA NextHostKeepsFile ==
    ASSUME SafeInv, FileInv, NEW t \in Threads, NextHost(t) PROVE FileInv'
<1> DEFINE d == [cluster[t] EXCEPT !.hosts[Current(t)] = "provisioning"]
<1>1. pc[t] = "advance" /\ Save(t, d, "callback")
      /\ UNCHANGED <<file, at, ok, handle, fresh, contested, abandoned>>
      BY DEF NextHost
<1> HIDE DEF d
<1>2. at[t] # <<0, 0>>
      BY <1>1, InTheLoop
<1> QED BY <1>1, <1>2, RunKeepsFile

LEMMA CallbacksKeepsFile ==
    ASSUME SafeInv, FileInv, NEW t \in Threads, NEW success \in BOOLEAN, Callbacks(t, success)
    PROVE  FileInv'
<1> DEFINE d == [cluster[t] EXCEPT !.hosts[Current(t)] = IF success THEN "complete" ELSE "failed"]
<1> DEFINE b == After(cluster[t].order, at[t])
<1>1. /\ pc[t] = "callback" /\ Save(t, d, "advance") /\ at' = [at EXCEPT ![t] = b]
      /\ UNCHANGED <<file, handle, fresh, contested, abandoned>>
      BY DEF Callbacks
<1>2. b # <<0, 0>>
  <2>1. /\ cluster[t] \in Cluster /\ ok[t] \in BOOLEAN
        /\ RunOK("callback", then[t], cluster[t], at[t], ok[t])
        BY <1>1, InTheLoop
  <2> QED BY <2>1, CallbacksIsOK
<1> HIDE DEF b, d
<1>3. at'[t] # <<0, 0>> /\ \A u \in Threads \ {t} : at'[u] = at[u]
      BY <1>1, <1>2 DEF SafeInv, TypeOK
<1> QED BY <1>1, <1>3, RunKeepsFile

LEMMA FinishKeepsFile ==
    ASSUME SafeInv, FileInv, NEW t \in Threads, Finish(t) PROVE FileInv'
<1> DEFINE d == [cluster[t] EXCEPT !.state = Outcome(cluster[t], ok[t])]
<1>1. pc[t] = "advance" /\ Save(t, d, "idle")
      /\ UNCHANGED <<file, at, ok, handle, fresh, contested, abandoned>>
      BY DEF Finish
<1> HIDE DEF d
<1>2. at[t] # <<0, 0>>
      BY <1>1, InTheLoop
<1> QED BY <1>1, <1>2, RunKeepsFile

LEMMA DeleteClusterKeepsFile ==
    ASSUME SafeInv, FileInv, NEW t \in Threads, DeleteCluster(t) PROVE FileInv'
<1>1. /\ file' = None /\ fresh' = {}
      /\ handle' = [u \in Threads |-> IF handle[u] = "closed" THEN "closed" ELSE "gone"]
      /\ UNCHANGED <<pc, cluster, at, ok, then, contested, abandoned>>
      BY DEF DeleteCluster, local
<1>2. FileProvisioning'
      BY <1>1, ClusterAssumption DEF FileProvisioning
<1>3. FreshProvisioning'
      BY <1>1 DEF FreshProvisioning
<1>4. ASSUME NEW w \in Threads PROVE ~Writer(w)'
      BY <1>1 DEF Writer, SafeInv, TypeOK
<1>5. OneWriter'
      BY <1>4 DEF OneWriter
<1> QED BY <1>2, <1>3, <1>5 DEF FileInv

LEMMA FileStep == SafeInv /\ FileInv /\ [Next]_vars => FileInv'
<1> SUFFICES ASSUME SafeInv, FileInv, [Next]_vars PROVE FileInv'
    OBVIOUS
<1>1. ASSUME NEW t \in Threads, Step(t) PROVE FileInv'
      BY <1>1, SaveOpenKeepsFile, SaveWriteKeepsFile, NextHostKeepsFile,
         CallbacksKeepsFile, FinishKeepsFile DEF Step
<1>2. ASSUME NEW t \in Threads, SaveFail(t) PROVE FileInv'
      BY <1>2 DEF SaveFail, FileInv
<1>3. ASSUME NEW t \in Threads, NEW order \in Orders, CreateCluster(t, order) PROVE FileInv'
      BY <1>3, CreateClusterKeepsFile
<1>4. ASSUME NEW t \in Threads, StartProvisioning(t) PROVE FileInv'
      BY <1>4, StartProvisioningKeepsFile
<1>5. ASSUME NEW t \in Threads, NEW h \in Hosts, MarkHostComplete(t, h) \/ MarkHostFailed(t, h)
      PROVE  FileInv'
      BY <1>5, MarkHostCompleteKeepsFile, MarkHostFailedKeepsFile
<1>6. ASSUME NEW t \in Threads, DeleteCluster(t) PROVE FileInv'
      BY <1>6, DeleteClusterKeepsFile
<1>7. CASE Crash
      BY <1>7 DEF Crash, FileInv
<1>8. CASE UNCHANGED vars
  <2>1. UNCHANGED <<file, pc, cluster, at, ok, then, handle, fresh, contested, abandoned>>
        BY <1>8 DEF vars
  <2> QED BY <2>1 DEF FileInv, FileProvisioning, FreshProvisioning, OneWriter,
                      Writer, SomeRun, Doing, Running
<1> QED BY <1>1, <1>2, <1>3, <1>4, <1>5, <1>6, <1>7, <1>8 DEF Next

LEMMA FileInit == Init => FileInv
<1> SUFFICES ASSUME Init PROVE FileInv
    OBVIOUS
<1>1. FileProvisioning /\ FreshProvisioning /\ OneWriter
      BY ClusterAssumption DEF Init, FileProvisioning, FreshProvisioning, OneWriter, Writer
<1> QED BY <1>1 DEF FileInv

(* A cluster that start_provisioning() refuses to start is being           *)
(* provisioned, unless an outdated copy was saved or a call cut short      *)
(* (cluster.py:410, 421-458).                                              *)
THEOREM ProvisioningRuns == Spec => []ProvisioningIsRunning
<1>1. SafeInv /\ FileInv => ProvisioningIsRunning
      BY DEF FileInv, FileProvisioning, SomeRun, Doing, ProvisioningIsRunning
<1>2. Spec => []FileInv
      BY FileInit, FileStep, SafeInvHolds, PTL DEF Spec
<1> QED BY <1>1, <1>2, SafeInvHolds, PTL

-----------------------------------------------------------------------------
(***************************************************************************)
(* Every run comes to an end                                               *)
(***************************************************************************)

(* The places a run at a has still to visit, and how far it is in the      *)
(* visit of one: the saves before and after the callbacks, each in two     *)
(* steps.                                                                  *)
ToVisit(order, a) == {q \in Places(order) : ~Ahead(q, a)}

Phase(p, k) ==
    CASE p = "open" -> IF k = "advance" THEN 0 ELSE 3
      [] p = "write" -> IF k = "advance" THEN 1 ELSE 4
      [] p = "advance" -> 2
      [] OTHER -> 5

(* The steps a run has left if nothing cuts it short. *)
StepsLeft(order, a, p, k) == 6 * Cardinality(ToVisit(order, a)) + 5 - Phase(p, k)
Left(t) == StepsLeft(cluster[t].order, at[t], pc[t], then[t])

LEMMA PhaseIs ==
    /\ \A k : Phase("callback", k) = 5 /\ Phase("advance", k) = 2
    /\ \A k : k # "advance" => Phase("open", k) = 3 /\ Phase("write", k) = 4
    /\ Phase("open", "advance") = 0 /\ Phase("write", "advance") = 1
    /\ \A p, k : Phase(p, k) \in 0 .. 5
BY DEF Phase

LEMMA PlacesAreFinite ==
    ASSUME NEW order \in Seq(STRING)
    PROVE  IsFiniteSet(Places(order))
<1> DEFINE G == OrderedGroups(order)
<1> DEFINE N == 1 .. Len(G)
<1>1. G \in Seq(Groups) /\ Len(G) \in Nat
      BY GroupsAre, LenProperties
<1> DEFINE f == [i \in N |-> {i} \X (1 .. Len(G[i]))]
<1> DEFINE F == {f[i] : i \in N}
<1>2. Places(order) \subseteq UNION F
  <2> SUFFICES ASSUME NEW p \in Places(order) PROVE \E i \in N : p \in f[i]
      OBVIOUS
  <2>1. p[1] \in N /\ p[2] \in 1 .. Len(G[p[1]]) /\ p = <<p[1], p[2]>>
        BY DEF Places
  <2>2. p \in {p[1]} \X (1 .. Len(G[p[1]]))
        BY <2>1
  <2>3. f[p[1]] = {p[1]} \X (1 .. Len(G[p[1]]))
        BY <2>1
  <2> QED BY <2>1, <2>2, <2>3
<1>3. IsFiniteSet(N)
      BY <1>1, FS_Interval
<1>4. ASSUME NEW i \in N PROVE IsFiniteSet(f[i])
  <2> DEFINE l == Len(G[i])
  <2>1. l \in Nat
    <3> HIDE DEF G
    <3>1. G[i] \in Seq(Hosts)
          BY <1>1, ElementOfSeq DEF Groups
    <3> QED BY <3>1, LenProperties
  <2>2. f[i] = {i} \X (1 .. l)
        OBVIOUS
  <2> HIDE DEF l, f
  <2>3. IsFiniteSet(1 .. l)
        BY <2>1, FS_Interval
  <2>4. IsFiniteSet({i})
        BY FS_Singleton
  <2>5. IsFiniteSet({i} \X (1 .. l))
        BY <2>3, <2>4, FS_Product
  <2> QED BY <2>2, <2>5
<1>5. f \in Surjection(N, F)
  <2> HIDE DEF N
  <2>1. f \in [N -> F]
        OBVIOUS
  <2> QED BY <2>1 DEF Surjection
<1> HIDE DEF f, N, F
<1>6. IsFiniteSet(F)
      BY <1>3, <1>5, FS_Surjection
<1>7. \A T \in F : IsFiniteSet(T)
      BY <1>4 DEF F
<1>8. IsFiniteSet(UNION F)
      BY <1>6, <1>7, FS_UNION
<1> QED BY <1>2, <1>8, FS_Subset

LEMMA ToVisitIsFinite ==
    ASSUME NEW order \in Seq(STRING), NEW a
    PROVE  IsFiniteSet(ToVisit(order, a)) /\ Cardinality(ToVisit(order, a)) \in Nat
<1>1. ToVisit(order, a) \in SUBSET Places(order)
      BY DEF ToVisit
<1>2. IsFiniteSet(ToVisit(order, a))
      BY <1>1, PlacesAreFinite, FS_Subset
<1> QED BY <1>2, FS_CardinalityType

(* The next place leaves one less to visit. *)
LEMMA OneLessToVisit ==
    ASSUME NEW order \in Orders, NEW a \in Places(order)
    PROVE  /\ Cardinality(ToVisit(order, a)) \in Nat \ {0}
           /\ Cardinality(ToVisit(order, After(order, a))) = Cardinality(ToVisit(order, a)) - 1
<1>1. order \in Seq(STRING)
      BY GroupsOfOrder
<1>2. \A q \in Places(order) : Ahead(q, After(order, a)) <=> Ahead(q, a) \/ q = a
      BY NextPlace
<1>3. ToVisit(order, After(order, a)) = ToVisit(order, a) \ {a}
      BY <1>2 DEF ToVisit
<1>4. a \in ToVisit(order, a)
  <2>1. a[1] \in Nat /\ a[2] \in Nat
        BY DEF Places
  <2>2. ~Ahead(a, a)
        BY <2>1 DEF Ahead
  <2> QED BY <2>2 DEF ToVisit
<1>5. IsFiniteSet(ToVisit(order, a)) /\ Cardinality(ToVisit(order, a)) \in Nat
      BY <1>1, ToVisitIsFinite
<1>6. Cardinality(ToVisit(order, a)) # 0
      BY <1>4, <1>5, FS_EmptySet
<1>7. Cardinality(ToVisit(order, a) \ {a}) = Cardinality(ToVisit(order, a)) - 1
      BY <1>4, <1>5, FS_RemoveElement
<1> QED BY <1>3, <1>5, <1>6, <1>7

LEMMA LeftIsNumber ==
    ASSUME NEW order \in Seq(STRING), NEW a, NEW p, NEW k
    PROVE  StepsLeft(order, a, p, k) \in Nat
<1>1. Cardinality(ToVisit(order, a)) \in Nat /\ Phase(p, k) \in 0 .. 5
      BY ToVisitIsFinite, PhaseIs
<1> QED BY <1>1 DEF StepsLeft

(* At the same place a later phase leaves less ... *)
LEMMA LaterPhase ==
    ASSUME NEW order \in Seq(STRING), NEW a, NEW p, NEW k, NEW q, NEW j,
           Phase(p, k) < Phase(q, j)
    PROVE  StepsLeft(order, a, q, j) < StepsLeft(order, a, p, k)
<1>1. /\ Cardinality(ToVisit(order, a)) \in Nat
      /\ Phase(p, k) \in 0 .. 5 /\ Phase(q, j) \in 0 .. 5
      BY ToVisitIsFinite, PhaseIs
<1> QED BY <1>1 DEF StepsLeft

(* ... and so does any phase at the next place. *)
LEMMA LaterPlace ==
    ASSUME NEW order \in Orders, NEW a \in Places(order), NEW k
    PROVE  StepsLeft(order, After(order, a), "open", "advance")
             < StepsLeft(order, a, "callback", k)
<1>1. /\ Cardinality(ToVisit(order, a)) \in Nat \ {0}
      /\ Cardinality(ToVisit(order, After(order, a))) = Cardinality(ToVisit(order, a)) - 1
      BY OneLessToVisit
<1>2. Phase("open", "advance") = 0 /\ Phase("callback", k) = 5
      BY PhaseIs
<1> QED BY <1>1, <1>2 DEF StepsLeft

(* A run ends in the step, or has no more to do after it than before, and  *)
(* less if the step was its own.                                           *)
GoesOn(t) ==
    Running(t) => /\ Left(t) \in Nat
                  /\ \/ ~Running(t)'
                     \/ Left(t)' <= Left(t) /\ (pc'[t] # pc[t] => Left(t)' < Left(t))

LEMMA RunIsTyped ==
    ASSUME SafeInv, NEW t \in Threads, Running(t)
    PROVE  /\ cluster[t] \in Cluster /\ cluster[t].order \in Orders
           /\ cluster[t].order \in Seq(STRING) /\ Left(t) \in Nat
           /\ pc[t] \in {"open", "write", "callback", "advance"}
           /\ then[t] \in {"idle", "callback", "advance"}
<1>1. /\ pc[t] # "idle" /\ pc[t] \in Steps /\ cluster[t] \in Cluster
      /\ then[t] \in {"idle", "callback", "advance"}
      BY DEF Running, SafeInv, TypeOK
<1>2. cluster[t].order \in Orders /\ cluster[t].order \in Seq(STRING)
      BY <1>1, OrderIsTyped DEF Cluster
<1>3. Left(t) \in Nat
      BY <1>2, LeftIsNumber DEF Left
<1> QED BY <1>1, <1>2, <1>3 DEF Steps

LEMMA Unmoved ==
    ASSUME SafeInv, NEW t \in Threads,
           pc'[t] = pc[t], then'[t] = then[t], cluster'[t] = cluster[t], at'[t] = at[t]
    PROVE  GoesOn(t)
<1> SUFFICES ASSUME Running(t) PROVE Left(t)' <= Left(t) /\ pc'[t] = pc[t]
    BY RunIsTyped DEF GoesOn
<1>1. Left(t)' = Left(t)
      BY DEF Left
<1> QED BY <1>1, RunIsTyped

LEMMA Gone ==
    ASSUME SafeInv, NEW t \in Threads, at'[t] = <<0, 0>> PROVE GoesOn(t)
BY RunIsTyped DEF GoesOn, Running

(* One lemma for each step of a run. *)
LEMMA SaveOpenGoesOn ==
    ASSUME SafeInv, NEW t \in Threads, SaveOpen(t) PROVE \A u \in Threads : GoesOn(u)
<1>1. /\ pc[t] = "open" /\ pc' = [pc EXCEPT ![t] = "write"]
      /\ UNCHANGED <<cluster, at, ok, then>>
      BY DEF SaveOpen, local
<1>2. pc \in [Threads -> Steps]
      BY DEF SafeInv, TypeOK
<1>3. pc'[t] = "write" /\ \A u \in Threads \ {t} : pc'[u] = pc[u]
      BY <1>1, <1>2
<1>4. GoesOn(t)
  <2> SUFFICES ASSUME Running(t) PROVE Left(t)' < Left(t) /\ Left(t) \in Nat /\ Left(t)' \in Nat
      BY RunIsTyped DEF GoesOn
  <2>1. /\ cluster[t].order \in Seq(STRING) /\ Left(t) \in Nat
        /\ then[t] \in {"idle", "callback", "advance"}
        BY RunIsTyped
  <2>2. Phase("open", then[t]) < Phase("write", then[t])
        BY <2>1, PhaseIs
  <2>3. Left(t) = StepsLeft(cluster[t].order, at[t], "open", then[t])
        BY <1>1 DEF Left
  <2>4. Left(t)' = StepsLeft(cluster[t].order, at[t], "write", then[t])
        BY <1>1, <1>3 DEF Left
  <2> QED BY <2>1, <2>2, <2>3, <2>4, LaterPhase, LeftIsNumber
<1> QED BY <1>1, <1>3, <1>4, Unmoved

LEMMA ReturnEnds ==
    ASSUME SafeInv, NEW t \in Threads, Return(t) PROVE \A u \in Threads : GoesOn(u)
<1>1. /\ at'[t] = <<0, 0>>
      /\ \A u \in Threads \ {t} : /\ pc'[u] = pc[u] /\ cluster'[u] = cluster[u]
                                  /\ then'[u] = then[u] /\ at'[u] = at[u]
      BY ReturnTypes DEF SafeInv
<1> QED BY <1>1, Unmoved, Gone

LEMMA SaveWriteGoesOn ==
    ASSUME SafeInv, NEW t \in Threads, SaveWrite(t) PROVE \A u \in Threads : GoesOn(u)
<1>1. CASE then[t] = "idle"
  <2>1. Return(t)
        BY <1>1 DEF SaveWrite
  <2> QED BY <2>1, ReturnEnds
<1>2. CASE then[t] # "idle"
  <2>1. /\ pc[t] = "write" /\ pc' = [pc EXCEPT ![t] = then[t]]
        /\ UNCHANGED <<cluster, at, ok, then>>
        BY <1>2 DEF SaveWrite, local
  <2>2. pc \in [Threads -> Steps]
        BY DEF SafeInv, TypeOK
  <2>3. pc'[t] = then[t] /\ \A u \in Threads \ {t} : pc'[u] = pc[u]
        BY <2>1, <2>2
  <2>4. GoesOn(t)
    <3> SUFFICES ASSUME Running(t) PROVE Left(t)' < Left(t) /\ Left(t) \in Nat /\ Left(t)' \in Nat
        BY RunIsTyped DEF GoesOn
    <3>1. /\ cluster[t].order \in Seq(STRING) /\ Left(t) \in Nat
          /\ then[t] \in {"callback", "advance"}
          BY <1>2, RunIsTyped
    <3>2. Phase("write", then[t]) < Phase(then[t], then[t])
          BY <3>1, PhaseIs
    <3>3. Left(t) = StepsLeft(cluster[t].order, at[t], "write", then[t])
          BY <2>1 DEF Left
    <3>4. Left(t)' = StepsLeft(cluster[t].order, at[t], then[t], then[t])
          BY <2>1, <2>3 DEF Left
    <3> QED BY <3>1, <3>2, <3>3, <3>4, LaterPhase, LeftIsNumber
  <2> QED BY <2>1, <2>3, <2>4, Unmoved
<1> QED BY <1>1, <1>2

(* The steps that end in a save of a copy with the same order. *)
LEMMA SaveGoesOn ==
    ASSUME SafeInv, NEW t \in Threads, pc[t] \in {"callback", "advance"},
           NEW c \in Cluster, c.order = cluster[t].order,
           NEW k \in {"idle", "callback", "advance"}, Save(t, c, k),
           \A u \in Threads \ {t} : at'[u] = at[u],
           StepsLeft(cluster[t].order, at'[t], "open", k) < Left(t)
    PROVE  \A u \in Threads : GoesOn(u)
<1>1. /\ pc'[t] = "open" /\ cluster'[t] = c /\ then'[t] = k
      /\ \A u \in Threads \ {t} : pc'[u] = pc[u] /\ cluster'[u] = cluster[u] /\ then'[u] = then[u]
      BY SaveTypes DEF SafeInv
<1>2. GoesOn(t)
  <2> SUFFICES ASSUME Running(t) PROVE Left(t)' < Left(t) /\ Left(t) \in Nat /\ Left(t)' \in Nat
      BY RunIsTyped DEF GoesOn
  <2>1. cluster[t].order \in Seq(STRING) /\ Left(t) \in Nat
        BY RunIsTyped
  <2>2. Left(t)' = StepsLeft(cluster[t].order, at'[t], "open", k)
        BY <1>1 DEF Left
  <2> QED BY <2>1, <2>2, LeftIsNumber
<1> QED BY <1>1, <1>2, Unmoved

LEMMA NextHostGoesOn ==
    ASSUME SafeInv, NEW t \in Threads, NextHost(t) PROVE \A u \in Threads : GoesOn(u)
<1> DEFINE d == [cluster[t] EXCEPT !.hosts[Current(t)] = "provisioning"]
<1>1. pc[t] = "advance" /\ Save(t, d, "callback") /\ at' = at
      /\ at[t][1] <= Len(GroupsOf[cluster[t].order])
      BY DEF NextHost
<1>2. /\ cluster[t] \in Cluster /\ cluster[t].order \in Seq(STRING)
      /\ at[t] \in Places(cluster[t].order) \cup {End(cluster[t].order)}
      /\ Current(t) = HostAt(cluster[t].order, at[t])
      /\ GroupsOf[cluster[t].order] = OrderedGroups(cluster[t].order)
      BY <1>1, InTheLoop
<1>3. at[t] \in Places(cluster[t].order)
  <2>1. Len(OrderedGroups(cluster[t].order)) \in Nat
        BY <1>2, GroupsAre, LenProperties
  <2>2. at[t] # End(cluster[t].order)
        BY <1>1, <1>2, <2>1 DEF End
  <2> QED BY <1>2, <2>2
<1>4. Current(t) \in Hosts
      BY <1>2, <1>3, HostAtIsHost
<1>5. d \in Cluster /\ d.order = cluster[t].order
      BY <1>2, <1>4, HostChanged DEF HostState
<1> HIDE DEF d
<1>6. Phase("advance", then[t]) < Phase("open", "callback")
      BY PhaseIs
<1>7. StepsLeft(cluster[t].order, at'[t], "open", "callback") < Left(t)
      BY <1>1, <1>2, <1>6, LaterPhase DEF Left
<1> QED BY <1>1, <1>5, <1>7, SaveGoesOn

LEMMA CallbacksGoesOn ==
    ASSUME SafeInv, NEW t \in Threads, NEW success \in BOOLEAN, Callbacks(t, success)
    PROVE  \A u \in Threads : GoesOn(u)
<1> DEFINE v == IF success THEN "complete" ELSE "failed"
<1> DEFINE d == [cluster[t] EXCEPT !.hosts[Current(t)] = v]
<1> DEFINE b == After(cluster[t].order, at[t])
<1>1. /\ pc[t] = "callback" /\ Save(t, d, "advance") /\ at' = [at EXCEPT ![t] = b]
      BY DEF Callbacks
<1>2. /\ cluster[t] \in Cluster /\ cluster[t].order \in Seq(STRING)
      /\ at[t] \in Places(cluster[t].order)
      /\ Current(t) = HostAt(cluster[t].order, at[t])
      BY <1>1, InTheLoop
<1>3. cluster[t].order \in Orders
      BY <1>2 DEF Cluster
<1>4. Current(t) \in Hosts /\ v \in HostState
      BY <1>2, HostAtIsHost DEF HostState
<1>5. d \in Cluster /\ d.order = cluster[t].order
  <2> HIDE DEF v
  <2> QED BY <1>2, <1>4, HostChanged
<1> HIDE DEF d
<1>6. StepsLeft(cluster[t].order, b, "open", "advance") < Left(t)
      BY <1>1, <1>2, <1>3, LaterPlace DEF Left
<1> HIDE DEF b
<1>7. at'[t] = b /\ \A u \in Threads \ {t} : at'[u] = at[u]
      BY <1>1 DEF SafeInv, TypeOK
<1> QED BY <1>1, <1>5, <1>6, <1>7, SaveGoesOn

LEMMA FinishGoesOn ==
    ASSUME SafeInv, NEW t \in Threads, Finish(t) PROVE \A u \in Threads : GoesOn(u)
<1> DEFINE s == Outcome(cluster[t], ok[t])
<1> DEFINE d == [cluster[t] EXCEPT !.state = s]
<1>1. pc[t] = "advance" /\ Save(t, d, "idle") /\ at' = at
      BY DEF Finish
<1>2. cluster[t] \in Cluster /\ cluster[t].order \in Seq(STRING)
      BY <1>1, InTheLoop
<1>3. s \in ClusterState
      BY DEF Outcome, ClusterState
<1>4. d \in Cluster /\ d.order = cluster[t].order
  <2> HIDE DEF s
  <2> QED BY <1>2, <1>3, StateChanged
<1> HIDE DEF d
<1>5. Phase("advance", then[t]) < Phase("open", "idle")
      BY PhaseIs
<1>6. StepsLeft(cluster[t].order, at'[t], "open", "idle") < Left(t)
      BY <1>1, <1>2, <1>5, LaterPhase DEF Left
<1> QED BY <1>1, <1>4, <1>6, SaveGoesOn

(* A call begins in a thread that was idle. *)
LEMMA CallEnds ==
    ASSUME SafeInv, NEW t \in Threads, pc[t] = "idle",
           \A u \in Threads \ {t} : /\ pc'[u] = pc[u] /\ cluster'[u] = cluster[u]
                                    /\ then'[u] = then[u] /\ at'[u] = at[u]
    PROVE  \A u \in Threads : GoesOn(u)
<1>1. GoesOn(t)
      BY DEF GoesOn, Running
<1> QED BY <1>1, Unmoved

LEMMA SavedCallEnds ==
    ASSUME SafeInv, NEW t \in Threads, pc[t] = "idle", NEW c, NEW k, Save(t, c, k), at' = at
    PROVE  \A u \in Threads : GoesOn(u)
<1>1. \A u \in Threads \ {t} : pc'[u] = pc[u] /\ cluster'[u] = cluster[u] /\ then'[u] = then[u]
      BY DEF Save, SafeInv, TypeOK
<1> QED BY <1>1, CallEnds

LEMMA GoesOnStep == SafeInv /\ [Next]_vars => \A t \in Threads : GoesOn(t)
<1> SUFFICES ASSUME SafeInv, [Next]_vars PROVE \A t \in Threads : GoesOn(t)
    OBVIOUS
<1>1. ASSUME NEW t \in Threads, Step(t) PROVE \A u \in Threads : GoesOn(u)
      BY <1>1, SaveOpenGoesOn, SaveWriteGoesOn, NextHostGoesOn, CallbacksGoesOn,
         FinishGoesOn DEF Step
<1>2. ASSUME NEW t \in Threads, SaveFail(t) PROVE \A u \in Threads : GoesOn(u)
      BY <1>2, ReturnEnds DEF SaveFail
<1>3. ASSUME NEW t \in Threads, NEW order \in Orders, CreateCluster(t, order)
      PROVE  \A u \in Threads : GoesOn(u)
      BY <1>3, SavedCallEnds DEF CreateCluster
<1>4. ASSUME NEW t \in Threads, StartProvisioning(t) PROVE \A u \in Threads : GoesOn(u)
  <2>1. \A u \in Threads \ {t} : /\ pc'[u] = pc[u] /\ cluster'[u] = cluster[u]
                                 /\ then'[u] = then[u] /\ at'[u] = at[u]
        BY <1>4 DEF StartProvisioning, SafeInv, TypeOK
  <2> QED BY <1>4, <2>1, CallEnds DEF StartProvisioning
<1>5. ASSUME NEW t \in Threads, NEW h \in Hosts, MarkHostComplete(t, h) \/ MarkHostFailed(t, h)
      PROVE  \A u \in Threads : GoesOn(u)
      BY <1>5, SavedCallEnds DEF MarkHostComplete, MarkHostFailed
<1>6. ASSUME NEW t \in Threads, DeleteCluster(t) PROVE \A u \in Threads : GoesOn(u)
  <2>1. UNCHANGED <<pc, cluster, at, then>>
        BY <1>6 DEF DeleteCluster, local
  <2> QED BY <2>1, Unmoved
<1>7. CASE Crash
  <2>1. \A u \in Threads : at'[u] = <<0, 0>>
        BY <1>7 DEF Crash
  <2> QED BY <2>1, Gone
<1>8. CASE UNCHANGED vars
  <2>1. UNCHANGED <<pc, cluster, at, then>>
        BY <1>8 DEF vars
  <2> QED BY <2>1, Unmoved
<1> QED BY <1>1, <1>2, <1>3, <1>4, <1>5, <1>6, <1>7, <1>8 DEF Next

(* start_provisioning() visits the places of the groups one after the      *)
(* other and goes back to none: each of its steps leaves fewer to make,    *)
(* whatever the other callers do to the file meanwhile, until it returns   *)
(* or is cut short (cluster.py:421-458).  With ProvisioningRuns, this is   *)
(* why ProvisioningEnds holds wherever threads are scheduled.              *)
THEOREM RunsComeToAnEnd == Spec => [][\A t \in Threads : GoesOn(t)]_vars
BY GoesOnStep, SafeInvHolds, PTL DEF Spec

-----------------------------------------------------------------------------
(***************************************************************************)
(* What the guard of start_provisioning() sees of another run              *)
(***************************************************************************)

(* A run whose first save has landed and whose last one has not begun to.  *)
Begun(u) ==
    /\ Running(u)
    /\ pc[u] = "callback" \/ (pc[u] \in {"open", "advance"} /\ at[u] # <<1, 1>>)

(* Until an outdated copy is saved: who writes is alone, and nobody else   *)
(* has a copy that is not outdated; and the file says of a run that has    *)
(* begun and is not outdated that it is in progress.                       *)
Alone ==
    \A w \in Threads : Writer(w) =>
      /\ file = Torn
      /\ fresh \subseteq {w}
      /\ \A v \in Threads : Writer(v) => v = w
InPlace == \A u \in fresh : pc[u] = "write" => handle[u] = "mine"
Shown == \A u \in fresh : Begun(u) => file \in Cluster /\ file.state = "provisioning"
SeenInv == ~contested => Alone /\ InPlace /\ Shown

LEMMA SeenInit == Init => SeenInv
BY DEF Init, SeenInv, Alone, InPlace, Shown, Writer

(* A step of t that leaves the file alone and does not begin a run. *)
LEMMA SeenQuiet ==
    ASSUME TypeOK, SeenInv, NEW t \in Threads, pc'[t] # "write",
           UNCHANGED <<file, contested>>,
           \A u \in Threads \ {t} : /\ pc'[u] = pc[u] /\ at'[u] = at[u]
                                    /\ handle'[u] = handle[u],
           fresh' \subseteq fresh \cup {t},
           fresh' \subseteq fresh \/ file \in Cluster \cup {None},
           Begun(t)' => Begun(t) /\ fresh' \subseteq fresh
    PROVE  SeenInv'
<1> SUFFICES ASSUME ~contested PROVE Alone' /\ InPlace' /\ Shown'
    BY DEF SeenInv
<1>1. Alone /\ InPlace /\ Shown
      BY DEF SeenInv
<1>2. \A u \in Threads : Writer(u)' => Writer(u)
      BY DEF Writer
<1>3. Alone'
  <2> SUFFICES ASSUME NEW w \in Threads, Writer(w)'
               PROVE  /\ file' = Torn /\ fresh' \subseteq {w}
                      /\ \A v \in Threads : Writer(v)' => v = w
      BY DEF Alone
  <2>1. /\ file = Torn /\ fresh \subseteq {w}
        /\ \A v \in Threads : Writer(v) => v = w
        BY <1>1, <1>2 DEF Alone
  <2>2. fresh' \subseteq fresh
        BY <2>1, ClusterAssumption
  <2> QED BY <1>2, <2>1, <2>2
<1>4. \A u \in fresh' : u = t \/ (u \in fresh /\ u \in Threads \ {t})
      BY DEF TypeOK
<1>5. InPlace'
      BY <1>1, <1>4 DEF InPlace
<1>6. Shown'
  <2> SUFFICES ASSUME NEW u \in fresh', Begun(u)'
               PROVE  file \in Cluster /\ file.state = "provisioning"
      BY DEF Shown
  <2>1. Begun(u) /\ u \in fresh
        BY <1>4 DEF Begun, Running
  <2> QED BY <1>1, <2>1 DEF Shown
<1> QED BY <1>3, <1>5, <1>6

LEMMA SaveOpenSeen ==
    ASSUME SafeInv, SeenInv, NEW t \in Threads, SaveOpen(t) PROVE SeenInv'
<1>1. /\ pc[t] = "open" /\ file' = Torn /\ handle' = [handle EXCEPT ![t] = "mine"]
      /\ fresh' = fresh \cap {t} /\ contested' = (contested \/ t \notin fresh)
      /\ pc' = [pc EXCEPT ![t] = "write"]
      BY DEF SaveOpen
<1> SUFFICES ASSUME ~contested' PROVE Alone' /\ InPlace' /\ Shown'
    BY DEF SeenInv
<1>2. t \in fresh /\ Alone
      BY <1>1 DEF SeenInv
<1>3. /\ pc'[t] = "write" /\ handle'[t] = "mine"
      /\ \A u \in Threads \ {t} : pc'[u] = pc[u] /\ handle'[u] = handle[u]
      BY <1>1 DEF SafeInv, TypeOK
<1>4. ASSUME NEW w \in Threads, Writer(w)' PROVE w = t
  <2> SUFFICES ASSUME w # t PROVE FALSE
      OBVIOUS
  <2>1. Writer(w)
        BY <1>3, <1>4 DEF Writer
  <2> QED BY <1>2, <2>1 DEF Alone
<1>5. Alone'
      BY <1>1, <1>4 DEF Alone
<1>6. InPlace' /\ Shown'
      BY <1>1, <1>3 DEF InPlace, Shown, Begun
<1> QED BY <1>5, <1>6

LEMMA SaveWriteSeen ==
    ASSUME SafeInv, SeenInv, NEW t \in Threads, SaveWrite(t) PROVE SeenInv'
<1>1. /\ pc[t] = "write" /\ handle[t] \in {"mine", "shared", "gone"}
      /\ file' \in CASE handle[t] = "mine" -> {cluster[t]}
                     [] handle[t] = "shared" -> {cluster[t], Torn}
                     [] handle[t] = "gone" -> {file}
      /\ handle' = [u \in Threads |->
                     IF u = t THEN "closed"
                     ELSE IF handle[t] # "gone" /\ handle[u] = "mine" THEN "shared"
                     ELSE handle[u]]
      /\ UNCHANGED <<fresh, contested>>
      BY DEF SaveWrite, SafeInv, TypeOK
<1>2. /\ \A u \in Threads \ {t} : pc'[u] = pc[u] /\ at'[u] = at[u]
      /\ pc'[t] \in {"idle", "callback", "advance"}
      /\ then[t] = "idle" => pc'[t] = "idle"
  <2>1. CASE then[t] = "idle"
    <3>1. Return(t)
          BY <2>1 DEF SaveWrite
    <3> QED BY <2>1, <3>1, ReturnTypes DEF SafeInv
  <2>2. CASE then[t] # "idle"
    <3>1. pc' = [pc EXCEPT ![t] = then[t]] /\ UNCHANGED <<cluster, at, ok, then>>
          BY <2>2 DEF SaveWrite, local
    <3>2. then[t] \in {"callback", "advance"} /\ pc'[t] = then[t]
          /\ \A u \in Threads \ {t} : pc'[u] = pc[u]
          BY <2>2, <3>1 DEF SafeInv, TypeOK
    <3> QED BY <2>2, <3>1, <3>2
  <2> QED BY <2>1, <2>2
<1> SUFFICES ASSUME ~contested PROVE Alone' /\ InPlace' /\ Shown'
    BY <1>1 DEF SeenInv
<1>3. Alone /\ InPlace /\ Shown
      BY DEF SeenInv
<1>4. \A u \in Threads : Writer(u)' => Writer(u) /\ u # t
  <2>1. \A u \in Threads : handle[u] = "gone" => handle'[u] = "gone" \/ u = t
        BY <1>1
  <2> QED BY <2>1, <1>1, <1>2 DEF Writer
<1>5. (\E u \in fresh : u # t) => handle[t] = "gone"
      BY <1>1, <1>3 DEF Alone, Writer
<1>6. Alone'
  <2> SUFFICES ASSUME NEW w \in Threads, Writer(w)'
               PROVE  /\ file' = Torn /\ fresh' \subseteq {w}
                      /\ \A v \in Threads : Writer(v)' => v = w
      BY DEF Alone
  <2>1. /\ w # t /\ file = Torn /\ fresh \subseteq {w}
        /\ \A v \in Threads : Writer(v) => v = w
        BY <1>3, <1>4 DEF Alone
  <2>2. handle[t] = "gone"
        BY <1>1, <2>1 DEF Writer
  <2>3. file' = file
        BY <1>1, <2>2
  <2> QED BY <1>1, <1>4, <2>1, <2>3
<1>7. InPlace'
  <2> SUFFICES ASSUME NEW u \in fresh', pc'[u] = "write" PROVE handle'[u] = "mine"
      BY DEF InPlace
  <2>1. u # t /\ u \in fresh /\ u \in Threads
        BY <1>1, <1>2 DEF SafeInv, TypeOK
  <2>2. handle[u] = "mine" /\ handle[t] = "gone"
        BY <1>2, <1>3, <1>5, <2>1 DEF InPlace
  <2> QED BY <1>1, <2>1, <2>2
<1>8. Shown'
  <2> SUFFICES ASSUME NEW u \in fresh', Begun(u)'
               PROVE  file' \in Cluster /\ file'.state = "provisioning"
      BY DEF Shown
  <2>1. u \in fresh /\ u \in Threads
        BY <1>1 DEF SafeInv, TypeOK
  <2>2. CASE u # t
    <3>1. Begun(u)
          BY <1>2, <2>1, <2>2 DEF Begun, Running
    <3>2. file' = file
          BY <1>1, <1>5, <2>1, <2>2
    <3> QED BY <1>3, <2>1, <3>1, <3>2 DEF Shown
  <2>3. CASE u = t
    <3>1. handle[t] = "mine"
          BY <1>1, <1>3, <2>1, <2>3 DEF InPlace
    <3>2. file' = cluster[t] /\ cluster[t] \in Cluster
          BY <1>1, <3>1 DEF SafeInv, TypeOK
    <3>3. then[t] # "idle"
          BY <1>2, <2>3 DEF Begun
    <3>4. cluster[t].state = "provisioning"
      <4>1. LocalOK("write", then[t], cluster[t], at[t], ok[t])
            BY <1>1 DEF SafeInv, LocalInv
      <4>2. RunOK("write", then[t], cluster[t], at[t], ok[t])
            BY <3>3, <4>1 DEF LocalOK
      <4> QED BY <3>3, <4>2 DEF RunOK, IsFinishing
    <3> QED BY <3>2, <3>4
  <2> QED BY <2>2, <2>3
<1> QED BY <1>6, <1>7, <1>8

(* A thread that ends its call. *)
LEMMA SaveFailSeen ==
    ASSUME SafeInv, SeenInv, NEW t \in Threads, SaveFail(t) PROVE SeenInv'
<1>1. /\ Return(t) /\ handle' = [handle EXCEPT ![t] = "closed"]
      /\ UNCHANGED <<file, fresh, contested>>
      BY DEF SaveFail
<1>2. /\ pc'[t] = "idle"
      /\ \A u \in Threads \ {t} : pc'[u] = pc[u] /\ at'[u] = at[u]
      BY <1>1, ReturnTypes DEF SafeInv
<1>3. \A u \in Threads \ {t} : handle'[u] = handle[u]
      BY <1>1 DEF SafeInv, TypeOK
<1>4. ~Begun(t)'
      BY <1>2 DEF Begun
<1> QED BY <1>1, <1>2, <1>3, <1>4, SeenQuiet DEF SafeInv

(* A thread that goes to save. *)
LEMMA SaveSeen ==
    ASSUME SafeInv, SeenInv, NEW t \in Threads, NEW c, NEW k, Save(t, c, k),
           UNCHANGED <<file, handle, contested>>,
           \A u \in Threads \ {t} : at'[u] = at[u],
           fresh' \subseteq fresh \cup {t},
           fresh' \subseteq fresh \/ file \in Cluster \cup {None},
           at'[t] # <<0, 0>> /\ at'[t] # <<1, 1>> => Begun(t) /\ fresh' \subseteq fresh
    PROVE  SeenInv'
<1>1. pc'[t] = "open" /\ \A u \in Threads \ {t} : pc'[u] = pc[u]
      BY DEF Save, SafeInv, TypeOK
<1>2. Begun(t)' => Begun(t) /\ fresh' \subseteq fresh
      BY <1>1 DEF Begun, Running
<1> QED BY <1>1, <1>2, SeenQuiet DEF SafeInv

LEMMA CallSeen ==
    ASSUME SafeInv, SeenInv, NEW t \in Threads, pc[t] = "idle", NEW c, Save(t, c, "idle"),
           file \in Cluster \cup {None}, fresh' = fresh \cup {t},
           UNCHANGED <<file, at, handle, contested>>
    PROVE  SeenInv'
<1>1. at'[t] = <<0, 0>>
      BY DEF SafeInv, LocalInv, LocalOK
<1> QED BY <1>1, SaveSeen

LEMMA StartSeen ==
    ASSUME SafeInv, SeenInv, NEW t \in Threads, StartProvisioning(t) PROVE SeenInv'
<1>1. /\ file \in Cluster /\ at' = [at EXCEPT ![t] = <<1, 1>>]
      /\ pc' = [pc EXCEPT ![t] = "advance"] /\ fresh' = fresh \cup {t}
      /\ UNCHANGED <<file, handle, contested>>
      BY DEF StartProvisioning
<1>2. /\ pc'[t] = "advance" /\ at'[t] = <<1, 1>>
      /\ \A u \in Threads \ {t} : pc'[u] = pc[u] /\ at'[u] = at[u]
      BY <1>1 DEF SafeInv, TypeOK
<1>3. ~Begun(t)'
      BY <1>2 DEF Begun
<1> QED BY <1>1, <1>2, <1>3, SeenQuiet DEF SafeInv

(* The loop: a run that is past its first place has begun. *)
LEMMA LoopSeen ==
    ASSUME SafeInv, SeenInv, NEW t \in Threads,
           NextHost(t) \/ Finish(t) \/ \E success \in BOOLEAN : Callbacks(t, success)
    PROVE  SeenInv'
<1>1. CASE NextHost(t) \/ Finish(t)
  <2>1. /\ pc[t] = "advance" /\ UNCHANGED <<file, at, handle, fresh, contested>>
        /\ \E c, k : Save(t, c, k)
        BY <1>1 DEF NextHost, Finish
  <2>2. at[t] # <<0, 0>> /\ at[t] # <<1, 1>> => Begun(t)
        BY <2>1 DEF Begun, Running
  <2> QED BY <2>1, <2>2, SaveSeen
<1>2. ASSUME NEW success \in BOOLEAN, Callbacks(t, success) PROVE SeenInv'
  <2> DEFINE b == After(cluster[t].order, at[t])
  <2>1. /\ pc[t] = "callback" /\ at' = [at EXCEPT ![t] = b]
        /\ UNCHANGED <<file, handle, fresh, contested>>
        /\ \E c, k : Save(t, c, k)
        BY <1>2 DEF Callbacks
  <2> HIDE DEF b
  <2>2. \A u \in Threads \ {t} : at'[u] = at[u]
        BY <2>1 DEF SafeInv, TypeOK
  <2>3. Begun(t)
        BY <2>1, InTheLoop DEF Begun, Running
  <2> QED BY <2>1, <2>2, <2>3, SaveSeen
<1> QED BY <1>1, <1>2

LEMMA DeleteSeen ==
    ASSUME SafeInv, SeenInv, NEW t \in Threads, DeleteCluster(t) PROVE SeenInv'
<1>1. /\ fresh' = {} /\ UNCHANGED pc
      /\ handle' = [u \in Threads |-> IF handle[u] = "closed" THEN "closed" ELSE "gone"]
      BY DEF DeleteCluster
<1>2. ASSUME NEW w \in Threads PROVE ~Writer(w)'
      BY <1>1 DEF Writer, SafeInv, TypeOK
<1> QED BY <1>1, <1>2 DEF SeenInv, Alone, InPlace, Shown

LEMMA SeenStep == SafeInv /\ SeenInv /\ [Next]_vars => SeenInv'
<1> SUFFICES ASSUME SafeInv, SeenInv, [Next]_vars PROVE SeenInv'
    OBVIOUS
<1>1. ASSUME NEW t \in Threads, Step(t) PROVE SeenInv'
      BY <1>1, SaveOpenSeen, SaveWriteSeen, LoopSeen DEF Step
<1>2. ASSUME NEW t \in Threads, SaveFail(t) PROVE SeenInv'
      BY <1>2, SaveFailSeen
<1>3. ASSUME NEW t \in Threads, NEW order \in Orders, CreateCluster(t, order) PROVE SeenInv'
      BY <1>3, CallSeen DEF CreateCluster
<1>4. ASSUME NEW t \in Threads, StartProvisioning(t) PROVE SeenInv'
      BY <1>4, StartSeen
<1>5. ASSUME NEW t \in Threads, NEW h \in Hosts, MarkHostComplete(t, h) \/ MarkHostFailed(t, h)
      PROVE  SeenInv'
      BY <1>5, CallSeen DEF MarkHostComplete, MarkHostFailed
<1>6. ASSUME NEW t \in Threads, DeleteCluster(t) PROVE SeenInv'
      BY <1>6, DeleteSeen
<1>7. CASE Crash
      BY <1>7 DEF Crash, SeenInv, Alone, InPlace, Shown, Writer
<1>8. CASE UNCHANGED vars
  <2>1. UNCHANGED <<file, pc, at, handle, fresh, contested>>
        BY <1>8 DEF vars
  <2> QED BY <2>1 DEF SeenInv, Alone, InPlace, Shown, Writer, Begun, Running
<1> QED BY <1>1, <1>2, <1>3, <1>4, <1>5, <1>6, <1>7, <1>8 DEF Next

(* The guard "Cluster is already being provisioned" lets a second run in   *)
(* only before the first save of the one in progress has landed, or after  *)
(* somebody else has saved or deleted the cluster, as mark_host_complete() *)
(* may beside a run, so that the copy of that run is outdated.  Before an  *)
(* outdated copy is saved there is no other way to break OneRunAtATime       *)
(* (cluster.py:410-413, 421-434).                                          *)
THEOREM GuardSeesTheRun ==
    Spec => [][\A t, u \in Threads :
                 StartProvisioning(t) /\ ~contested /\ u \in fresh => ~Begun(u)]_vars
<1>1. SeenInv =>
        \A t, u \in Threads : StartProvisioning(t) /\ ~contested /\ u \in fresh => ~Begun(u)
      BY DEF SeenInv, Shown, StartProvisioning
<1>2. Spec => []SeenInv
      BY SeenInit, SeenStep, SafeInvHolds, PTL DEF Spec
<1> QED BY <1>1, <1>2, PTL DEF Spec

-----------------------------------------------------------------------------
(* ordered_groups() of any order: every host is in a group, behind no host *)
(* whose role comes later, and in more than one only if the order names    *)
(* its role more than once (cluster.py:173-200).                           *)
THEOREM GroupsHoldTheHosts ==
    ASSUME NEW order \in Seq(STRING)
    PROVE  /\ \A h \in Hosts : \E p \in Places(order) :
                /\ HostAt(order, p) = h
                /\ \A q \in Places(order) :
                     Rank(order, h) < Rank(order, HostAt(order, q)) => Ahead(p, q)
           /\ Once(order) => \A p, q \in Places(order) :
                HostAt(order, p) = HostAt(order, q) => p = q
<1>1. Once(order) => \A p, q \in Places(order) : HostAt(order, p) = HostAt(order, q) => p = q
      BY OnePlaceOnly
<1> QED BY <1>1, EveryHostHasAPlace

=============================================================================
