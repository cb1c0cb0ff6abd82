----------------------------- MODULE HostMatcher -----------------------------
(***************************************************************************)
(* HostMatcher of tftpos/matcher.py: which rule answers a host's request.  *)
(*                                                                         *)
(* A criterion of a rule is represented by the set of hosts whose          *)
(* attribute it fits (equal, prefix, glob, in the subnet), so that         *)
(* rule.when maps the criteria a rule has to such sets; a rule without any *)
(* is a catch-all.  A request gives some of the attributes of its host.    *)
(***************************************************************************)
EXTENDS Naturals, Sequences, FiniteSets, FiniteSetsExt, Functions

CONSTANTS
    Hosts,   \* clients that ask
    Known    \* the attributes each one's request gives

(* In the order _match_tier() tries them: the place is the tier. *)
Criteria == <<"mac", "mac_prefix", "hostname_pattern", "subnet", "serial", "group", "arch">>
CatchAll == Len(Criteria) + 1

(* The attribute of the request a criterion is compared with. *)
Attribute(c) == CASE c = "mac_prefix" -> "mac"
                  [] c = "hostname_pattern" -> "hostname"
                  [] OTHER -> c

(* The criteria the rule has and the request can be compared with. *)
Tried(rule, h) ==
    {i \in DOMAIN Criteria :
       Criteria[i] \in DOMAIN rule.when /\ Attribute(Criteria[i]) \in Known[h]}

(* Only the first of them counts: if it does not fit, the rule does not    *)
(* match, whatever the others say.                                         *)
Matches(rule, h) ==
    IF Tried(rule, h) = {} THEN DOMAIN rule.when = {}
    ELSE h \in rule.when[Criteria[Min(Tried(rule, h))]]

Tier(rule, h) == IF Tried(rule, h) = {} THEN CatchAll ELSE Min(Tried(rule, h))

(* The members of a finite set, one by one as they come before each other. *)
InOrder(S, before) ==
    [k \in 1 .. Cardinality(S) |->
       CHOOSE x \in S : Cardinality({y \in S : <<y, x>> \in before}) = k - 1]

Pairs(S) == S \X S
Earlier(s) == {p \in Pairs(DOMAIN s) : p[1] < p[2]}

(* The elements of s that are in S, in their order. *)
KeepIn(s, S) ==
    LET places == InOrder({i \in DOMAIN s : s[i] \in S}, Earlier(s))
    IN  [k \in DOMAIN places |-> s[places[k]]]

(* Python's sort: elements none of which comes before the other keep their *)
(* order.                                                                  *)
SortedBefore(s, before) ==
    {p \in Pairs(DOMAIN s) :
       \/ <<s[p[1]], s[p[2]]>> \in before
       \/ <<s[p[2]], s[p[1]]>> \notin before /\ p \in Earlier(s)}

Sorted(s, before) ==
    LET places == InOrder(DOMAIN s, SortedBefore(s, before))
    IN  [k \in DOMAIN places |-> s[places[k]]]

(* The keys of the two sorts. *)
PriorityBefore(rules) == {p \in Pairs(Range(rules)) : p[1].priority < p[2].priority}
TierBefore(rules, h) ==
    {p \in Pairs(Range(rules)) :
       \/ Tier(p[1], h) < Tier(p[2], h)
       \/ Tier(p[1], h) = Tier(p[2], h) /\ p \in PriorityBefore(rules)}

(* __init__: self._rules *)
ByPriority(rules) == Sorted(rules, PriorityBefore(rules))

Matching(rules, h) == KeepIn(ByPriority(rules), {r \in Range(rules) : Matches(r, h)})

(* A slip: the candidates are not sorted by tier. *)
CandidatesUnsorted(rules, h) == Matching(rules, h)

(* match(): the matching rules, by tier and priority. *)
Candidates(rules, h) == Sorted(Matching(rules, h), TierBefore(rules, h))

HasMatch(rules, h) == Candidates(rules, h) # <<>>
Match(rules, h) == Head(Candidates(rules, h))

-----------------------------------------------------------------------------
(* "When multiple rules could match a request, the most specific match     *)
(* wins ... Within the same tier, rules are sorted by priority"            *)
(* (README.md:307-320), and among equals the first of the configuration:   *)
(* no rule that matches beats the answer, a host is left without one only  *)
(* when no rule matches it, and a rule for one MAC is never used for a     *)
(* request with another, whatever else would fit.                          *)
Beats(rules, h, i, j) ==
    \/ Tier(rules[i], h) < Tier(rules[j], h)
    \/ /\ Tier(rules[i], h) = Tier(rules[j], h)
       /\ \/ rules[i].priority < rules[j].priority
          \/ rules[i].priority = rules[j].priority /\ i < j

BestAnswer(rules, h) ==
    LET matching == {i \in DOMAIN rules : Matches(rules[i], h)}
    IN  /\ HasMatch(rules, h) <=> matching # {}
        /\ HasMatch(rules, h) =>
             \E i \in matching :
               /\ Match(rules, h) = rules[i]
               /\ \A j \in matching : ~Beats(rules, h, j, i)
               /\ {"mac"} \subseteq DOMAIN rules[i].when \cap Known[h]
                    => h \in rules[i].when["mac"]

=============================================================================
