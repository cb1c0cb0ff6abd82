-------------------------- MODULE MCSeparateParts --------------------------
(* SeparateParts for TLC: two objects in one file and one in its own. *)
EXTENDS SeparateParts, TLC

MCFileOf == [k \in Keys |-> IF k = "host" THEN "host.json" ELSE "secrets.json"]

Symmetry ==
    UNION {Permutations(S) : S \in {Threads, Values, Names, Kinds}}

=============================================================================
