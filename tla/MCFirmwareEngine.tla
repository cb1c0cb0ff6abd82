-------------------------- MODULE MCFirmwareEngine --------------------------
(* Two hosts; "a" has a rule by MAC, "b" falls to the rule of its subnet.  *)
(* The profile files change family and version, and disappear.  The        *)
(* matcher is checked for all lists of up to three of nine rules.          *)
EXTENDS FirmwareEngine, TLC

When(c, hs) == [x \in {c} |-> hs]
Rule(p, f, v, prio, when) ==
    [profile |-> p, os_family |-> f, os_version |-> v, priority |-> prio, when |-> when]
Bare(prio, when) == Rule("p1", "openwrt", "23.05", prio, when)

MCKnown == [h \in {"a", "b"} |->
             IF h = "a" THEN {"mac", "hostname", "serial"} ELSE {"mac", "subnet", "arch"}]

MCRules == <<Rule("p2", "ddwrt", "1", 100, When("subnet", {"b"})),
             Rule("p1", "openwrt", "23.05", 100, When("mac", {"a"}))>>

OfA == {Bare(1, When("mac", {"a"})),
        Bare(2, When("mac_prefix", {"a", "b"})),
        Bare(1, When("hostname_pattern", {"a"})),
        Bare(1, When("mac", {"b"}) @@ When("hostname_pattern", {"a"})),
        Bare(2, When("serial", {"a"}))}
OfB == {Bare(1, When("subnet", {"b"})),
        Bare(2, When("group", {"b"})),
        Bare(1, When("arch", {"a", "b"})),
        Bare(1, <<>>)}
MCRuleLists == {MCRules} \cup UNION {[1 .. n -> OfA \cup OfB] : n \in 0 .. 3}

FW(f, v) == [os_family |-> f, os_version |-> v]

MCContents ==
    [p \in {"p1", "p2"} |->
       IF p = "p1" THEN 0 :> FW("openwrt", "23.05") @@ 1 :> FW("openwrt", "24.10")
       ELSE 0 :> None @@ 1 :> FW("openwrt", "23.05")]
MCPlugins == "openwrt" :> {"23.05", "24.10"} @@ "ddwrt" :> {}
MCTree == {FW("openwrt", "23.05"), FW("openwrt", "24.10"), FW("ddwrt", "1")}
MCOwnName == [h \in {"a", "b"} |-> IF h = "a" THEN "a.bin" ELSE "b.bin"]
Symmetry == Permutations(Threads)
=============================================================================
