--------------------------- MODULE ClusterManager ---------------------------
(***************************************************************************)
(* ClusterManager and ClusterStore of tftpos/cluster.py: the provisioning  *)
(* workflow of one cluster, whose definition is a JSON file.               *)
(*                                                                         *)
(* Nothing is locked.  A call reads the whole file, works on its copy and  *)
(* writes the whole copy back, start_provisioning() many times over with   *)
(* the provision callbacks in between.  Path.write_text truncates the file *)
(* (SaveOpen) before it writes it (SaveWrite): a reader in between finds   *)
(* text json.loads refuses, and so does every reader after a writer died   *)
(* there.  Threads stand for the callers, also for a callback that calls   *)
(* the manager back.                                                       *)
(***************************************************************************)
EXTENDS Naturals, Sequences, FiniteSets

CONSTANTS
    Threads,   \* callers of the manager
    HostSeq,   \* the hosts of the definition, in its order
    RoleOf,    \* the role of each host
    Orders,    \* the provisioning_order lists a definition may have
    None,      \* no file
    Torn       \* a file whose text is not a JSON document

Hosts == {HostSeq[i] : i \in DOMAIN HostSeq}
Roles == {RoleOf[h] : h \in Hosts}

ClusterState == {"defined", "provisioning", "partial", "complete", "failed"}
HostState == {"pending", "provisioning", "complete", "failed"}
Cluster == [state: ClusterState, hosts: [Hosts -> HostState], order: Orders]

ASSUME ClusterAssumption ==
    /\ HostSeq \in Seq(Hosts) /\ HostSeq # <<>>
    /\ \A i, j \in DOMAIN HostSeq : HostSeq[i] = HostSeq[j] => i = j
    /\ DOMAIN RoleOf = Hosts
    /\ \A o \in Orders : o \in Seq(STRING)
    /\ None \notin Cluster /\ Torn \notin Cluster /\ None # Torn

VARIABLES
    file,       \* <name>.json
    pc,         \* what each thread does next
    cluster,    \* each thread's copy of the definition
    at,         \* start_provisioning: the group and the host it has come to
    ok,         \* start_provisioning: all_succeeded
    then,       \* what a thread does after the save it is in
    handle,     \* the file a thread has open: "closed", "mine" while it alone
                \* wrote since it opened it, "shared" once another thread has,
                \* "gone" once the file was deleted
    fresh,      \* history variable: threads whose copy is what the file holds
    contested,  \* history variable: some thread saved a copy that was not
    abandoned   \* history variable: a call was cut short

vars == <<file, pc, cluster, at, ok, then, handle, fresh, contested, abandoned>>
local == <<cluster, at, ok>>

Steps == {"idle", "open", "write", "callback", "advance"}

TypeOK ==
    /\ file \in Cluster \cup {None, Torn}
    /\ pc \in [Threads -> Steps]
    /\ cluster \in [Threads -> Cluster \cup {None}]
    /\ \A t \in Threads : pc[t] # "idle" => cluster[t] \in Cluster
    /\ at \in [Threads -> Nat \X Nat]
    /\ ok \in [Threads -> BOOLEAN]
    /\ then \in [Threads -> {"idle", "callback", "advance"}]
    /\ handle \in [Threads -> {"closed", "mine", "shared", "gone"}]
    /\ \A t \in Threads : handle[t] = "closed" <=> pc[t] # "write"
    /\ fresh \subseteq Threads
    /\ contested \in BOOLEAN
    /\ abandoned \in BOOLEAN

-----------------------------------------------------------------------------
(* The elements of a sequence that are in S, in their order. *)
KeepIn(s, S) ==
    LET kept[n \in 0 .. Len(s)] ==
          IF n = 0 THEN <<>>
          ELSE IF s[n] \in S THEN Append(kept[n - 1], s[n]) ELSE kept[n - 1]
    IN  kept[Len(s)]

(* hosts_by_role() *)
HostsByRole(r) == KeepIn(HostSeq, {h \in Hosts : RoleOf[h] = r})

(* The hosts whose role is not in the order. *)
Remaining(order) ==
    KeepIn(HostSeq, {h \in Hosts : \A i \in DOMAIN order : order[i] # RoleOf[h]})

Groups == Seq(Hosts) \ {<<>>}

(* A slip: the roles the order does not name come first. *)
OrderedGroupsLast(order) ==
    KeepIn(<<Remaining(order)>> \o [i \in DOMAIN order |-> HostsByRole(order[i])], Groups)

(* ordered_groups(): no group is empty. *)
OrderedGroups(order) ==
    KeepIn([i \in DOMAIN order |-> HostsByRole(order[i])] \o <<Remaining(order)>>, Groups)

(* What it returns for each order a definition may have. *)
GroupsOf == [order \in Orders |-> OrderedGroups(order)]

Current(t) == GroupsOf[cluster[t].order][at[t][1]][at[t][2]]

(* A slip: the group's last host is followed by its first. *)
AfterCircling(order, p) ==
    IF p[2] < Len(GroupsOf[order][p[1]]) THEN <<p[1], p[2] + 1>> ELSE <<p[1], 1>>

After(order, p) ==
    IF p[2] < Len(GroupsOf[order][p[1]]) THEN <<p[1], p[2] + 1>> ELSE <<p[1] + 1, 1>>

Exists(c, s) == \E h \in Hosts : c.hosts[h] = s
All(c, s) == \A h \in Hosts : c.hosts[h] = s

(* A thread goes to save its copy c and on to step k. *)
Save(t, c, k) ==
    /\ cluster' = [cluster EXCEPT ![t] = c]
    /\ then' = [then EXCEPT ![t] = k]
    /\ pc' = [pc EXCEPT ![t] = "open"]

Return(t) ==
    /\ cluster' = [cluster EXCEPT ![t] = None]
    /\ at' = [at EXCEPT ![t] = <<0, 0>>]
    /\ ok' = [ok EXCEPT ![t] = TRUE]
    /\ then' = [then EXCEPT ![t] = "idle"]
    /\ pc' = [pc EXCEPT ![t] = "idle"]

Init ==
    /\ file = None
    /\ pc = [t \in Threads |-> "idle"]
    /\ cluster = [t \in Threads |-> None]
    /\ at = [t \in Threads |-> <<0, 0>>]
    /\ ok = [t \in Threads |-> TRUE]
    /\ then = [t \in Threads |-> "idle"]
    /\ handle = [t \in Threads |-> "closed"]
    /\ fresh = {}
    /\ contested = FALSE
    /\ abandoned = FALSE

-----------------------------------------------------------------------------
(* Path.write_text, first half: the file is created or truncated. *)
SaveOpen(t) ==
    /\ pc[t] = "open"
    /\ file' = Torn
    /\ handle' = [handle EXCEPT ![t] = "mine"]
    /\ fresh' = fresh \cap {t}
    /\ contested' = (contested \/ t \notin fresh)
    /\ pc' = [pc EXCEPT ![t] = "write"]
    /\ UNCHANGED <<local, then, abandoned>>

(* Second half: the text.  It lands on what another thread has written     *)
(* since, whose longer text may stick out, or in a file deleted meanwhile. *)
SaveWrite(t) ==
    /\ pc[t] = "write"
    /\ file' \in CASE handle[t] = "mine" -> {cluster[t]}
                   [] handle[t] = "shared" -> {cluster[t], Torn}
                   [] handle[t] = "gone" -> {file}
    /\ handle' = [u \in Threads |->
                   IF u = t THEN "closed"
                   ELSE IF handle[t] # "gone" /\ handle[u] = "mine" THEN "shared"
                   ELSE handle[u]]
    /\ IF then[t] = "idle" THEN Return(t)
       ELSE pc' = [pc EXCEPT ![t] = then[t]] /\ UNCHANGED <<local, then>>
    /\ UNCHANGED <<fresh, contested, abandoned>>

(* A slip: the file stays open. *)
SaveFailLeaking(t) ==
    /\ pc[t] \in {"open", "write"}
    /\ abandoned' = TRUE
    /\ Return(t)
    /\ UNCHANGED <<file, handle, fresh, contested>>

(* Opening or writing fails (a full disk): the error leaves the call. *)
SaveFail(t) ==
    /\ pc[t] \in {"open", "write"}
    /\ handle' = [handle EXCEPT ![t] = "closed"]
    /\ abandoned' = TRUE
    /\ Return(t)
    /\ UNCHANGED <<file, fresh, contested>>

-----------------------------------------------------------------------------
(* create_cluster(): refused while the file exists.  The definition of     *)
(* parse_cluster_toml() is "defined", its hosts "pending".                 *)
CreateCluster(t, order) ==
    /\ pc[t] = "idle"
    /\ file = None
    /\ Save(t, [state |-> "defined", hosts |-> [h \in Hosts |-> "pending"],
                order |-> order], "idle")
    /\ fresh' = fresh \cup {t}
    /\ UNCHANGED <<file, at, ok, handle, contested, abandoned>>

(* start_provisioning(): the guard reads the file, the first save is later. *)
StartProvisioning(t) ==
    /\ pc[t] = "idle"
    /\ file \in Cluster
    /\ file.state # "provisioning"
    /\ cluster' = [cluster EXCEPT ![t] = [file EXCEPT !.state = "provisioning"]]
    /\ at' = [at EXCEPT ![t] = <<1, 1>>]
    /\ pc' = [pc EXCEPT ![t] = "advance"]
    /\ fresh' = fresh \cup {t}
    /\ UNCHANGED <<file, ok, then, handle, contested, abandoned>>

(* The loop over the groups and their hosts: the next host is marked ...   *)
NextHost(t) ==
    /\ pc[t] = "advance"
    /\ at[t][1] <= Len(GroupsOf[cluster[t].order])
    /\ Save(t, [cluster[t] EXCEPT !.hosts[Current(t)] = "provisioning"], "callback")
    /\ UNCHANGED <<file, at, ok, handle, fresh, contested, abandoned>>

(* A slip: a failing callback does not clear all_succeeded. *)
CallbacksForgiving(t, success) ==
    /\ pc[t] = "callback"
    /\ Save(t, [cluster[t] EXCEPT !.hosts[Current(t)] =
                  IF success THEN "complete" ELSE "failed"], "advance")
    /\ at' = [at EXCEPT ![t] = After(cluster[t].order, at[t])]
    /\ UNCHANGED <<file, ok, handle, fresh, contested, abandoned>>

(* ... the callbacks run, to the end or until one raises ... *)
Callbacks(t, success) ==
    /\ pc[t] = "callback"
    /\ Save(t, [cluster[t] EXCEPT !.hosts[Current(t)] =
                  IF success THEN "complete" ELSE "failed"], "advance")
    /\ at' = [at EXCEPT ![t] = After(cluster[t].order, at[t])]
    /\ ok' = [ok EXCEPT ![t] = ok[t] /\ success]
    /\ UNCHANGED <<file, handle, fresh, contested, abandoned>>

(* ... and after the last host the outcome is saved. *)
Outcome(c, allSucceeded) ==
    IF allSucceeded THEN "complete"
    ELSE IF Exists(c, "complete") THEN "partial" ELSE "failed"

(* A slip: the outcome is computed and not saved. *)
FinishUnsaved(t) ==
    /\ pc[t] = "advance"
    /\ at[t][1] > Len(GroupsOf[cluster[t].order])
    /\ Return(t)
    /\ UNCHANGED <<file, handle, fresh, contested, abandoned>>

Finish(t) ==
    /\ pc[t] = "advance"
    /\ at[t][1] > Len(GroupsOf[cluster[t].order])
    /\ Save(t, [cluster[t] EXCEPT !.state = Outcome(cluster[t], ok[t])], "idle")
    /\ UNCHANGED <<file, at, ok, handle, fresh, contested, abandoned>>

(* mark_host_complete() *)
MarkHostComplete(t, h) ==
    /\ pc[t] = "idle"
    /\ file \in Cluster
    /\ LET c == [file EXCEPT !.hosts[h] = "complete"]
       IN  Save(t, [c EXCEPT !.state = IF All(c, "complete") THEN "complete"
                                       ELSE IF Exists(c, "failed") THEN "partial"
                                       ELSE file.state], "idle")
    /\ fresh' = fresh \cup {t}
    /\ UNCHANGED <<file, at, ok, handle, contested, abandoned>>

(* mark_host_failed() *)
MarkHostFailed(t, h) ==
    /\ pc[t] = "idle"
    /\ file \in Cluster
    /\ LET c == [file EXCEPT !.hosts[h] = "failed"]
       IN  Save(t, [c EXCEPT !.state = IF Exists(c, "complete") THEN "partial"
                                       ELSE IF All(c, "failed") THEN "failed"
                                       ELSE file.state], "idle")
    /\ fresh' = fresh \cup {t}
    /\ UNCHANGED <<file, at, ok, handle, contested, abandoned>>

(* delete_cluster(): who has the file open goes on writing to no file. *)
DeleteCluster(t) ==
    /\ pc[t] = "idle"
    /\ file # None
    /\ file' = None
    /\ handle' = [u \in Threads |-> IF handle[u] = "closed" THEN "closed" ELSE "gone"]
    /\ fresh' = {}
    /\ UNCHANGED <<pc, local, then, contested, abandoned>>

(* The process dies and is started again. *)
Crash ==
    /\ \E t \in Threads : pc[t] # "idle"
    /\ abandoned' = TRUE
    /\ pc' = [t \in Threads |-> "idle"]
    /\ cluster' = [t \in Threads |-> None]
    /\ at' = [t \in Threads |-> <<0, 0>>]
    /\ ok' = [t \in Threads |-> TRUE]
    /\ then' = [t \in Threads |-> "idle"]
    /\ handle' = [t \in Threads |-> "closed"]
    /\ fresh' = {}
    /\ UNCHANGED <<file, contested>>

-----------------------------------------------------------------------------
(* What a thread does by itself once its caller has called. *)
Step(t) ==
    \/ SaveOpen(t)
    \/ SaveWrite(t)
    \/ NextHost(t)
    \/ \E success \in BOOLEAN : Callbacks(t, success)
    \/ Finish(t)

Next ==
    \/ \E t \in Threads :
         \/ Step(t)
         \/ SaveFail(t)
         \/ \E order \in Orders : CreateCluster(t, order)
         \/ StartProvisioning(t)
         \/ \E h \in Hosts : MarkHostComplete(t, h) \/ MarkHostFailed(t, h)
         \/ DeleteCluster(t)
    \/ Crash

(* Fairness: the operating system runs every thread, and the provision     *)
(* callbacks, which the application supplies, return or raise.             *)
Spec == Init /\ [][Next]_vars /\ \A t \in Threads : WF_vars(Step(t))

-----------------------------------------------------------------------------
(***************************************************************************)
(* Properties                                                              *)
(***************************************************************************)

(* Whatever calls, crashes and lost updates went into the file, a summary  *)
(* the file shows agrees with its hosts: "complete" says all of them are,  *)
(* "failed" that all failed, and "partial" that neither is so -- not all   *)
(* complete for orders that name no role twice, for ordered_groups()       *)
(* provisions such a role twice and the second try may succeed             *)
(* (cluster.py:444-455, 527-537, 569-582).                                 *)
Truthful(c) ==
    /\ c.state = "complete" => All(c, "complete")
    /\ c.state = "failed" => All(c, "failed")
    /\ c.state = "partial" =>
         /\ ~All(c, "failed")
         /\ (\A i, j \in DOMAIN c.order : c.order[i] = c.order[j] => i = j)
              => ~All(c, "complete")

SummaryIsTruthful == file \in Cluster => Truthful(file)

(* A cluster the guard refuses to start has a run in progress: otherwise   *)
(* nothing short of delete_cluster() or mark_host_* gets it out of         *)
(* "provisioning" (cluster.py:410).  The exceptions are a call cut short   *)
(* by a crash or a failed save, and a save from a copy read before the     *)
(* file last changed.                                                      *)
Running(t) == pc[t] # "idle" /\ at[t] # <<0, 0>>

ProvisioningIsRunning ==
    /\ file \in Cluster /\ file.state = "provisioning"
    /\ ~contested /\ ~abandoned
    => \E t \in Threads : Running(t)

(* "Hosts with earlier roles are provisioned first" and "hosts whose role  *)
(* is not in the ordering are placed last" (cluster.py:111-112, 177-179):  *)
(* when the callbacks run for a host, every host of an earlier role has    *)
(* had its own in the same run.                                            *)
Rank(order, h) ==
    LET named == {i \in DOMAIN order : order[i] = RoleOf[h]}
    IN  IF named = {} THEN Len(order) + 1 ELSE CHOOSE i \in named : \A j \in named : i <= j

RolesInOrder ==
    \A t \in Threads : pc[t] = "callback" =>
      \A h \in Hosts :
        Rank(cluster[t].order, h) < Rank(cluster[t].order, Current(t))
        => cluster[t].hosts[h] \in {"complete", "failed"}

(* A started cluster leaves "provisioning", unless a call was cut short or *)
(* an outdated copy was saved (cluster.py:421-458).                        *)
ProvisioningEnds ==
    (file \in Cluster /\ file.state = "provisioning")
      ~> (contested \/ abandoned \/ (file \in Cluster /\ file.state # "provisioning") \/ file = None)

(* "Cluster is already being provisioned": a second start_provisioning()   *)
(* raises while a first one is running (cluster.py:410-413,                *)
(* tests/test_cluster.py:648).                                             *)
OneRunAtATime ==
    \A t, u \in Threads : t # u /\ pc[t] = "callback" => pc[u] # "callback"

=============================================================================
