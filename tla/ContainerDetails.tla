-------------------------- MODULE ContainerDetails --------------------------
(***************************************************************************)
(* ListRunningContainersDetailed of internal/docker/client.go: the list    *)
(* command of the dashboard.  One goroutine per container looks the static *)
(* details up in a cache that all lists share and inspects the container   *)
(* on a miss; several lists may be under way at once.                      *)
(*                                                                         *)
(* A row has the container's id, its static details (environment, command, *)
(* mounts, restart policy, limits) as the id of the container they were    *)
(* read from, and the health.  Self-monitoring counters are left out.      *)
(***************************************************************************)
EXTENDS DockerDaemon

CONSTANTS IncludeContainers,  \* stats.include_containers
          NameOf,             \* NameOf[id]: the filters the name contains
          NoDetails,          \* details or health of a row not filled in
          Slots               \* bound: commands under way at once

VARIABLES metadataCache,      \* id -> static details
          cmd                 \* cmd[s]: the command in slot s

Idle == [type |-> "idle"]

isMonitored(id) == IncludeContainers = {} \/ IncludeContainers \cap NameOf[id] # {}

DetailsInit ==
    /\ metadataCache = <<>>
    /\ cmd = [s \in Slots |-> Idle]

toContainerDisplay(id) == [id |-> id, static |-> NoDetails, health |-> NoDetails]

\* Fault: the ids are taken before the containers are filtered.
BothPassesUnfiltered(list) ==
    LET kept == SelectSeq(list, isMonitored)
    IN [ids |-> list, rows |-> [i \in DOMAIN kept |-> toContainerDisplay(kept[i])]]

(* The first pass: rows of the monitored containers and, in step, their    *)
(* full ids.                                                               *)
BothPasses(list) ==
    LET kept == SelectSeq(list, isMonitored)
    IN [ids |-> kept, rows |-> [i \in DOMAIN kept |-> toContainerDisplay(kept[i])]]

ListContainers(s, all) ==
    LET p == BothPasses(ContainerList(all))
    IN /\ cmd[s] = Idle
       /\ cmd' = [cmd EXCEPT ![s] = [type |-> "list", ids |-> p.ids, rows |-> p.rows,
                                     at |-> [i \in DOMAIN p.rows |-> "lookup"]]]
       /\ UNCHANGED metadataCache

-----------------------------------------------------------------------------
(* What a hit fills in: the health is left empty.                          *)
FromCache(row, d) == [row EXCEPT !.static = d]

(* enrichContainerDetails: the lookup under the read lock, ...             *)
Lookup(s, i) ==
    /\ cmd[s].at[i] = "lookup"
    /\ LET id == cmd[s].ids[i]
       IN IF id \in DOMAIN metadataCache
          THEN cmd' = [cmd EXCEPT ![s].rows[i] = FromCache(@, metadataCache[id]), ![s].at[i] = "done"]
          ELSE cmd' = [cmd EXCEPT ![s].at[i] = "miss"]
    /\ UNCHANGED metadataCache

\* Fault: a failed inspection goes on to the cache like a successful one.
InspectFailsOnward(s, i) ==
    /\ cmd[s].at[i] = "miss"
    /\ cmd' = [cmd EXCEPT ![s].at[i] = "store"]
    /\ UNCHANGED metadataCache

(* ... an inspection that fails, ...                                       *)
InspectFails(s, i) ==
    /\ cmd[s].at[i] = "miss"
    /\ cmd' = [cmd EXCEPT ![s].at[i] = "done"]
    /\ UNCHANGED metadataCache

(* ... or fills the row in (the row is its goroutine's own until the list  *)
(* is ready, so the answer and the filling are one step), ...              *)
Inspect(s, i) ==
    LET id == cmd[s].ids[i]
    IN /\ cmd[s].at[i] = "miss" /\ Exists(id)
       /\ cmd' = [cmd EXCEPT ![s].rows[i].static = id,
                             ![s].rows[i].health = docker[id].conf,
                             ![s].at[i] = "store"]
       /\ UNCHANGED metadataCache

(* ... and the write under the lock.                                       *)
StoreDetails(s, i) ==
    LET id == cmd[s].ids[i]
    IN /\ cmd[s].at[i] = "store"
       /\ metadataCache' = [x \in DOMAIN metadataCache \cup {id} |->
                              IF x = id THEN cmd[s].rows[i].static ELSE metadataCache[x]]
       /\ cmd' = [cmd EXCEPT ![s].at[i] = "done"]

Enrich(s, i) == Lookup(s, i) \/ InspectFails(s, i) \/ Inspect(s, i) \/ StoreDetails(s, i)

IsList(s) == cmd[s].type = "list"
(* The WaitGroup is done: the list is a message for the dashboard.         *)
Ready(s) == IsList(s) /\ \A i \in DOMAIN cmd[s].rows : cmd[s].at[i] = "done"

=============================================================================
