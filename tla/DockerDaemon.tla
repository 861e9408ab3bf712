---------------------------- MODULE DockerDaemon ----------------------------
(***************************************************************************)
(* The Docker daemon as the agent's client uses it (github.com/docker,     *)
(* outside the repository): containers with an id that is never reused, a  *)
(* state, and a configuration that `docker update' can change under the    *)
(* same id.  Everything an inspection returns, the health included, is one *)
(* value, the container's configuration.                                   *)
(***************************************************************************)
EXTENDS Naturals, Sequences, FiniteSets

CONSTANTS Apps,        \* ids of the containers other people run, numbers
          StressIds,   \* ids Docker gives to the agent's stress containers
          FirstConf,   \* the configuration containers are created with
          Confs,       \* what an inspection of a container can return
          MaxChanges   \* bound: changes made in Docker from outside the agent
                       \* and stress tests started

ASSUME DockerAssumption ==
    /\ Apps \cup StressIds \subseteq Nat /\ Apps \cap StressIds = {}
    /\ IsFiniteSet(Apps) /\ IsFiniteSet(StressIds)
    /\ FirstConf \in Confs /\ MaxChanges \in Nat

VARIABLES docker,      \* docker[id]: the container's state and configuration
          changes      \* such changes made so far

Ids == Apps \cup StressIds
States == {"unborn", "created", "up", "down", "gone"}
State(id) == docker[id].state
Exists(id) == State(id) \in {"created", "up", "down"}

(* Containers that run before the agent does are started by Outside, too.  *)
DockerInit ==
    /\ docker = [id \in Ids |-> [state |-> "unborn", conf |-> FirstConf]]
    /\ changes = 0

(* ContainerList: the containers that run, or all of them, in one order.   *)
Ascending(s) ==
    CHOOSE q \in [1..Cardinality(s) -> s] : \A i, j \in 1..Cardinality(s) : i < j => q[i] < q[j]
ContainerList(all) == Ascending({id \in Ids : Exists(id) /\ (all \/ State(id) = "up")})

Counted == changes < MaxChanges /\ changes' = changes + 1

(* What other users of Docker do.                                          *)
Outside ==
    /\ Counted
    /\ \E id \in Apps :
        \/ State(id) \in {"unborn", "down"} /\ docker' = [docker EXCEPT ![id].state = "up"]
        \/ State(id) = "up" /\ docker' = [docker EXCEPT ![id].state = "down"]
        \/ Exists(id) /\ docker' = [docker EXCEPT ![id].state = "gone"]
        \/ Exists(id) /\ \E c \in Confs \ {docker[id].conf} : docker' = [docker EXCEPT ![id].conf = c]

=============================================================================
