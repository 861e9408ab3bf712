----------------------------- MODULE StressTest -----------------------------
(***************************************************************************)
(* RunStressTest of internal/docker/client.go: every stress test runs in a *)
(* container of one fixed name, so two tests started one after the other   *)
(* meet in the daemon.  A command goes through its calls one by one; the   *)
(* daemon may refuse each of them for reasons of its own (a fault).        *)
(***************************************************************************)
EXTENDS ContainerDetails

CONSTANT NoId

VARIABLE outcomes      \* history: how the tests of the current batch ended

IsStress(s) == cmd[s].type = "stress"
StressBusy == \E s \in Slots : IsStress(s)
Unborn == {id \in StressIds : State(id) = "unborn"}
Named == {id \in StressIds : Exists(id)}

(* There is an id left for this test's container.                          *)
IdLeft == Cardinality(Unborn) > Cardinality({s \in Slots : IsStress(s) /\ cmd[s].id = NoId})

StressInit == outcomes = {}

At(s, step) == IsStress(s) /\ cmd[s].step = step
Goto(s, step) == cmd' = [cmd EXCEPT ![s].step = step]
End(s, how) ==
    /\ cmd' = [cmd EXCEPT ![s] = Idle]
    /\ outcomes' = outcomes \cup {how}

executeStress(s) ==
    /\ cmd[s] = Idle /\ IdLeft
    /\ Counted
    /\ cmd' = [cmd EXCEPT ![s] = [type |-> "stress", step |-> "remove", id |-> NoId]]
    /\ outcomes' = IF StressBusy THEN outcomes ELSE {}
    /\ UNCHANGED docker

Removed == [id \in Ids |-> IF id \in Named THEN [docker[id] EXCEPT !.state = "gone"] ELSE docker[id]]

(* ContainerRemove by name with Force, its error ignored.                  *)
RemovePrevious(s) ==
    /\ At(s, "remove")
    /\ Goto(s, "pull")
    /\ \/ docker' = Removed /\ UNCHANGED outcomes
       \/ Named # {} /\ UNCHANGED docker /\ outcomes' = outcomes \cup {"fault"}

(* ImageInspectWithRaw, and ImagePull if the image is missing.             *)
PullImage(s) ==
    /\ At(s, "pull")
    /\ \/ Goto(s, "create") /\ UNCHANGED outcomes
       \/ End(s, "fault")
    /\ UNCHANGED docker

\* Fault: a test that cannot be created cleans up what has its name.
CreateContainerCleaningUp(s) ==
    /\ At(s, "create")
    /\ \/ /\ Named = {}
          /\ \E id \in Unborn :
                /\ docker' = [docker EXCEPT ![id].state = "created"]
                /\ cmd' = [cmd EXCEPT ![s].step = "start", ![s].id = id]
          /\ UNCHANGED outcomes
       \/ Named # {} /\ End(s, "refused") /\ docker' = Removed

(* ContainerCreate fails if the name is taken.                             *)
CreateContainer(s) ==
    /\ At(s, "create")
    /\ \/ /\ Named = {}
          /\ \E id \in Unborn :
                /\ docker' = [docker EXCEPT ![id].state = "created"]
                /\ cmd' = [cmd EXCEPT ![s].step = "start", ![s].id = id]
          /\ UNCHANGED outcomes
       \/ Named # {} /\ End(s, "refused") /\ UNCHANGED docker
       \/ End(s, "fault") /\ UNCHANGED docker

(* ContainerStart fails if the container is no longer there.               *)
StartContainer(s) ==
    /\ At(s, "start")
    /\ \/ /\ State(cmd[s].id) = "created"
          /\ docker' = [docker EXCEPT ![cmd[s].id].state = "up"]
          /\ End(s, "ok")
       \/ State(cmd[s].id) # "created" /\ End(s, "refused") /\ UNCHANGED docker
       \/ End(s, "fault") /\ UNCHANGED docker

RunStressTest(s) == RemovePrevious(s) \/ PullImage(s) \/ CreateContainer(s) \/ StartContainer(s)

(* A test ends after its time and AutoRemove removes its container.        *)
AutoRemove ==
    \E id \in StressIds :
        /\ State(id) = "up"
        /\ docker' = [docker EXCEPT ![id].state = "gone"]
        /\ UNCHANGED <<cmd, outcomes>>

=============================================================================
