------------------------- MODULE DockerViewsProofs -------------------------
(***************************************************************************)
(* Proofs about DockerViews, for any containers, filters, commands under   *)
(* way at once and configurations: rows show their own container, findings *)
(* belong to the list they are shown with, and stress tests cannot all     *)
(* fail because of each other.                                             *)
(***************************************************************************)
EXTENDS DockerViews, TLAPS

(* What a command in a slot looks like.                                    *)
RowsOk(rows) == \A i \in DOMAIN rows : rows[i].static \in {rows[i].id, NoDetails}

ListOk(c) ==
    /\ DOMAIN c = {"type", "ids", "rows", "at"} /\ c.type = "list"
    /\ DOMAIN c.rows = DOMAIN c.ids /\ DOMAIN c.at = DOMAIN c.ids
    /\ \A i \in DOMAIN c.ids :
          /\ DOMAIN c.rows[i] = {"id", "static", "health"}
          /\ c.rows[i].id = c.ids[i]
          /\ c.rows[i].static \in {c.ids[i], NoDetails}
          /\ c.at[i] = "store" => c.rows[i].static = c.ids[i]

StressOk(c) ==
    /\ DOMAIN c = {"type", "step", "id"} /\ c.type = "stress"
    /\ c.step \in {"remove", "pull", "create", "start"}

CmdOk(c) == c = Idle \/ ListOk(c) \/ StressOk(c)

(* Every list fills in its own rows, and the cache has each container's    *)
(* own details.                                                            *)
RowInv ==
    /\ DOMAIN cmd = Slots /\ \A s \in Slots : CmdOk(cmd[s])
    /\ \A id \in DOMAIN metadataCache : metadataCache[id] = id
    /\ RowsOk(handling) /\ RowsOk(shown)

(* What the auditor knows of a container is what the rules say of a        *)
(* configuration it has had since it was last absent.                      *)
OfListing(known) ==
    \A id \in DOMAIN known : id \in Ids /\ \E c \in since[id] : known[id] = Evaluate(c)

FindingsInv ==
    /\ docker \in [Ids -> [state: States, conf: Confs]]
    /\ \A id \in Ids : docker[id].conf \in since[id]
    /\ DOMAIN audit = {"on", "list", "todo", "new"}
    /\ audit.on => audit.list = IdsOf(handling)
    /\ OfListing(cache) /\ OfListing(audit.new)
    /\ FindingsAreOfThisListing

(* A test that is about to start its container made it itself; as long as  *)
(* nothing but refusals happened in the batch, every container of the name *)
(* belongs to such a test once somebody has removed the old ones, and some *)
(* test still has nothing against it.                                      *)
OwnContainers ==
    \A t \in Slots : At(t, "start") =>
        /\ cmd[t].id \in StressIds /\ State(cmd[t].id) \in {"created", "gone"}
        /\ \A u \in Slots : At(u, "start") /\ u # t => cmd[u].id # cmd[t].id
NoWinner == outcomes \cap {"ok", "fault"} = {}
PastRemoval == outcomes # {} \/ \E s \in Slots : IsStress(s) /\ cmd[s].step # "remove"
NamesAreOwned ==
    NoWinner /\ PastRemoval => \A x \in Named : \E t \in Slots : At(t, "start") /\ cmd[t].id = x
Unhindered(t) == IsStress(t) /\ (cmd[t].step = "start" => State(cmd[t].id) = "created")
SomeoneIsUnhindered ==
    NoWinner /\ (StressBusy \/ outcomes # {}) => \E t \in Slots : Unhindered(t)
StressInv == OwnContainers /\ NamesAreOwned /\ SomeoneIsUnhindered

(* The inductive invariant.                                                *)
Inv == RowInv /\ FindingsInv /\ StressInv

-----------------------------------------------------------------------------
(* Rows.                                                                    *)

(* The other commands are left alone by a step on one of them.              *)
Only(s) == DOMAIN cmd' = Slots /\ \A t \in Slots \ {s} : cmd'[t] = cmd[t]

(* A command in a slot is of one kind.                                      *)
LEMMA Kinds ==
    ASSUME RowInv, NEW s \in Slots
    PROVE  /\ IsList(s) => ListOk(cmd[s])
           /\ IsStress(s) => StressOk(cmd[s])
           /\ cmd[s] = Idle => ~IsList(s) /\ ~IsStress(s)
           /\ ~(IsList(s) /\ IsStress(s))
BY DEF RowInv, CmdOk, ListOk, StressOk, Idle, IsList, IsStress

LEMMA OnlyKeepsRows ==
    ASSUME RowInv, NEW s \in Slots, Only(s), CmdOk(cmd'[s]), UNCHANGED <<shown, handling>>,
           \A id \in DOMAIN metadataCache' : metadataCache'[id] = id
    PROVE  RowInv'
<1>1. \A t \in Slots : CmdOk(cmd'[t])
  BY DEF Only, RowInv
<1> QED BY <1>1 DEF Only, RowInv

(* Steps of a list.                                                         *)
LEMMA ListContainersRows ==
    ASSUME RowInv, NEW s \in Slots, NEW all \in BOOLEAN, ListContainers(s, all)
    PROVE  Only(s) /\ ListOk(cmd'[s]) /\ metadataCache' = metadataCache
<1> DEFINE list == ContainerList(all)
           kept == SelectSeq(list, isMonitored)
           rows == [i \in DOMAIN kept |-> toContainerDisplay(kept[i])]
           at == [i \in DOMAIN rows |-> "lookup"]
           c == [type |-> "list", ids |-> kept, rows |-> rows, at |-> at]
<1>1. cmd' = [cmd EXCEPT ![s] = c] /\ metadataCache' = metadataCache
  BY DEF ListContainers, BothPasses
<1> HIDE DEF kept
<1>2. /\ DOMAIN c = {"type", "ids", "rows", "at"} /\ c.type = "list"
      /\ c.ids = kept /\ c.rows = rows /\ c.at = at
  OBVIOUS
<1>3. \A i \in DOMAIN kept : /\ rows[i] = [id |-> kept[i], static |-> NoDetails, health |-> NoDetails]
                             /\ at[i] = "lookup"
  BY DEF toContainerDisplay
<1>4. DOMAIN rows = DOMAIN kept /\ DOMAIN at = DOMAIN kept
  OBVIOUS
<1>5. \A i \in DOMAIN kept : /\ DOMAIN rows[i] = {"id", "static", "health"}
                             /\ rows[i].id = kept[i] /\ rows[i].static = NoDetails
  BY <1>3
<1> HIDE DEF c, rows, at
<1>6. ListOk(c)
  BY <1>2, <1>3, <1>4, <1>5 DEF ListOk
<1>7. Only(s) /\ cmd'[s] = c
  BY <1>1 DEF Only, RowInv
<1> QED BY <1>1, <1>6, <1>7

LEMMA EnrichRows ==
    ASSUME RowInv, NEW s \in Slots, IsList(s), NEW i \in DOMAIN cmd[s].rows, Enrich(s, i)
    PROVE  /\ Only(s) /\ ListOk(cmd'[s])
           /\ \A id \in DOMAIN metadataCache' : metadataCache'[id] = id
<1> DEFINE c == cmd[s]
           d == cmd'[s]
           id == c.ids[i]
<1>1. DOMAIN cmd = Slots /\ ListOk(c)
  BY Kinds DEF RowInv
<1>2. \A x \in DOMAIN metadataCache : metadataCache[x] = x
  BY DEF RowInv
<1>3. /\ DOMAIN c = {"type", "ids", "rows", "at"} /\ i \in DOMAIN c.rows /\ i \in DOMAIN c.at
      /\ DOMAIN c.rows[i] = {"id", "static", "health"}
  BY <1>1 DEF ListOk
<1>4. ASSUME cmd' = [cmd EXCEPT ![s].at[i] = "miss"] \/ cmd' = [cmd EXCEPT ![s].at[i] = "done"]
      PROVE  Only(s) /\ ListOk(d)
  <2>1. Only(s)
    BY <1>1, <1>4 DEF Only
  <2>2. /\ DOMAIN d = {"type", "ids", "rows", "at"} /\ d.type = c.type /\ d.ids = c.ids
        /\ d.rows = c.rows /\ DOMAIN d.at = DOMAIN c.at
        /\ d.at[i] # "store" /\ \A j \in DOMAIN c.at \ {i} : d.at[j] = c.at[j]
    BY <1>1, <1>3, <1>4
  <2> HIDE DEF c, d
  <2>3. ListOk(d)
    BY <1>1, <2>2 DEF ListOk
  <2> QED BY <2>1, <2>3
<1>5. CASE Lookup(s, i) /\ id \notin DOMAIN metadataCache
  BY <1>2, <1>4, <1>5 DEF Lookup
<1>6. CASE InspectFails(s, i)
  BY <1>2, <1>4, <1>6 DEF InspectFails
<1>7. CASE StoreDetails(s, i)
  <2>1. \A x \in DOMAIN metadataCache' : metadataCache'[x] = x
    BY <1>1, <1>2, <1>7 DEF StoreDetails, ListOk
  <2> QED BY SMTT(30), <1>4, <1>7, <2>1 DEF StoreDetails
<1>8. CASE Lookup(s, i) /\ id \in DOMAIN metadataCache
  <2>1. /\ cmd' = [cmd EXCEPT ![s].rows[i] = FromCache(@, id), ![s].at[i] = "done"]
        /\ metadataCache' = metadataCache
    BY <1>2, <1>8 DEF Lookup
  <2>2. Only(s)
    BY <1>1, <2>1 DEF Only
  <2>3. /\ DOMAIN d = {"type", "ids", "rows", "at"} /\ d.type = c.type /\ d.ids = c.ids
        /\ DOMAIN d.rows = DOMAIN c.rows /\ DOMAIN d.at = DOMAIN c.at
        /\ d.at[i] # "store" /\ \A j \in DOMAIN c.at \ {i} : d.at[j] = c.at[j]
        /\ \A j \in DOMAIN c.rows \ {i} : d.rows[j] = c.rows[j]
        /\ d.rows[i] = [c.rows[i] EXCEPT !.static = id]
    BY <1>1, <1>3, <2>1 DEF FromCache
  <2>4. /\ DOMAIN d.rows[i] = {"id", "static", "health"} /\ d.rows[i].id = c.rows[i].id
        /\ d.rows[i].static = id
    BY <1>3, <2>3
  <2> HIDE DEF c, d
  <2>5. ListOk(d)
    BY <1>1, <1>3, <2>3, <2>4 DEF ListOk
  <2> QED BY <1>2, <2>1, <2>2, <2>5 DEF c, d
<1>9. CASE Inspect(s, i)
  <2>1. /\ cmd' = [cmd EXCEPT ![s].rows[i].static = id, ![s].rows[i].health = docker[id].conf,
                              ![s].at[i] = "store"]
        /\ metadataCache' = metadataCache
    BY <1>9 DEF Inspect
  <2>2. Only(s)
    BY <1>1, <2>1 DEF Only
  <2>3. /\ DOMAIN d = {"type", "ids", "rows", "at"} /\ d.type = c.type /\ d.ids = c.ids
        /\ DOMAIN d.rows = DOMAIN c.rows /\ DOMAIN d.at = DOMAIN c.at
        /\ \A j \in DOMAIN c.at \ {i} : d.at[j] = c.at[j]
        /\ \A j \in DOMAIN c.rows \ {i} : d.rows[j] = c.rows[j]
    BY <1>1, <1>3, <2>1
  <2>4. /\ DOMAIN d.rows[i] = {"id", "static", "health"} /\ d.rows[i].id = c.rows[i].id
        /\ d.rows[i].static = id
    BY <1>1, <1>3, <2>1
  <2> HIDE DEF c, d
  <2>5. ListOk(d)
    BY <1>1, <1>3, <2>3, <2>4 DEF ListOk
  <2> QED BY <1>2, <2>1, <2>2, <2>5 DEF c, d
<1> QED BY <1>5, <1>6, <1>7, <1>8, <1>9 DEF Enrich

(* Steps of a stress test.                                                  *)
LEMMA StressCmds ==
    ASSUME RowInv, NEW s \in Slots, executeStress(s) \/ RunStressTest(s)
    PROVE  Only(s) /\ CmdOk(cmd'[s]) /\ ~IsList(s)
<1>0. DOMAIN cmd = Slots
  BY DEF RowInv
<1>1. CASE executeStress(s)
  <2> DEFINE c == [type |-> "stress", step |-> "remove", id |-> NoId]
  <2>1. Only(s) /\ cmd'[s] = c
    BY <1>0, <1>1 DEF executeStress, Only
  <2>2. StressOk(c)
    BY DEF StressOk
  <2> QED BY <1>1, <2>1, <2>2, Kinds DEF CmdOk, executeStress
<1>2. CASE RunStressTest(s)
  <2>1. StressOk(cmd[s]) /\ ~IsList(s)
    BY <1>2, Kinds DEF RunStressTest, RemovePrevious, PullImage, CreateContainer,
       StartContainer, At
  <2>2. ASSUME NEW step \in {"remove", "pull", "create", "start"}, NEW id,
               \/ cmd' = [cmd EXCEPT ![s].step = step]
               \/ cmd' = [cmd EXCEPT ![s].step = step, ![s].id = id]
        PROVE  Only(s) /\ StressOk(cmd'[s])
    BY <1>0, <2>1, <2>2 DEF Only, StressOk
  <2>3. ASSUME cmd' = [cmd EXCEPT ![s] = Idle] PROVE Only(s) /\ cmd'[s] = Idle
    BY <1>0, <2>3 DEF Only
  <2>4. CASE RemovePrevious(s) \/ PullImage(s)
    BY <2>1, <2>2, <2>3, <2>4 DEF RemovePrevious, PullImage, Goto, End, CmdOk
  <2>5. CASE CreateContainer(s)
    BY <2>1, <2>2, <2>3, <2>5 DEF CreateContainer, End, CmdOk
  <2>6. CASE StartContainer(s)
    BY <2>1, <2>3, <2>6 DEF StartContainer, End, CmdOk
  <2> QED BY <1>2, <2>4, <2>5, <2>6 DEF RunStressTest
<1> QED BY <1>1, <1>2

LEMMA RowStep == ASSUME RowInv, [Next]_vvars PROVE RowInv'
<1>0. \A id \in DOMAIN metadataCache : metadataCache[id] = id
  BY DEF RowInv
<1>1. CASE UNCHANGED vvars \/ DockerChanges \/ Audits
  BY <1>1 DEF vvars, views, DockerChanges, Audits, AuditStep, RowInv
<1>2. CASE StressStep
  <2>1. UNCHANGED <<metadataCache, handling, shown>>
    BY <1>2 DEF StressStep, views
  <2>2. CASE UNCHANGED cmd
    BY <2>1, <2>2 DEF RowInv
  <2>3. ASSUME NEW s \in Slots, executeStress(s) \/ RunStressTest(s) PROVE RowInv'
    BY <1>0, <2>1, <2>3, StressCmds, OnlyKeepsRows
  <2> QED BY <1>2, <2>2, <2>3 DEF StressStep, AutoRemove
<1>3. CASE Lists
  <2>1. PICK s \in Slots : fetchContainers(s)
    BY <1>3 DEF Lists
  <2>2. PICK all \in BOOLEAN : ListContainers(s, all)
    BY <2>1 DEF fetchContainers
  <2>3. Only(s) /\ ListOk(cmd'[s]) /\ metadataCache' = metadataCache
    BY <2>2, ListContainersRows
  <2>4. UNCHANGED <<handling, shown>>
    BY <2>1 DEF fetchContainers, views
  <2> QED BY <1>0, <2>3, <2>4, OnlyKeepsRows DEF CmdOk
<1>4. CASE Handles
  <2>1. PICK s \in Slots : handleContainerListMsg(s)
    BY <1>4 DEF Handles
  <2>2. ListOk(cmd[s])
    BY <2>1, Kinds DEF handleContainerListMsg, Ready
  <2>3. RowsOk(handling') /\ RowsOk(shown')
    BY <2>1, <2>2 DEF handleContainerListMsg, ListOk, RowsOk, RowInv
  <2>4. DOMAIN cmd' = Slots /\ \A t \in Slots : CmdOk(cmd'[t])
    BY <2>1 DEF handleContainerListMsg, RowInv, CmdOk
  <2>5. metadataCache' = metadataCache
    BY <2>1 DEF handleContainerListMsg
  <2> QED BY <1>0, <2>3, <2>4, <2>5 DEF RowInv
<1>5. CASE Enriches
  <2>1. PICK s \in Slots : IsList(s) /\ \E i \in DOMAIN cmd[s].rows : EnrichStep(s, i)
    BY <1>5 DEF Enriches
  <2>2. PICK i \in DOMAIN cmd[s].rows : EnrichStep(s, i)
    BY <2>1
  <2>3. UNCHANGED <<handling, shown>> /\ Enrich(s, i)
    BY <2>2 DEF EnrichStep, views
  <2>4. /\ Only(s) /\ ListOk(cmd'[s])
        /\ \A id \in DOMAIN metadataCache' : metadataCache'[id] = id
    BY <2>1, <2>3, EnrichRows
  <2> QED BY <2>3, <2>4, OnlyKeepsRows DEF CmdOk
<1>6. CASE processSecurityAlerts
  <2>1. /\ UNCHANGED <<cmd, metadataCache>> /\ shown' = handling /\ handling' = <<>>
    BY <1>6 DEF processSecurityAlerts
  <2>2. DOMAIN handling' = {}
    BY <2>1
  <2> QED BY <2>1, <2>2 DEF RowInv, RowsOk
<1> QED BY <1>1, <1>2, <1>3, <1>4, <1>5, <1>6 DEF Next

LEMMA RowInvariant == Spec => []RowInv
<1>1. Init => RowInv
  <2> SUFFICES ASSUME Init PROVE RowInv
    OBVIOUS
  <2>1. DOMAIN handling = {} /\ DOMAIN shown = {} /\ DOMAIN metadataCache = {}
    BY DEF Init, DetailsInit
  <2>2. DOMAIN cmd = Slots /\ \A s \in Slots : CmdOk(cmd[s])
    BY DEF Init, DetailsInit, CmdOk
  <2> QED BY <2>1, <2>2 DEF RowInv, RowsOk
<1>2. RowInv /\ [Next]_vvars => RowInv'
  BY RowStep
<1> QED BY <1>1, <1>2, PTL DEF Spec

(* A row shows the details of its own container.                            *)
THEOREM RowsOfTheirContainers == Spec => []RowsAreOfTheirContainers
<1>1. RowInv => RowsAreOfTheirContainers
  BY DEF RowInv, RowsOk, RowsAreOfTheirContainers
<1> QED BY <1>1, RowInvariant, PTL

-----------------------------------------------------------------------------
(* Findings.                                                                *)

(* Nothing is forgotten by a step that only adds configurations.            *)
LEMMA GrowingKeepsFindings ==
    ASSUME FindingsInv, UNCHANGED <<cache, audit, handling, shown, securityAlerts>>,
           \A id \in Ids : since[id] \subseteq since'[id] /\ docker'[id].conf \in since'[id],
           docker' \in [Ids -> [state: States, conf: Confs]]
    PROVE  FindingsInv'
<1>1. OfListing(cache)' /\ OfListing(audit.new)'
  BY DEF FindingsInv, OfListing
<1>2. FindingsAreOfThisListing'
  BY ZenonT(40) DEF FindingsInv, FindingsAreOfThisListing, AlertsOf, IdsOf
<1> QED BY <1>1, <1>2 DEF FindingsInv, IdsOf

(* The daemon's own steps; a stress test changes states only.               *)
LEMMA OutsideTyped ==
    ASSUME FindingsInv, Outside PROVE docker' \in [Ids -> [state: States, conf: Confs]]
<1>1. PICK id \in Apps :
        \/ docker' = [docker EXCEPT ![id].state = "up"]
        \/ docker' = [docker EXCEPT ![id].state = "down"]
        \/ docker' = [docker EXCEPT ![id].state = "gone"]
        \/ \E c \in Confs : docker' = [docker EXCEPT ![id].conf = c]
  BY DEF Outside
<1>2. id \in Ids /\ docker \in [Ids -> [state: States, conf: Confs]]
  BY DEF Ids, FindingsInv
<1>3. ASSUME NEW st \in States, docker' = [docker EXCEPT ![id].state = st]
      PROVE  docker' \in [Ids -> [state: States, conf: Confs]]
  BY <1>2, <1>3
<1>4. ASSUME NEW c \in Confs, docker' = [docker EXCEPT ![id].conf = c]
      PROVE  docker' \in [Ids -> [state: States, conf: Confs]]
  BY <1>2, <1>4
<1> QED BY <1>1, <1>3, <1>4 DEF States

LEMMA StressTyped ==
    ASSUME RowInv, FindingsInv, StressInv, StressStep
    PROVE  /\ docker' \in [Ids -> [state: States, conf: Confs]]
           /\ \A id \in Ids : docker'[id].conf = docker[id].conf
<1>0. docker \in [Ids -> [state: States, conf: Confs]] /\ StressIds \subseteq Ids
  BY DEF FindingsInv, Ids
<1>1. ASSUME NEW id \in StressIds, NEW st \in States, docker' = [docker EXCEPT ![id].state = st]
      PROVE  /\ docker' \in [Ids -> [state: States, conf: Confs]]
             /\ \A x \in Ids : docker'[x].conf = docker[x].conf
  BY <1>0, <1>1
<1>2. ASSUME docker' = Removed
      PROVE  /\ docker' \in [Ids -> [state: States, conf: Confs]]
             /\ \A x \in Ids : docker'[x].conf = docker[x].conf
  <2>1. \A x \in Ids : [docker[x] EXCEPT !.state = "gone"] \in [state: States, conf: Confs]
                       /\ [docker[x] EXCEPT !.state = "gone"].conf = docker[x].conf
    BY <1>0 DEF States
  <2> QED BY <1>0, <1>2, <2>1 DEF Removed
<1>3. CASE docker' = docker
  BY <1>0, <1>3
<1>4. CASE AutoRemove
  BY <1>1, <1>4 DEF AutoRemove, States
<1>5. ASSUME NEW s \in Slots, executeStress(s)
      PROVE  docker' = docker
  BY <1>5 DEF executeStress
<1>6. ASSUME NEW s \in Slots, RemovePrevious(s) \/ PullImage(s)
      PROVE  docker' = docker \/ docker' = Removed
  BY <1>6 DEF RemovePrevious, PullImage
<1>7. ASSUME NEW s \in Slots, CreateContainer(s)
      PROVE  docker' = docker \/ \E id \in StressIds : docker' = [docker EXCEPT ![id].state = "created"]
  BY <1>7 DEF CreateContainer, Unborn
<1>8. ASSUME NEW s \in Slots, StartContainer(s)
      PROVE  docker' = docker \/ \E id \in StressIds : docker' = [docker EXCEPT ![id].state = "up"]
  BY <1>8 DEF StartContainer, StressInv, OwnContainers
<1> QED
  BY <1>1, <1>2, <1>3, <1>4, <1>5, <1>6, <1>7, <1>8 DEF StressStep, RunStressTest, States

LEMMA FindingsStep ==
    ASSUME RowInv, FindingsInv, StressInv, [Next]_vvars PROVE FindingsInv'
<1>0. docker \in [Ids -> [state: States, conf: Confs]]
      /\ DOMAIN audit = {"on", "list", "todo", "new"}
  BY DEF FindingsInv
<1>1. CASE UNCHANGED vvars \/ Lists \/ Enriches
  BY <1>1, GrowingKeepsFindings DEF vvars, views, Lists, fetchContainers, Enriches, EnrichStep,
     FindingsInv
<1>2. CASE DockerChanges
  <2>1. /\ UNCHANGED <<cache, audit, handling, shown, securityAlerts>> /\ Outside
        /\ \A id \in Ids : since'[id] = since[id] \cup {docker'[id].conf}
    BY <1>2 DEF DockerChanges
  <2> QED BY <2>1, OutsideTyped, GrowingKeepsFindings
<1>3. CASE StressStep
  <2>1. UNCHANGED <<cache, audit, handling, shown, securityAlerts, since>>
    BY <1>3 DEF StressStep, views
  <2>2. \A id \in Ids : docker'[id].conf \in since'[id]
    BY <1>3, <2>1, StressTyped DEF FindingsInv
  <2> QED BY <1>3, <2>1, <2>2, StressTyped, GrowingKeepsFindings
<1>4. CASE Handles
  <2>1. PICK s \in Slots : handleContainerListMsg(s)
    BY <1>4 DEF Handles
  <2>2. /\ handling' = cmd[s].rows /\ UNCHANGED <<docker, shown, securityAlerts, since, cache>>
        /\ audit' = [on |-> TRUE, list |-> IdsOf(cmd[s].rows),
                     todo |-> IdsOf(cmd[s].rows) \ DOMAIN cache, new |-> <<>>]
    BY <2>1 DEF handleContainerListMsg, AuditBegin
  <2>3. /\ DOMAIN audit' = {"on", "list", "todo", "new"} /\ audit'.new = <<>>
        /\ audit'.list = IdsOf(handling)'
    BY <2>2 DEF IdsOf
  <2>4. DOMAIN audit'.new = {}
    BY <2>3
  <2>5. OfListing(cache)' /\ OfListing(audit.new)' /\ FindingsAreOfThisListing'
    BY ZenonT(40), <2>2, <2>4 DEF FindingsInv, OfListing, FindingsAreOfThisListing, AlertsOf, IdsOf
  <2> QED BY <2>2, <2>3, <2>5 DEF FindingsInv
<1>5. CASE Audits
  <2>1. PICK id \in Ids : AuditStep(id)
    BY <1>5 DEF Audits
  <2>2. UNCHANGED <<docker, handling, shown, securityAlerts, since, cache>>
    BY <2>1 DEF AuditStep, views, AuditInspect, AuditInspectFails
  <2>3. /\ DOMAIN audit' = {"on", "list", "todo", "new"}
        /\ audit'.on = audit.on /\ audit'.list = audit.list
        /\ \/ audit'.new = audit.new
           \/ audit'.new = [x \in DOMAIN audit.new \cup {id} |->
                              IF x = id THEN Evaluate(docker[id].conf) ELSE audit.new[x]]
    BY <1>0, <2>1 DEF AuditStep, AuditInspect, AuditInspectFails
  <2>4. OfListing(audit.new)'
    <3>1. OfListing(audit.new) /\ docker[id].conf \in since[id]
      BY DEF FindingsInv
    <3> QED BY <2>2, <2>3, <3>1 DEF OfListing
  <2>5. OfListing(cache)' /\ FindingsAreOfThisListing'
    BY <2>2 DEF FindingsInv, OfListing, FindingsAreOfThisListing, AlertsOf, IdsOf
  <2> QED BY <2>2, <2>3, <2>4, <2>5 DEF FindingsInv, IdsOf
<1>6. CASE processSecurityAlerts
  <2>1. /\ audit.on /\ cache' = Evict(Known, audit.list) /\ audit' = NoAudit
        /\ securityAlerts' = AuditResult /\ shown' = handling /\ docker' = docker
        /\ \A id \in Ids : since'[id] = IF id \in audit.list THEN since[id] ELSE {docker[id].conf}
    BY <1>6 DEF processSecurityAlerts, AuditReturns
  <2>2. OfListing(Known)
    BY DEF FindingsInv, OfListing, Known
  <2>3. OfListing(cache)'
    <3>1. \A id \in DOMAIN cache' : /\ id \in DOMAIN Known /\ id \in audit.list
                                    /\ cache'[id] = Known[id]
      BY <2>1 DEF Evict
    <3> HIDE DEF Known
    <3>2. \A id \in DOMAIN cache' : id \in Ids /\ \E c \in since'[id] : cache'[id] = Evaluate(c)
      BY ZenonT(60), <2>1, <2>2, <3>1 DEF OfListing
    <3> QED BY <3>2 DEF OfListing
  <2>4. /\ DOMAIN audit' = {"on", "list", "todo", "new"} /\ audit'.on = FALSE
        /\ audit'.new = <<>>
    BY <2>1 DEF NoAudit
  <2>5. OfListing(audit.new)'
    <3>1. DOMAIN audit'.new = {}
      BY <2>4
    <3> QED BY <3>1 DEF OfListing
  <2>6. FindingsAreOfThisListing'
    <3> SUFFICES ASSUME NEW id \in Ids, AlertsOf(id)' # {}
                 PROVE  id \in IdsOf(shown)' /\ \E c \in since'[id] : AlertsOf(id)' = Evaluate(c)
      BY DEF FindingsAreOfThisListing
    <3>1. \A p \in AuditResult : /\ p[1] \in audit.list /\ p[1] \in DOMAIN Known
                                 /\ p[2] \in Known[p[1]]
      BY DEF AuditResult, Findings
    <3>2. AlertsOf(id)' = {p[2] : p \in {q \in AuditResult : q[1] = id}}
      BY <2>1 DEF AlertsOf
    <3>3. id \in audit.list /\ id \in DOMAIN Known
      BY <3>1, <3>2
    <3>4. \A f \in Known[id] : <<id, f>> \in AuditResult
      BY <3>3 DEF AuditResult, Findings
    <3> HIDE DEF Known, AuditResult
    <3>5. AlertsOf(id)' = Known[id]
      <4>1. \A f \in AlertsOf(id)' : f \in Known[id]
        BY <3>1, <3>2
      <4>2. ASSUME NEW f \in Known[id] PROVE f \in AlertsOf(id)'
        <5> DEFINE q == <<id, f>>
        <5>1. q \in AuditResult /\ q[1] = id /\ q[2] = f
          BY <3>4
        <5> HIDE DEF q
        <5> QED BY <3>2, <5>1
      <4> QED BY <4>1, <4>2
    <3>6. id \in IdsOf(shown)'
      BY <2>1, <3>3 DEF FindingsInv, IdsOf
    <3> QED BY <2>1, <2>2, <3>3, <3>5, <3>6 DEF OfListing
  <2>7. \A id \in Ids : docker'[id].conf \in since'[id]
    BY <2>1 DEF FindingsInv
  <2> QED BY <1>0, <2>1, <2>3, <2>4, <2>5, <2>6, <2>7 DEF FindingsInv
<1> QED BY <1>1, <1>2, <1>3, <1>4, <1>5, <1>6 DEF Next

-----------------------------------------------------------------------------
(* Stress tests.                                                            *)

(* Steps that leave the tests and their containers alone.                   *)
LEMMA OthersKeepStress ==
    ASSUME StressInv, UNCHANGED outcomes,
           \A t \in Slots : /\ IsStress(t)' <=> IsStress(t)
                            /\ IsStress(t) => cmd'[t] = cmd[t],
           \A id \in StressIds : docker'[id].state = docker[id].state
    PROVE  StressInv'
<1>1. \A t \in Slots : At(t, "start")' <=> At(t, "start")
  BY DEF At, IsStress
<1>2. \A t \in Slots : At(t, "start") => cmd'[t].id = cmd[t].id
  BY DEF At
<1>3. OwnContainers'
  BY <1>1, <1>2 DEF StressInv, OwnContainers, State
<1>4. Named' = Named /\ NoWinner' = NoWinner /\ StressBusy' = StressBusy
  BY DEF Named, Exists, State, NoWinner, StressBusy
<1>5. PastRemoval' => PastRemoval
  BY DEF PastRemoval, IsStress
<1>6. NamesAreOwned'
  BY <1>1, <1>2, <1>4, <1>5 DEF StressInv, NamesAreOwned
<1>7. \A t \in Slots : Unhindered(t) => Unhindered(t)'
  BY DEF Unhindered, IsStress, State, StressInv, OwnContainers, At
<1>8. SomeoneIsUnhindered'
  BY <1>4, <1>7 DEF StressInv, SomeoneIsUnhindered
<1> QED BY <1>3, <1>6, <1>8 DEF StressInv

(* A test that is not about to start its container leaves those that are    *)
(* with their own, if none of these containers comes up.                    *)
LEMMA OwnKept ==
    ASSUME OwnContainers, NEW s \in Slots, Only(s), ~At(s, "start")',
           \A t \in Slots \ {s} : At(t, "start") =>
               docker'[cmd[t].id].state \in {"created", "gone"}
    PROVE  OwnContainers'
<1>1. \A t \in Slots : At(t, "start")' => t # s /\ cmd'[t] = cmd[t] /\ At(t, "start")
  BY DEF Only, At, IsStress
<1> QED BY <1>1 DEF OwnContainers, State

(* Once a test of the batch succeeded or had a fault of its own, only the   *)
(* first part is left to show.                                              *)
LEMMA WonKeepsStress ==
    ASSUME OwnContainers', outcomes' \cap {"ok", "fault"} # {} PROVE StressInv'
BY DEF StressInv, NamesAreOwned, SomeoneIsUnhindered, NoWinner

LEMMA FaultKeepsStress ==
    ASSUME RowInv, StressInv, NEW s \in Slots, End(s, "fault"), UNCHANGED docker
    PROVE  StressInv'
<1>1. Only(s) /\ cmd'[s] = Idle /\ "fault" \in outcomes'
  BY DEF End, RowInv, Only
<1>2. ~At(s, "start")'
  BY <1>1 DEF At, IsStress, Idle
<1>3. OwnContainers'
  BY <1>1, <1>2, OwnKept DEF StressInv, OwnContainers, State
<1> QED BY <1>1, <1>3, WonKeepsStress

LEMMA RemoveKeepsStress ==
    ASSUME RowInv, FindingsInv, StressInv, NEW s \in Slots, RemovePrevious(s) PROVE StressInv'
<1>0. DOMAIN cmd = Slots /\ StressOk(cmd[s])
  BY Kinds DEF RemovePrevious, At, RowInv
<1>1. Only(s) /\ cmd'[s].type = "stress" /\ cmd'[s].step = "pull"
  BY <1>0 DEF RemovePrevious, Goto, Only, StressOk
<1>2. ~At(s, "start")' /\ Unhindered(s)'
  BY <1>1 DEF At, Unhindered, IsStress
<1>3. \A t \in Slots : At(t, "start") => /\ cmd[t].id \in StressIds
                                         /\ State(cmd[t].id) \in {"created", "gone"}
  BY DEF StressInv, OwnContainers
<1>4. CASE docker' = Removed /\ UNCHANGED outcomes
  <2>1. \A x \in StressIds : x \in Ids
    BY DEF Ids
  <2>2. \A x \in StressIds : docker'[x] = IF x \in Named THEN [docker[x] EXCEPT !.state = "gone"]
                                          ELSE docker[x]
    BY <1>4, <2>1 DEF Removed
  <2>3. \A x \in StressIds : IF x \in Named THEN docker'[x].state = "gone"
                             ELSE docker'[x].state = docker[x].state
    <3>1. \A x \in StressIds : [docker[x] EXCEPT !.state = "gone"].state = "gone"
      BY <2>1 DEF FindingsInv
    <3> QED BY <2>2, <3>1
  <2>4. \A x \in StressIds : docker'[x].state \notin {"created", "up", "down"}
    BY <2>3 DEF Named, Exists, State
  <2>5. Named' = {}
    BY <2>4 DEF Named, Exists, State
  <2>6. OwnContainers'
    <3>1. \A t \in Slots : At(t, "start") => docker'[cmd[t].id].state \in {"created", "gone"}
      BY <1>3, <2>3 DEF State
    <3> QED BY <1>1, <1>2, <3>1, OwnKept DEF StressInv
  <2> QED BY <1>2, <2>5, <2>6 DEF StressInv, NamesAreOwned, SomeoneIsUnhindered
<1>5. CASE UNCHANGED docker /\ outcomes' = outcomes \cup {"fault"}
  <2>1. OwnContainers'
    BY <1>1, <1>2, <1>3, <1>5, OwnKept DEF StressInv, State
  <2> QED BY <1>5, <2>1, WonKeepsStress
<1> QED BY <1>4, <1>5 DEF RemovePrevious

LEMMA PullKeepsStress ==
    ASSUME RowInv, StressInv, NEW s \in Slots, PullImage(s) PROVE StressInv'
<1>1. CASE Goto(s, "create") /\ UNCHANGED outcomes
  <2>0. DOMAIN cmd = Slots /\ StressOk(cmd[s]) /\ cmd[s].step = "pull" /\ docker' = docker
    BY Kinds DEF PullImage, At, RowInv
  <2>1. Only(s) /\ cmd'[s].type = "stress" /\ cmd'[s].step = "create"
    BY <1>1, <2>0 DEF Goto, Only, StressOk
  <2>2. ~At(s, "start")' /\ ~At(s, "start") /\ Unhindered(s)'
    BY <2>0, <2>1 DEF At, Unhindered, IsStress
  <2>3. OwnContainers'
    BY <2>0, <2>1, <2>2, OwnKept DEF StressInv, OwnContainers, State
  <2>4. PastRemoval /\ Named' = Named /\ NoWinner' = NoWinner
    BY <1>1, <2>0 DEF PastRemoval, IsStress, StressOk, Named, Exists, State, NoWinner
  <2>5. \A t \in Slots : At(t, "start") => At(t, "start")' /\ cmd'[t].id = cmd[t].id
    BY <2>1, <2>2 DEF Only, At, IsStress
  <2>6. NamesAreOwned'
    BY <2>4, <2>5 DEF StressInv, NamesAreOwned
  <2> QED BY <2>2, <2>3, <2>6 DEF StressInv, SomeoneIsUnhindered
<1>2. CASE End(s, "fault")
  BY <1>2, FaultKeepsStress DEF PullImage
<1> QED BY <1>1, <1>2 DEF PullImage

LEMMA CreateKeepsStress ==
    ASSUME RowInv, FindingsInv, StressInv, NEW s \in Slots, CreateContainer(s) PROVE StressInv'
<1>0. DOMAIN cmd = Slots /\ StressOk(cmd[s]) /\ cmd[s].step = "create"
      /\ docker \in [Ids -> [state: States, conf: Confs]]
  BY Kinds DEF CreateContainer, At, RowInv, FindingsInv
<1>1. ~At(s, "start") /\ PastRemoval
  BY <1>0 DEF At, PastRemoval, IsStress, StressOk
<1>2. ASSUME Named = {}, UNCHANGED outcomes, NEW id \in Unborn,
             docker' = [docker EXCEPT ![id].state = "created"],
             cmd' = [cmd EXCEPT ![s].step = "start", ![s].id = id]
      PROVE  StressInv'
  <2>1. id \in StressIds /\ docker[id].state = "unborn" /\ id \in Ids
    BY DEF Unborn, State, Ids
  <2>2. /\ docker'[id].state = "created"
        /\ \A x \in Ids \ {id} : docker'[x].state = docker[x].state
    BY <1>0, <1>2, <2>1
  <2>3. Only(s) /\ cmd'[s].type = "stress" /\ cmd'[s].step = "start" /\ cmd'[s].id = id
    BY <1>0, <1>2 DEF Only, StressOk
  <2>4. \A t \in Slots \ {s} : At(t, "start") => /\ cmd[t].id \in StressIds /\ cmd[t].id # id
                                                 /\ docker[cmd[t].id].state \in {"created", "gone"}
    BY <2>1 DEF StressInv, OwnContainers, State
  <2>5. At(s, "start")'
        /\ \A t \in Slots \ {s} : cmd'[t] = cmd[t] /\ (At(t, "start")' <=> At(t, "start"))
    BY <2>3 DEF Only, At, IsStress
  <2>6. OwnContainers'
    <3> SUFFICES ASSUME NEW t \in Slots, At(t, "start")'
                 PROVE  /\ cmd'[t].id \in StressIds
                        /\ docker'[cmd'[t].id].state \in {"created", "gone"}
                        /\ \A u \in Slots : At(u, "start")' /\ u # t => cmd'[u].id # cmd'[t].id
      BY DEF OwnContainers, State
    <3>1. CASE t = s
      BY <2>1, <2>2, <2>3, <2>4, <2>5, <3>1
    <3>2. CASE t # s
      <4>1. /\ cmd'[t] = cmd[t] /\ At(t, "start") /\ cmd[t].id \in StressIds /\ cmd[t].id # id
            /\ docker[cmd[t].id].state \in {"created", "gone"} /\ cmd[t].id \in Ids
        BY <2>4, <2>5, <3>2 DEF Ids
      <4>2. \A u \in Slots : At(u, "start")' /\ u # t => cmd'[u].id # cmd[t].id
        <5>1. \A u \in Slots : At(u, "start") /\ u # t => cmd[u].id # cmd[t].id
          BY <4>1 DEF StressInv, OwnContainers
        <5> QED BY <2>3, <2>5, <4>1, <5>1
      <4> QED BY <2>2, <4>1, <4>2
    <3> QED BY <3>1, <3>2
  <2>7. Unhindered(s)'
    BY <2>2, <2>3 DEF Unhindered, IsStress, State
  <2>8. Named' \subseteq {id}
    BY <1>2, <2>2 DEF Named, Exists, State, Ids
  <2>9. NamesAreOwned' /\ SomeoneIsUnhindered'
    BY <2>3, <2>5, <2>7, <2>8 DEF NamesAreOwned, SomeoneIsUnhindered
  <2> QED BY <2>6, <2>9 DEF StressInv
<1>3. CASE Named # {} /\ End(s, "refused") /\ UNCHANGED docker
  <2>1. Only(s) /\ cmd'[s] = Idle /\ outcomes' = outcomes \cup {"refused"}
    BY <1>0, <1>3 DEF End, Only
  <2>2. ~At(s, "start")'
    BY <2>1 DEF At, IsStress, Idle
  <2>3. OwnContainers'
    BY <1>3, <2>1, <2>2, OwnKept DEF StressInv, OwnContainers, State
  <2>4. NoWinner' => NoWinner
    BY <2>1 DEF NoWinner
  <2>5. \A t \in Slots : At(t, "start") => cmd'[t] = cmd[t] /\ At(t, "start")'
    BY <1>1, <2>1 DEF Only, At, IsStress
  <2>6. NamesAreOwned'
    <3>1. Named' = Named
      BY <1>3 DEF Named, Exists, State
    <3> QED BY <1>1, <2>4, <2>5, <3>1 DEF StressInv, NamesAreOwned
  <2>7. SomeoneIsUnhindered'
    <3> SUFFICES ASSUME NoWinner' PROVE \E t \in Slots : Unhindered(t)'
      BY DEF SomeoneIsUnhindered
    <3>1. PICK x \in Named : TRUE
      BY <1>3
    <3>2. PICK t \in Slots : At(t, "start") /\ cmd[t].id = x
      BY <1>1, <2>4 DEF StressInv, NamesAreOwned
    <3>3. State(x) \in {"created", "gone"} /\ State(x) # "gone"
      BY <3>1, <3>2 DEF StressInv, OwnContainers, Named, Exists
    <3>4. Unhindered(t)'
      BY <1>3, <2>5, <3>2, <3>3 DEF Unhindered, At, IsStress, State
    <3> QED BY <3>4
  <2> QED BY <2>3, <2>6, <2>7 DEF StressInv
<1>4. CASE End(s, "fault") /\ UNCHANGED docker
  BY <1>4, FaultKeepsStress
<1> QED BY <1>2, <1>3, <1>4 DEF CreateContainer

LEMMA StartKeepsStress ==
    ASSUME RowInv, FindingsInv, StressInv, NEW s \in Slots, StartContainer(s) PROVE StressInv'
<1>0. DOMAIN cmd = Slots /\ At(s, "start") /\ docker \in [Ids -> [state: States, conf: Confs]]
  BY DEF StartContainer, RowInv, FindingsInv
<1>1. /\ cmd[s].id \in StressIds /\ cmd[s].id \in Ids
      /\ State(cmd[s].id) \in {"created", "gone"}
      /\ \A t \in Slots \ {s} : At(t, "start") =>
            cmd[t].id # cmd[s].id /\ cmd[t].id \in Ids /\ docker[cmd[t].id].state \in {"created", "gone"}
  BY <1>0 DEF StressInv, OwnContainers, State, Ids
<1>2. ASSUME NEW how, End(s, how)
      PROVE  /\ Only(s) /\ cmd'[s] = Idle /\ outcomes' = outcomes \cup {how}
             /\ ~At(s, "start")' /\ ~IsStress(s)'
  <2>1. Only(s) /\ cmd'[s] = Idle /\ outcomes' = outcomes \cup {how}
    BY <1>0, <1>2 DEF End, Only
  <2> QED BY <2>1 DEF At, IsStress, Idle
<1>3. CASE docker' = [docker EXCEPT ![cmd[s].id].state = "up"] /\ End(s, "ok")
  <2>1. \A x \in Ids : x # cmd[s].id => docker'[x].state = docker[x].state
    BY <1>0, <1>1, <1>3
  <2>2. OwnContainers'
    BY <1>1, <1>2, <1>3, <2>1, OwnKept DEF StressInv
  <2>3. "ok" \in outcomes'
    BY <1>2, <1>3
  <2> QED BY <2>2, <2>3, WonKeepsStress
<1>4. CASE State(cmd[s].id) # "created" /\ End(s, "refused") /\ UNCHANGED docker
  <2>1. Only(s) /\ outcomes' = outcomes \cup {"refused"} /\ ~At(s, "start")' /\ ~IsStress(s)'
    BY <1>2, <1>4
  <2>2. OwnContainers'
    BY <1>1, <1>4, <2>1, OwnKept DEF StressInv
  <2>3. NoWinner' => NoWinner
    BY <2>1 DEF NoWinner
  <2>4. \A t \in Slots \ {s} : /\ cmd'[t] = cmd[t]
                               /\ At(t, "start") => At(t, "start")'
                               /\ Unhindered(t) => Unhindered(t)'
    BY <1>4, <2>1 DEF Only, At, IsStress, Unhindered, State
  <2>5. PastRemoval /\ StressBusy /\ ~Unhindered(s)
    BY <1>0, <1>4 DEF PastRemoval, At, IsStress, StressBusy, Unhindered
  <2>6. NamesAreOwned'
    <3>1. Named' = Named /\ cmd[s].id \notin Named
      BY <1>1, <1>4 DEF Named, Exists, State
    <3> QED BY <2>3, <2>4, <2>5, <3>1 DEF StressInv, NamesAreOwned
  <2>7. SomeoneIsUnhindered'
    <3> SUFFICES ASSUME NoWinner' PROVE \E t \in Slots : Unhindered(t)'
      BY DEF SomeoneIsUnhindered
    <3>1. PICK t \in Slots : Unhindered(t)
      BY <2>3, <2>5 DEF StressInv, SomeoneIsUnhindered
    <3> QED BY <2>4, <2>5, <3>1
  <2> QED BY <2>2, <2>6, <2>7 DEF StressInv
<1>5. CASE End(s, "fault") /\ UNCHANGED docker
  BY <1>5, FaultKeepsStress
<1> QED BY <1>3, <1>4, <1>5 DEF StartContainer

LEMMA ExecuteKeepsStress ==
    ASSUME RowInv, StressInv, NEW s \in Slots, executeStress(s) PROVE StressInv'
<1>1. /\ DOMAIN cmd = Slots /\ ~IsStress(s) /\ docker' = docker
      /\ outcomes' = IF StressBusy THEN outcomes ELSE {}
      /\ cmd' = [cmd EXCEPT ![s] = [type |-> "stress", step |-> "remove", id |-> NoId]]
  BY Kinds DEF executeStress, RowInv
<1>2. Only(s) /\ cmd'[s].type = "stress" /\ cmd'[s].step = "remove"
  BY <1>1 DEF Only
<1>3. ~At(s, "start")' /\ ~At(s, "start") /\ Unhindered(s)'
  BY <1>1, <1>2 DEF At, Unhindered, IsStress
<1>4. OwnContainers'
  BY <1>1, <1>2, <1>3, OwnKept DEF StressInv, OwnContainers, State
<1>5. ASSUME StressBusy PROVE NamesAreOwned'
  <2>1. PastRemoval' => PastRemoval
    BY <1>1, <1>2, <1>5 DEF PastRemoval, IsStress, Only
  <2>2. \A t \in Slots : At(t, "start") => At(t, "start")' /\ cmd'[t].id = cmd[t].id
    BY <1>2, <1>3 DEF Only, At, IsStress
  <2>3. Named' = Named /\ NoWinner' = NoWinner
    BY <1>1, <1>5 DEF Named, Exists, State, NoWinner
  <2> QED BY <2>1, <2>2, <2>3 DEF StressInv, NamesAreOwned
<1>6. ASSUME ~StressBusy PROVE NamesAreOwned'
  <2>1. ~PastRemoval'
    BY <1>1, <1>2, <1>6 DEF PastRemoval, IsStress, StressBusy, Only
  <2> QED BY <2>1 DEF NamesAreOwned
<1> QED BY <1>3, <1>4, <1>5, <1>6 DEF StressInv, SomeoneIsUnhindered

LEMMA StressStepKeeps ==
    ASSUME RowInv, FindingsInv, StressInv, StressStep PROVE StressInv'
<1>1. CASE AutoRemove
  <2>1. PICK id \in StressIds : /\ docker[id].state = "up"
                                /\ docker' = [docker EXCEPT ![id].state = "gone"]
    BY <1>1 DEF AutoRemove, State
  <2>2. UNCHANGED <<cmd, outcomes>>
    BY <1>1 DEF AutoRemove
  <2>3. /\ docker'[id].state = "gone"
        /\ \A x \in StressIds \ {id} : docker'[x].state = docker[x].state
    BY <2>1 DEF FindingsInv, Ids
  <2>4. Named' \subseteq Named
    BY <2>3 DEF Named, Exists, State
  <2>5. \A t \in Slots : At(t, "start") => cmd[t].id \in StressIds \ {id}
    BY <2>1 DEF StressInv, OwnContainers, State
  <2>6. \A t \in Slots : At(t, "start")' <=> At(t, "start")
    BY <2>2 DEF At, IsStress
  <2>7. OwnContainers'
    BY <2>2, <2>3, <2>5, <2>6 DEF StressInv, OwnContainers, State
  <2>8. NoWinner' = NoWinner /\ PastRemoval' = PastRemoval /\ StressBusy' = StressBusy
    BY <2>2 DEF NoWinner, PastRemoval, StressBusy, IsStress
  <2>9. NamesAreOwned'
    BY <2>2, <2>4, <2>6, <2>8 DEF StressInv, NamesAreOwned
  <2>10. \A t \in Slots : Unhindered(t) => Unhindered(t)'
    BY <2>2, <2>3, <2>5 DEF Unhindered, IsStress, State, At
  <2>11. SomeoneIsUnhindered'
    BY <2>2, <2>8, <2>10 DEF StressInv, SomeoneIsUnhindered
  <2> QED BY <2>7, <2>9, <2>11 DEF StressInv
<1>2. ASSUME NEW s \in Slots, RunStressTest(s) PROVE StressInv'
  BY <1>2, RemoveKeepsStress, PullKeepsStress, CreateKeepsStress, StartKeepsStress
     DEF RunStressTest
<1>3. ASSUME NEW s \in Slots, executeStress(s) PROVE StressInv'
  BY <1>3, ExecuteKeepsStress
<1> QED BY <1>1, <1>2, <1>3 DEF StressStep

LEMMA StressInvStep == ASSUME RowInv, FindingsInv, StressInv, [Next]_vvars PROVE StressInv'
<1>1. CASE UNCHANGED <<cmd, docker, outcomes>>
  BY <1>1, OthersKeepStress DEF IsStress
<1>2. CASE DockerChanges
  <2>1. PICK id \in Apps :
          \/ \E st \in States : docker' = [docker EXCEPT ![id].state = st]
          \/ \E c \in Confs : docker' = [docker EXCEPT ![id].conf = c]
    BY <1>2 DEF DockerChanges, Outside, States
  <2>2. \A x \in StressIds : x # id /\ x \in Ids
    BY DockerAssumption DEF Ids
  <2>3. \A x \in StressIds : docker'[x].state = docker[x].state
    BY <2>1, <2>2 DEF FindingsInv
  <2>4. UNCHANGED <<cmd, outcomes>>
    BY <1>2 DEF DockerChanges
  <2> QED BY <2>3, <2>4, OthersKeepStress DEF IsStress
<1>3. CASE StressStep
  BY <1>3, StressStepKeeps
<1>4. ASSUME NEW s \in Slots, Only(s), ~IsStress(s), cmd'[s].type # "stress",
             UNCHANGED <<docker, outcomes>>
      PROVE  StressInv'
  <2>1. \A t \in Slots : /\ IsStress(t)' <=> IsStress(t)
                         /\ IsStress(t) => cmd'[t] = cmd[t]
    BY <1>4 DEF Only, IsStress
  <2> QED BY <1>4, <2>1, OthersKeepStress
<1>5. CASE Lists
  <2>1. PICK s \in Slots : fetchContainers(s)
    BY <1>5 DEF Lists
  <2>2. PICK all \in BOOLEAN : ListContainers(s, all)
    BY <2>1 DEF fetchContainers
  <2>3. Only(s) /\ ListOk(cmd'[s]) /\ ~IsStress(s)
    BY <2>2, ListContainersRows, Kinds DEF ListContainers
  <2> QED BY <1>4, <2>1, <2>3 DEF ListOk, fetchContainers
<1>6. CASE Handles
  <2>1. PICK s \in Slots : handleContainerListMsg(s)
    BY <1>6 DEF Handles
  <2>2. cmd' = [cmd EXCEPT ![s] = Idle] /\ DOMAIN cmd = Slots /\ IsList(s)
    BY <2>1 DEF handleContainerListMsg, Ready, RowInv
  <2>3. Only(s) /\ cmd'[s].type = "idle" /\ ~IsStress(s)
    BY <2>2, Kinds DEF Only, Idle
  <2> QED BY <1>4, <2>1, <2>3 DEF handleContainerListMsg
<1>7. CASE Enriches
  <2>1. PICK s \in Slots : IsList(s) /\ \E i \in DOMAIN cmd[s].rows : EnrichStep(s, i)
    BY <1>7 DEF Enriches
  <2>2. PICK i \in DOMAIN cmd[s].rows : Enrich(s, i)
    BY <2>1 DEF EnrichStep
  <2>3. Only(s) /\ ListOk(cmd'[s]) /\ ~IsStress(s)
    BY <2>1, <2>2, EnrichRows, Kinds
  <2>4. UNCHANGED <<docker, outcomes>>
    BY <2>1 DEF EnrichStep
  <2> QED BY <1>4, <2>3, <2>4 DEF ListOk
<1> QED BY <1>1, <1>2, <1>3, <1>5, <1>6, <1>7 DEF Next, vvars, Audits, AuditStep,
           processSecurityAlerts

-----------------------------------------------------------------------------
THEOREM ViewsInvariant == Spec => []Inv
<1>1. Init => FindingsInv
  <2> SUFFICES ASSUME Init PROVE FindingsInv
    OBVIOUS
  <2>1. /\ docker = [id \in Ids |-> [state |-> "unborn", conf |-> FirstConf]]
        /\ since = [id \in Ids |-> {docker[id].conf}]
        /\ cache = <<>> /\ audit = NoAudit /\ securityAlerts = {}
    BY DEF Init, DockerInit, AuditInit
  <2>2. /\ DOMAIN audit = {"on", "list", "todo", "new"} /\ audit.on = FALSE
        /\ audit.new = <<>>
    BY <2>1 DEF NoAudit
  <2>3. DOMAIN audit.new = {} /\ DOMAIN cache = {}
    BY <2>1, <2>2
  <2>4. OfListing(cache) /\ OfListing(audit.new)
    BY <2>3 DEF OfListing
  <2>5. FindingsAreOfThisListing
    BY <2>1 DEF FindingsAreOfThisListing, AlertsOf
  <2>6. docker \in [Ids -> [state: States, conf: Confs]]
    BY <2>1, DockerAssumption DEF States
  <2>7. \A id \in Ids : docker[id].conf \in since[id]
    BY <2>1
  <2> QED BY <2>2, <2>4, <2>5, <2>6, <2>7 DEF FindingsInv
<1>2. Init => StressInv
  <2> SUFFICES ASSUME Init PROVE StressInv
    OBVIOUS
  <2>1. outcomes = {} /\ \A s \in Slots : ~IsStress(s)
    BY DEF Init, StressInit, DetailsInit, IsStress, Idle
  <2> QED BY <2>1 DEF StressInv, OwnContainers, NamesAreOwned, PastRemoval,
             SomeoneIsUnhindered, StressBusy, At
<1>3. RowInv /\ FindingsInv /\ StressInv /\ [Next]_vvars => FindingsInv' /\ StressInv'
  BY FindingsStep, StressInvStep
<1> QED BY <1>1, <1>2, <1>3, RowInvariant, PTL DEF Spec, Inv

(* Findings are of the containers in the list they are shown with.          *)
THEOREM FindingsOfThisListing == Spec => []FindingsAreOfThisListing
<1>1. Inv => FindingsAreOfThisListing
  BY DEF Inv, FindingsInv
<1> QED BY <1>1, ViewsInvariant, PTL

(* Stress tests do not all fail because of each other.                      *)
THEOREM StressRaceWon == Spec => []StressRaceHasAWinner
<1>1. Inv => StressRaceHasAWinner
  BY DEF Inv, StressInv, SomeoneIsUnhindered, NoWinner, StressBusy, Unhindered,
     StressRaceHasAWinner
<1> QED BY <1>1, ViewsInvariant, PTL

=============================================================================
