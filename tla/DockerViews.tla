---------------------------- MODULE DockerViews ----------------------------
(***************************************************************************)
(* What the dashboard shows of Docker: overlapping list commands and       *)
(* stress tests, the handling of a list by the message loop, which waits   *)
(* in it for the auditor's inspections, and a daemon that changes all the  *)
(* while.  Only the message loop calls Audit, so there is one call at a    *)
(* time; a cluster's remote containers never reach a dashboard, since a    *)
(* leader runs without one.                                                *)
(***************************************************************************)
EXTENDS StressTest, Auditor

VARIABLES handling,        \* rows of the list the message loop handles
          shown,           \* m.containers
          securityAlerts,  \* m.securityAlerts, pairs <<id, finding>>
          since            \* history: since[id], configurations id has had
                           \* since a list without it was last handled

views == <<handling, shown, securityAlerts, since>>
vvars == <<docker, changes, metadataCache, cmd, outcomes, cache, audit, views>>

IdsOf(rows) == {rows[i].id : i \in DOMAIN rows}

Init ==
    /\ DockerInit /\ DetailsInit /\ AuditInit /\ StressInit
    /\ handling = <<>>
    /\ shown = <<>>
    /\ securityAlerts = {}
    /\ since = [id \in Ids |-> {docker[id].conf}]

-----------------------------------------------------------------------------
(* The daemon changes, the auditor and the dashboard do not.               *)
DockerChanges ==
    /\ Outside /\ UNCHANGED <<cmd, outcomes>>
    /\ since' = [id \in Ids |-> since[id] \cup {docker'[id].conf}]
    /\ UNCHANGED <<metadataCache, cache, audit, handling, shown, securityAlerts>>

StressStep ==
    /\ \/ AutoRemove /\ UNCHANGED changes
       \/ \E s \in Slots : executeStress(s) \/ (RunStressTest(s) /\ UNCHANGED changes)
    /\ UNCHANGED <<metadataCache, cache, audit, views>>

(* fetchContainers; ContainerList may fail, which ends the command at once *)
(* with nothing but an entry in the event panel.                           *)
fetchContainers(s) ==
    /\ \E all \in BOOLEAN : ListContainers(s, all)
    /\ UNCHANGED <<docker, changes, outcomes, cache, audit, views>>

EnrichStep(s, i) ==
    /\ Enrich(s, i)
    /\ UNCHANGED <<docker, changes, outcomes, cache, audit, views>>

\* Fault: an empty list is taken for one that failed, and the old one stays.
handleContainerListMsgUnlessEmpty(s) ==
    /\ Ready(s)
    /\ cmd' = [cmd EXCEPT ![s] = Idle]
    /\ IF cmd[s].rows = <<>> THEN UNCHANGED <<cache, audit, handling>>
       ELSE AuditBegin(IdsOf(cmd[s].rows)) /\ handling' = cmd[s].rows
    /\ UNCHANGED <<docker, changes, metadataCache, outcomes, shown, securityAlerts, since>>

(* handleContainerListMsg up to the call of Audit.                         *)
handleContainerListMsg(s) ==
    /\ Ready(s)
    /\ AuditBegin(IdsOf(cmd[s].rows))
    /\ handling' = cmd[s].rows
    /\ cmd' = [cmd EXCEPT ![s] = Idle]
    /\ UNCHANGED <<docker, changes, metadataCache, outcomes, shown, securityAlerts, since>>

AuditStep(id) ==
    /\ AuditInspect(id) \/ AuditInspectFails(id)
    /\ UNCHANGED <<docker, changes, metadataCache, cmd, outcomes, views>>

(* Audit returns, and Update with the list and its findings.               *)
processSecurityAlerts ==
    /\ AuditReturns
    /\ securityAlerts' = AuditResult
    /\ shown' = handling
    /\ handling' = <<>>
    /\ since' = [id \in Ids |-> IF id \in audit.list THEN since[id] ELSE {docker[id].conf}]
    /\ UNCHANGED <<docker, changes, metadataCache, cmd, outcomes>>

Lists == \E s \in Slots : fetchContainers(s)
Handles == \E s \in Slots : handleContainerListMsg(s)
Enriches == \E s \in Slots : IsList(s) /\ \E i \in DOMAIN cmd[s].rows : EnrichStep(s, i)
Audits == \E id \in Ids : AuditStep(id)

Next == DockerChanges \/ StressStep \/ Lists \/ Handles \/ Enriches \/ Audits \/ processSecurityAlerts

(* A container is inspected for a list, or for the audit, and it works.    *)
Detailed(id) ==
    /\ \E s \in Slots : IsList(s) /\ \E i \in DOMAIN cmd[s].rows : cmd[s].ids[i] = id /\ Inspect(s, i)
    /\ UNCHANGED <<docker, changes, outcomes, cache, audit, views>>
Audited(id) == AuditInspect(id) /\ UNCHANGED <<docker, changes, metadataCache, cmd, outcomes, views>>

(* Goroutines and the message loop run, and the daemon does not fail every *)
(* inspection of a container.  Nothing is assumed of lists: the tick       *)
(* fetches them only while no logs, no map and no confirmation is open,    *)
(* and they may fail.                                                      *)
Fairness ==
    /\ SF_vvars(Handles) /\ WF_vvars(Enriches) /\ WF_vvars(Audits)
    /\ WF_vvars(processSecurityAlerts)
    /\ \A id \in Apps : SF_vvars(Detailed(id)) /\ SF_vvars(Audited(id))

Spec == Init /\ [][Next]_vvars
FairSpec == Spec /\ Fairness

-----------------------------------------------------------------------------
\* A row shows the details of its own container, whatever is filtered out of
\* Docker's list and whichever list filled the shared cache.
RowsAreOfTheirContainers ==
    \A i \in DOMAIN shown : shown[i].static \in {shown[i].id, NoDetails}

\* docs/TUI.md:69 explains the mark of a container whose health check passes: a
\* row that shows its container's details shows its health.
ListedHealthIsShown ==
    \A i \in DOMAIN shown : shown[i].static # NoDetails => shown[i].health # NoDetails

AlertsOf(id) == {p[2] : p \in {q \in securityAlerts : q[1] = id}}

\* The findings shown are those of the listed containers, and each set is what
\* the rules say of a configuration its container has had since it was last
\* absent from a list: findings do not survive a container's absence.
FindingsAreOfThisListing ==
    \A id \in Ids :
        AlertsOf(id) # {} => /\ id \in IdsOf(shown)
                             /\ \E c \in since[id] : AlertsOf(id) = Evaluate(c)

\* Overlapping stress tests cannot all fail because of each other.
StressRaceHasAWinner ==
    ~StressBusy /\ outcomes # {} => outcomes \cap {"ok", "fault"} # {}

Stays(id) == State(id) = "up" /\ isMonitored(id)

\* Docker gives the dashboard lists again and again.  It does while the table
\* is on the screen (handleTickMsg re-arms the tick and fetches a list), unless
\* it fails for ever; it need not while logs, the map or a confirmation is open.
ListsKeepComing == []<><<Lists>>_vvars

\* As long as lists keep coming, a container that stays is shown with its
\* details in the end and from then on, however many inspections failed before.
DetailsAppear ==
    ListsKeepComing =>
        \A id \in Apps :
            <>[]Stays(id) => <>[](\E i \in DOMAIN shown : shown[i].id = id /\ shown[i].static # NoDetails)

\* And its findings are, too.
FindingsAppear ==
    ListsKeepComing =>
        \A id \in Apps :
            <>[]Stays(id) => <>[](\E c \in Confs : AlertsOf(id) = Evaluate(c))

\* As long as lists keep coming, a container that is gone leaves the table and
\* the findings in the end and for good, although lists overlap and an older
\* one may be handled after a newer one.
GoneContainersDisappear ==
    ListsKeepComing =>
        \A id \in Apps :
            <>[](~Exists(id)) => <>[](id \notin IdsOf(shown) /\ AlertsOf(id) = {})

=============================================================================
