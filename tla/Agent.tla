------------------------------- MODULE Agent -------------------------------
(***************************************************************************)
(* An agent from its start to its end (cmd/agent/main.go): main loads the  *)
(* configuration, connects to Docker, sets up the receiver of a leader,    *)
(* starts the exporter and runs until a signal or the user ends it.        *)
(*                                                                         *)
(* This module composes the configuration with the exporter, which gets    *)
(* its host id, its receiver and whether it runs at all from it.  What the *)
(* modes run besides is in ClusterPush (worker and leader) and in          *)
(* PruneService, Dashboard and DockerViews (interactive).  Of the host id  *)
(* the exporter tells apart only whether it is empty.                      *)
(***************************************************************************)
EXTENDS ConfigLoading, Exporter

VARIABLE agent

avars == <<cvars, expo, agent>>

Starting == [state |-> "starting", receiver |-> FALSE, exporting |-> FALSE, hostID |-> ""]

Init ==
    /\ ConfigInit
    /\ ExporterInit
    /\ agent = Starting

LoadConfig ==
    /\ loadConfig
    /\ UNCHANGED <<expo, agent>>

(* initDockerClient failed: main returns.                                  *)
NoDocker ==
    /\ agent.state = "starting" /\ Loaded
    /\ agent' = [Starting EXCEPT !.state = "stopped"]
    /\ Forgotten
    /\ UNCHANGED expo

(* setupClusterReceiver and startPrometheusExporter: the push endpoint is  *)
(* served by the exporter, so a leader that does not export has none.      *)
Running ==
    [state |-> "running", receiver |-> cfg["mode"] = "leader",
     exporting |-> cfg["promEnabled"] = "on", hostID |-> IF cfg["hostID"] = "" THEN "" ELSE "own"]

Start ==
    /\ agent.state = "starting" /\ Loaded
    /\ agent' = Running
    /\ there' \in SUBSET Locals
    /\ Forgotten
    /\ UNCHANGED <<age, vec, coll, scrape>>

(* The context ends or the mode's function returns, and the process exits. *)
Exit ==
    /\ agent.state = "running"
    /\ agent' = [Starting EXCEPT !.state = "stopped"]
    /\ there' = {} /\ age' = [h \in Hosts |-> Staleness + 1]
    /\ vec' = [g \in Vecs |-> {}]
    /\ coll' = NoCollection /\ scrape' = NoScrape
    /\ UNCHANGED cvars

Exporting == agent.state = "running" /\ agent.exporting

Collect ==
    \/ CollectList
    \/ \E failing \in SUBSET Locals : CollectStats(failing)
    \/ Reset
    \/ Merge(agent.hostID, agent.receiver)
    \/ \E x \in coll.todo : Set(x)
    \/ SaveStats

Scrape ==
    \/ ScrapeBegin
    \/ \E g \in Vecs : ScrapeRead(g)
    \/ ScrapeEnd

Around ==
    \/ ContainersChange
    \/ agent.receiver /\ \E h \in Hosts : Report(h)
    \/ TimePasses

ExporterStep ==
    /\ Exporting
    /\ Collect \/ Scrape \/ Around
    /\ UNCHANGED <<cvars, agent>>

Next == LoadConfig \/ NoDocker \/ Start \/ Exit \/ ExporterStep

(* The ticker goes on, and Docker does not fail for ever.                  *)
Fairness == WF_avars(Exporting /\ Collect /\ UNCHANGED <<cvars, agent>>)

Spec == Init /\ [][Next]_avars
FairSpec == Spec /\ Fairness

-----------------------------------------------------------------------------
\* A container that is gone for good, and a host that is silent for good,
\* disappear from every vector and do not come back: no order of collections,
\* failures and late reports leaves a series behind.
GoneSeriesDisappear ==
    /\ \A c \in Locals :
          <>[](c \notin there) => <>[](\A g \in Vecs : \A x \in vec[g] : x[2] # c)
    /\ \A h \in Hosts :
          <>[](age[h] > Staleness) => <>[](\A g \in Vecs : \A x \in vec[g] : x[1] # h)

\* docs/OBSERVABILITY.md:150: a leader's exporter shows the hosts that keep
\* reporting, in every vector and again and again, although local lists and
\* statistics may fail now and then.
ReportingHostsAreShown ==
    \A h \in Hosts :
        <>[](Exporting /\ age[h] <= Staleness) =>
            []<>(\A g \in Vecs : \E x \in vec[g] : x[1] = h)

=============================================================================
