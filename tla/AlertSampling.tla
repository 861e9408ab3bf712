--------------------------- MODULE AlertSampling ---------------------------
(***************************************************************************)
(* How the alert panel gets its samples (internal/tui/tui.go): fetchStats  *)
(* commands are started by ticks, keys, Docker events and results, and     *)
(* each ends in a sample or in an error.  The tick starts one only while   *)
(* no logs, no map and no confirmation is open, and the user may leave     *)
(* these open for ever: nothing guarantees that samples come.              *)
(***************************************************************************)
EXTENDS AlertPanel

CONSTANT MaxFetches   \* bound: fetchStats commands under way

ASSUME FetchesAssumption == MaxFetches \in Nat \ {0}

VARIABLE fetches      \* fetchStats commands under way

svars == <<vars, panel, fetches>>

(* Init of the dashboard starts the first command.                         *)
SamplingInit == PanelInit /\ fetches = 1

fetchStats ==
    /\ fetches < MaxFetches
    /\ fetches' = fetches + 1
    /\ UNCHANGED <<vars, panel>>

(* The list or the statistics fail: a dockerErrorMsg.                      *)
FetchFails ==
    /\ fetches > 0
    /\ fetches' = fetches - 1
    /\ UNCHANGED <<vars, panel>>

SampleArrives ==
    /\ fetches > 0
    /\ fetches' = fetches - 1
    /\ \E st \in Stats : handleStatsMsg(st)

Clock == Tick /\ UNCHANGED <<panel, fetches>>

SamplingNext ==
    \/ Clock \/ fetchStats \/ FetchFails \/ SampleArrives
    \/ /\ \E findings \in SUBSET (Containers \X SecuritySeverities) :
             processSecurityAlerts(findings)
       /\ UNCHANGED fetches

(* Time passes; nothing is assumed of Docker and of the user.              *)
SamplingSpec == SamplingInit /\ [][SamplingNext]_svars /\ WF_svars(Clock)

-----------------------------------------------------------------------------
\* As long as samples keep coming, however late and with however many failures
\* in between (they do while the table is on the screen, handleTickMsg, unless
\* Docker fails for ever), a condition that from some point on every sample
\* shows true fires and stays active, if its duration ends within the modelled
\* time.
PersistentConditionsFire ==
    []<><<SampleArrives>>_svars =>
        \A k \in Key :
            <>[](observedSince[k] # None /\ observedSince[k] + Duration[k] <= MaxTime)
                => <>[](activeAlerts[k] # None)

=============================================================================
