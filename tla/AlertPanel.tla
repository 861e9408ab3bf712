----------------------------- MODULE AlertPanel -----------------------------
(***************************************************************************)
(* The dashboard's alert panel (internal/tui/tui.go) on top of the alert   *)
(* engine: handleStatsMsg evaluates a sample and takes the deduplicated    *)
(* alerts, processSecurityAlerts takes the auditor's findings after a      *)
(* container list, and both recompute the mark shown beside a container.   *)
(* Go iterates its maps in any order, and the slices built from them have  *)
(* that order: every loop is a fold over an arbitrary sequence of the set. *)
(***************************************************************************)
EXTENDS AlertEngine, SequencesExt

CONSTANT SecuritySeverities   \* severities of the auditor's findings

\* The auditor knows a few severities, and a missing mark is none of the marks.
ASSUME PanelAssumption ==
    /\ IsFiniteSet(SecuritySeverities)
    /\ None \notin {"critical", "warning", "secCritical", "secWarning"}

VARIABLES shownAlerts,      \* m.activeAlerts: conditions on the panel
          securityAlerts,   \* m.securityAlerts: <<container, severity>>
          alertMarks        \* m.alertMarks: the mark of each container, or None

panel == <<shownAlerts, securityAlerts, alertMarks>>

Severity(k) == rules[k[2]].severity

severityWeight(severity) ==
    CASE severity = "critical" -> 3
      [] severity = "warning" -> 2
      [] severity = "info" -> 1
      [] OTHER -> 0

(* The key "ContainerID:Metric" that GetActiveAlerts groups by.            *)
Group(k) == <<k[1], rules[k[2]].metric>>

\* Fault: of two alerts of a group the one met last is kept.
KeepBetterLast(best, k) ==
    [g \in DOMAIN best \cup {Group(k)} |-> IF g = Group(k) THEN k ELSE best[g]]

(* One step of the loop: the better of the group's alert and this one.     *)
KeepBetter(best, k) ==
    LET g == Group(k)
        better == g \notin DOMAIN best
                  \/ severityWeight(Severity(k)) > severityWeight(Severity(best[g]))
    IN [h \in DOMAIN best \cup {g} |-> IF h = g /\ better THEN k ELSE best[h]]

(* The slices GetActiveAlerts may return for the active conditions ks.     *)
GetActiveAlerts(ks) ==
    {Range(FoldLeft(KeepBetter, <<>>, order)) : order \in SetToSeqs(ks)}

(* updateAlertMarks: the loop over the auditor's findings, then the loop   *)
(* over the alerts.  The four marks are named instead of drawn.            *)
MarkFinding(marks, f) ==
    [marks EXCEPT ![f[1]] = IF f[2] = "critical" THEN "secCritical"
                            ELSE IF @ # "secCritical" THEN "secWarning"
                            ELSE @]
MarkAlert(marks, k) ==
    [marks EXCEPT ![k[1]] = IF Severity(k) = "critical" THEN "critical"
                            ELSE IF @ \notin {"critical", "secCritical"} THEN "warning"
                            ELSE @]
updateAlertMarks(findings, alerts) ==
    LET base == [c \in Containers |-> None]
    IN {FoldLeft(MarkAlert, FoldLeft(MarkFinding, base, fs), as) :
            fs \in SetToSeqs(findings), as \in SetToSeqs(alerts)}

-----------------------------------------------------------------------------
PanelInit ==
    /\ Init
    /\ shownAlerts = {}
    /\ securityAlerts = {}
    /\ alertMarks = [c \in Containers |-> None]

Active == {k \in Key : activeAlerts[k] # None}

\* Fault: the marks are left to the next container list.
handleStatsMsgNoMarks(st) ==
    /\ Evaluate(st)
    /\ shownAlerts' \in GetActiveAlerts(Active')
    /\ UNCHANGED <<securityAlerts, alertMarks>>

handleStatsMsg(st) ==
    /\ Evaluate(st)
    /\ shownAlerts' \in GetActiveAlerts(Active')
    /\ alertMarks' \in updateAlertMarks(securityAlerts, shownAlerts')
    /\ UNCHANGED securityAlerts

(* The auditor's result depends on the containers and on which inspections *)
(* fail: any set of findings.                                              *)
processSecurityAlerts(findings) ==
    /\ securityAlerts' = findings
    /\ alertMarks' \in updateAlertMarks(findings, shownAlerts)
    /\ UNCHANGED <<vars, shownAlerts>>

PanelNext ==
    \/ Tick /\ UNCHANGED panel
    \/ \E st \in Stats : handleStatsMsg(st)
    \/ \E findings \in SUBSET (Containers \X SecuritySeverities) :
          processSecurityAlerts(findings)

PanelSpec == PanelInit /\ [][PanelNext]_<<vars, panel>>

-----------------------------------------------------------------------------
\* The panel shows exactly one alert for each container and metric that has
\* an active one, and no active alert of that group is more severe, whatever
\* order the maps were iterated in.
ShownAlertsAreTheWorst ==
    /\ shownAlerts \subseteq Active
    /\ \A k \in Active :
          /\ Cardinality({s \in shownAlerts : Group(s) = Group(k)}) = 1
          /\ \A s \in shownAlerts : Group(s) = Group(k) =>
                severityWeight(Severity(s)) >= severityWeight(Severity(k))

WorstMark(c) ==
    LET alerts == {Severity(k) : k \in {a \in Active : a[1] = c}}
        findings == {f[2] : f \in {s \in securityAlerts : s[1] = c}}
    IN CASE "critical" \in alerts -> "critical"
         [] "critical" \notin alerts /\ "critical" \in findings -> "secCritical"
         [] "critical" \notin alerts \cup findings /\ alerts # {} -> "warning"
         [] alerts = {} /\ findings # {} /\ "critical" \notin findings -> "secWarning"
         [] OTHER -> None

\* The mark beside a container never understates it: after either handler it
\* is the mark of the worst of all its active alerts (the ones the panel does
\* not list included) and findings, in every iteration order.
MarksShowTheWorst == \A c \in Containers : alertMarks[c] = WorstMark(c)

=============================================================================
