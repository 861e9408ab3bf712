---------------------------- MODULE AlertEngine ----------------------------
(***************************************************************************)
(* The alert engine of internal/alerts/alerts.go: the rules are evaluated  *)
(* against each sample of the containers' metrics, a condition that is     *)
(* true starts a timer, and an alert fires when the timer has run for the  *)
(* rule's duration.                                                        *)
(*                                                                         *)
(* A tracked condition is a pair <<container, index of the rule>>.  The    *)
(* code keys its maps by "containerID:ruleName", which is the same thing   *)
(* as long as rule names are distinct.  An absent map entry is None.  Time *)
(* is a discrete clock that advances between evaluations.  Of an Alert the *)
(* model keeps FiredAt and ActiveSince: rule, container, metric, severity  *)
(* and threshold are those of its key, and the value is only displayed.    *)
(***************************************************************************)
EXTENDS Integers, Sequences, FiniteSets

CONSTANTS Containers,   \* containers that may appear in a sample
          rules,        \* the configured rules, in the order of config.yaml
          Metrics,      \* the metrics getMetricValue knows
          Levels,       \* the values a metric takes
          HistoryCap,   \* length of the alert history (50 in the code)
          MaxTime,      \* bound on the clock
          None          \* an absent map entry

Rule == [name: STRING, metric: STRING, operator: STRING, threshold: Int,
         duration: Nat, severity: STRING]

ASSUME RulesAssumption == rules \in Seq(Rule)
\* alertKey identifies a rule by its name; nothing in the code checks this.
ASSUME NamesAssumption ==
    \A i, j \in DOMAIN rules : rules[i].name = rules[j].name => i = j
ASSUME SampleAssumption == Metrics \subseteq STRING /\ Levels \subseteq Int
ASSUME ContainersAssumption == IsFiniteSet(Containers)
ASSUME BoundsAssumption == HistoryCap \in Nat \ {0} /\ MaxTime \in Nat
ASSUME NoneAssumption == None \notin Nat /\ None \notin [firedAt: Nat, activeSince: Nat]

VARIABLES conditionStart,   \* since when each condition has been active
          activeAlerts,     \* the alerts that have fired and not resolved
          firedAlerts,      \* history of fired alerts, newest first
          newAlerts,        \* the conditions whose alert the last Evaluate returned
          stats,            \* the sample the last Evaluate was given
          now,              \* time.Now()
          observedSince     \* history: first of the latest unbroken run of
                            \* evaluations that all saw the condition true

vars == <<conditionStart, activeAlerts, firedAlerts, newAlerts, stats, now, observedSince>>

Key == Containers \X DOMAIN rules
Duration == [k \in Key |-> rules[k[2]].duration]
Alert == [firedAt: Nat, activeSince: Nat]
HistoryEntry == [key: Key, firedAt: Nat, activeSince: Nat]
Sample == [Metrics -> Levels]
Stats == UNION {[C -> Sample] : C \in SUBSET Containers}

-----------------------------------------------------------------------------
(* The value of a metric; a metric the engine does not know reads as 0.    *)
getMetricValue(s, metric) == IF metric \in DOMAIN s THEN s[metric] ELSE 0

(* An operator the engine does not know is never satisfied.                *)
evaluateCondition(value, operator, threshold) ==
    \/ operator = ">"  /\ value > threshold
    \/ operator = ">=" /\ value >= threshold
    \/ operator = "<"  /\ value < threshold
    \/ operator = "<=" /\ value <= threshold
    \/ operator = "==" /\ value = threshold

ConditionMet(st, k) ==
    /\ k[1] \in DOMAIN st
    /\ LET rule == rules[k[2]]
       IN evaluateCondition(getMetricValue(st[k[1]], rule.metric),
                            rule.operator, rule.threshold)

\* Fault: containers that are gone are not looked for.
clearInactiveAlertsSkipped(st) == {}

(* clearInactiveAlerts ranges over activeAlerts: a condition of a vanished *)
(* container is dropped only if its alert has fired.                       *)
clearInactiveAlerts(st) ==
    {k \in Key : activeAlerts[k] # None /\ k[1] \notin DOMAIN st}

\* Fault: the start time is recorded again at every evaluation.
StartedAgain(st) == {k \in Key : ConditionMet(st, k)}
\* Fault: an alert that is already active fires again.
FiredAgain(st) ==
    {k \in Key : /\ ConditionMet(st, k)
                 /\ conditionStart[k] # None
                 /\ now - conditionStart[k] >= Duration[k]}

(* The outcomes of evaluateRule on the conditions of the sample.           *)
Cleared(st) == {k \in Key : k[1] \in DOMAIN st /\ ~ConditionMet(st, k)}
Started(st) == {k \in Key : ConditionMet(st, k) /\ conditionStart[k] = None}
Fired(st) ==
    {k \in Key : /\ ConditionMet(st, k)
                 /\ conditionStart[k] # None
                 /\ now - conditionStart[k] >= Duration[k]
                 /\ activeAlerts[k] = None}

(* The orders in which the alerts of one evaluation enter the history,     *)
(* newest first: the containers in any order (map iteration), the rules of *)
(* a container one after the other and the last of them in front.          *)
FiringOrders(ks) ==
    {o \in [1..Cardinality(ks) -> ks] :
        /\ \A k \in ks : \E i \in DOMAIN o : o[i] = k
        /\ \A i, j \in DOMAIN o : i < j /\ o[i][1] = o[j][1] =>
              /\ o[i][2] > o[j][2]
              /\ \A m \in i..j : o[m][1] = o[i][1]}

\* Fault: new alerts go to the end of the history, where the cut drops them.
PushHistoryAtEnd(order) ==
    LET entry(k) == [key |-> k, firedAt |-> now, activeSince |-> conditionStart[k]]
        all == firedAlerts \o [i \in 1..Len(order) |-> entry(order[i])]
    IN SubSeq(all, 1, IF Len(all) > HistoryCap THEN HistoryCap ELSE Len(all))

(* firedAlerts = append([]Alert{alert}, firedAlerts...)[:50], per alert.   *)
PushHistory(order) ==
    LET entry(k) == [key |-> k, firedAt |-> now, activeSince |-> conditionStart[k]]
        all == [i \in 1..Len(order) |-> entry(order[i])] \o firedAlerts
    IN SubSeq(all, 1, IF Len(all) > HistoryCap THEN HistoryCap ELSE Len(all))

-----------------------------------------------------------------------------
(* NewEngine *)
Init ==
    /\ conditionStart = [k \in Key |-> None]
    /\ activeAlerts = [k \in Key |-> None]
    /\ firedAlerts = <<>>
    /\ newAlerts = {}
    /\ stats = <<>>
    /\ now = 0
    /\ observedSince = [k \in Key |-> None]

(* Evaluate runs under the engine's mutex: one step.                       *)
Evaluate(st) ==
    LET gone  == clearInactiveAlerts(st) \cup Cleared(st)
        fired == Fired(st)
    IN /\ conditionStart' = [k \in Key |->
                                IF k \in gone THEN None
                                ELSE IF k \in Started(st) THEN now
                                ELSE conditionStart[k]]
       /\ activeAlerts' = [k \in Key |->
                              IF k \in gone THEN None
                              ELSE IF k \in fired
                              THEN [firedAt |-> now, activeSince |-> conditionStart[k]]
                              ELSE activeAlerts[k]]
       /\ \E order \in FiringOrders(fired) : firedAlerts' = PushHistory(order)
       /\ newAlerts' = fired
       /\ stats' = st
       /\ observedSince' = [k \in Key |->
                               IF ~ConditionMet(st, k) THEN None
                               ELSE IF observedSince[k] = None THEN now
                               ELSE observedSince[k]]
       /\ UNCHANGED now

(* Time passes between two evaluations.                                    *)
Tick ==
    /\ now < MaxTime
    /\ now' = now + 1
    /\ UNCHANGED <<conditionStart, activeAlerts, firedAlerts, newAlerts, stats, observedSince>>

Next == Tick \/ \E st \in Stats : Evaluate(st)

Spec == Init /\ [][Next]_vars

-----------------------------------------------------------------------------
(* GetPendingCount *)
Pending == {k \in Key : conditionStart[k] # None /\ activeAlerts[k] = None}
GetPendingCount == Cardinality(Pending)

-----------------------------------------------------------------------------
\* Types of the engine's maps, its history and its last sample and result.
TypeOK ==
    /\ conditionStart \in [Key -> Nat \cup {None}]
    /\ activeAlerts \in [Key -> Alert \cup {None}]
    /\ firedAlerts \in Seq(HistoryEntry) /\ Len(firedAlerts) <= HistoryCap
    /\ newAlerts \in SUBSET Key
    /\ stats \in Stats
    /\ now \in 0..MaxTime
    /\ observedSince \in [Key -> Nat \cup {None}]

\* What the dashboard lists as active is what the last sample shows: every
\* active alert is of a container that is in that sample and whose condition
\* is true in it, whatever vanished or recovered in between.
ActiveAlertsAreCurrent ==
    \A k \in Key : activeAlerts[k] # None => ConditionMet(stats, k)

\* A timer runs only for a condition that the last sample shows true, or for
\* a container that the last sample does not have: a condition observed false
\* never keeps its timer.
TimersAreCurrent ==
    \A k \in Key : conditionStart[k] # None =>
        ConditionMet(stats, k) \/ k[1] \notin DOMAIN stats

\* The timer of an active alert is the one it fired on, and it had run for
\* the rule's duration when the alert fired: no later step restarts the timer
\* under an active alert or fires one early.
AlertsFireAfterDuration ==
    \A k \in Key : activeAlerts[k] # None =>
        /\ conditionStart[k] = activeAlerts[k].activeSince
        /\ activeAlerts[k].activeSince + Duration[k] <= activeAlerts[k].firedAt
        /\ activeAlerts[k].firedAt <= now

\* The history is within its limit and newest first, and an active alert is
\* missing from it only because a full history has nothing older: the cut
\* never drops a newer alert for an older one, however many fire in one call.
HistoryKeepsTheLatest ==
    /\ Len(firedAlerts) <= HistoryCap
    /\ \A i, j \in DOMAIN firedAlerts :
          i < j => firedAlerts[i].firedAt >= firedAlerts[j].firedAt
    /\ \A k \in Key : activeAlerts[k] # None =>
          \/ \E i \in DOMAIN firedAlerts :
                /\ firedAlerts[i].key = k
                /\ firedAlerts[i].firedAt = activeAlerts[k].firedAt
          \/ /\ Len(firedAlerts) = HistoryCap
             /\ \A i \in DOMAIN firedAlerts :
                   firedAlerts[i].firedAt >= activeAlerts[k].firedAt

\* alerts.go:11, "Alerts only fire after the condition persists for >=
\* duration": when an alert fires, every evaluation of the last Duration saw
\* the condition true.
AlertsFireOnlyOnPersistence ==
    \A k \in newAlerts :
        observedSince[k] # None /\ observedSince[k] + Duration[k] <= now

-----------------------------------------------------------------------------
(* Every condition goes through the lifecycle of AlertLifecycle.           *)
Phase(k) == CASE activeAlerts[k] # None -> "firing"
              [] activeAlerts[k] = None /\ conditionStart[k] # None -> "pending"
              [] OTHER -> "inactive"

Lifecycle == INSTANCE AlertLifecycle
                WITH phase <- [k \in Key |-> Phase(k)],
                     since <- conditionStart,
                     notified <- newAlerts

\* Each condition moves only Pending -> Firing -> Resolved, is reported once
\* per passage and only when due: the engine implements AlertLifecycle.
LifecycleSpec == Lifecycle!Spec

=============================================================================
