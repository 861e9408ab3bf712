---------------------------- MODULE AlertProofs ----------------------------
(***************************************************************************)
(* Proofs about AlertEngine and AlertPanel, for any containers, rules,     *)
(* sample values, findings, history length and time bound.                 *)
(***************************************************************************)
EXTENDS AlertPanel, FiniteSetTheorems, SequenceTheorems, TLAPS

(* A key's duration is a natural number. *)
LEMMA DurationType == Duration \in [Key -> Nat]
<1>1. \A k \in Key : k[2] \in DOMAIN rules
  BY DEF Key
<1>2. \A i \in DOMAIN rules : rules[i] \in Rule
  BY RulesAssumption
<1>3. \A i \in DOMAIN rules : rules[i].duration \in Nat
  BY <1>2 DEF Rule
<1> QED
  BY <1>1, <1>3 DEF Duration

(* There are finitely many conditions, so a set of them has a size. *)
LEMMA KeySets == \A ks \in SUBSET Key : IsFiniteSet(ks) /\ Cardinality(ks) \in Nat
<1>1. IsFiniteSet(DOMAIN rules)
  <2>1. DOMAIN rules = 1..Len(rules) /\ Len(rules) \in Nat
    BY RulesAssumption
  <2> QED
    BY <2>1, FS_Interval
<1>2. IsFiniteSet(Key)
  BY <1>1, ContainersAssumption, FS_Product DEF Key
<1> QED
  BY <1>2, FS_Subset, FS_CardinalityType

(* Pushing the alerts of one evaluation keeps the history typed and bounded. *)
LEMMA PushHistoryType ==
    ASSUME TypeOK, NEW ks \in SUBSET Key, NEW order \in FiringOrders(ks),
           \A k \in ks : conditionStart[k] \in Nat
    PROVE  PushHistory(order) \in Seq(HistoryEntry) /\ Len(PushHistory(order)) <= HistoryCap
<1> DEFINE entry(k) == [key |-> k, firedAt |-> now, activeSince |-> conditionStart[k]]
           front == [i \in 1..Len(order) |-> entry(order[i])]
           all == front \o firedAlerts
           n == IF Len(all) > HistoryCap THEN HistoryCap ELSE Len(all)
<1>1. order \in Seq(ks) /\ Len(order) \in Nat
  <2>1. order \in [1..Cardinality(ks) -> ks]
    BY DEF FiringOrders
  <2> QED
    BY <2>1, KeySets
<1>2. \A i \in 1..Len(order) : order[i] \in ks
  BY <1>1
<1>3. \A k \in ks : entry(k) \in HistoryEntry
  BY DEF HistoryEntry, TypeOK
<1>4. front \in Seq(HistoryEntry)
  <2> HIDE DEF entry
  <2> QED BY <1>1, <1>2, <1>3
<1>5. all \in Seq(HistoryEntry) /\ Len(all) \in Nat
  <2> HIDE DEF front
  <2> QED BY <1>4 DEF TypeOK
<1>6. n \in 0..Len(all) /\ n <= HistoryCap
  <2> HIDE DEF all
  <2> QED BY <1>5, BoundsAssumption
<1>7. SubSeq(all, 1, n) \in Seq(HistoryEntry) /\ Len(SubSeq(all, 1, n)) = n
  <2> HIDE DEF all, n
  <2> QED BY <1>5, <1>6, SubSeqProperties
<1>8. PushHistory(order) = SubSeq(all, 1, n)
  BY DEF PushHistory
<1> QED
  BY <1>6, <1>7, <1>8

-----------------------------------------------------------------------------
(* The inductive invariant: what makes the safety invariants inductive is  *)
(* that an active alert always has its timer.                              *)
ActiveHaveTimers ==
    \A k \in Key : activeAlerts[k] # None => conditionStart[k] # None

StartsInThePast ==
    \A k \in Key : conditionStart[k] # None => conditionStart[k] <= now

Inv == /\ TypeOK
       /\ ActiveAlertsAreCurrent
       /\ TimersAreCurrent
       /\ AlertsFireAfterDuration
       /\ ActiveHaveTimers
       /\ StartsInThePast

LEMMA InitInv == Init => Inv
<1> SUFFICES ASSUME Init PROVE Inv
  OBVIOUS
<1>1. stats \in Stats
  <2>1. stats \in [{} -> Sample]
    BY DEF Init
  <2> QED
    BY <2>1 DEF Stats
<1>2. TypeOK
  BY <1>1, BoundsAssumption DEF Init, TypeOK
<1> QED
  BY <1>2 DEF Init, Inv, ActiveAlertsAreCurrent, TimersAreCurrent,
     AlertsFireAfterDuration, ActiveHaveTimers, StartsInThePast

LEMMA TickInv == Inv /\ Tick => Inv'
<1> SUFFICES ASSUME Inv, Tick PROVE Inv'
  OBVIOUS
<1>1. TypeOK'
  BY BoundsAssumption DEF Inv, TypeOK, Tick
<1>2. ActiveAlertsAreCurrent' /\ TimersAreCurrent'
  BY DEF Inv, Tick, ActiveAlertsAreCurrent, TimersAreCurrent, ConditionMet
<1>3. AlertsFireAfterDuration'
  BY DurationType DEF Inv, TypeOK, Alert, Tick, AlertsFireAfterDuration
<1>4. ActiveHaveTimers' /\ StartsInThePast'
  BY DEF Inv, TypeOK, Tick, ActiveHaveTimers, StartsInThePast
<1> QED
  BY <1>1, <1>2, <1>3, <1>4 DEF Inv

LEMMA EvaluateInv == ASSUME Inv, NEW st \in Stats, Evaluate(st) PROVE Inv'
<1> DEFINE gone == clearInactiveAlerts(st) \cup Cleared(st)
           fired == Fired(st)
<1>0. /\ \A k \in Key : conditionStart[k] \in Nat \cup {None}
      /\ \A k \in Key : activeAlerts[k] \in Alert \cup {None}
      /\ now \in Nat /\ now' = now /\ stats' = st
  BY BoundsAssumption DEF Inv, TypeOK, Evaluate
<1>1. \A k \in Key :
        conditionStart'[k] = IF k \in gone THEN None
                             ELSE IF k \in Started(st) THEN now
                             ELSE conditionStart[k]
  BY DEF Evaluate
<1>2. \A k \in Key :
        activeAlerts'[k] = IF k \in gone THEN None
                           ELSE IF k \in fired
                           THEN [firedAt |-> now, activeSince |-> conditionStart[k]]
                           ELSE activeAlerts[k]
  BY DEF Evaluate
<1>3. \A k \in fired : k \in Key /\ ConditionMet(st, k) /\ conditionStart[k] \in Nat
                       /\ now - conditionStart[k] >= Duration[k]
  BY <1>0 DEF Fired
<1>4. \A k \in Key : ConditionMet(st, k)' = ConditionMet(st, k)
  BY DEF ConditionMet
<1>5. \A k \in Key : k \notin gone /\ k[1] \in DOMAIN st => ConditionMet(st, k)
  BY DEF Cleared
<1>6. TypeOK'
  <2>1. conditionStart' \in [Key -> Nat \cup {None}]
    <3>1. conditionStart' = [k \in Key |-> conditionStart'[k]]
      BY DEF Evaluate
    <3>2. \A k \in Key : conditionStart'[k] \in Nat \cup {None}
      BY <1>0, <1>1
    <3> QED BY <3>1, <3>2
  <2>2. activeAlerts' \in [Key -> Alert \cup {None}]
    <3>1. activeAlerts' = [k \in Key |-> activeAlerts'[k]]
      BY DEF Evaluate
    <3>2. \A k \in Key : activeAlerts'[k] \in Alert \cup {None}
      <4>1. \A k \in fired : [firedAt |-> now, activeSince |-> conditionStart[k]] \in Alert
        BY <1>0, <1>3 DEF Alert
      <4> HIDE DEF gone, fired
      <4> QED BY <1>0, <1>2, <4>1
    <3> QED BY <3>1, <3>2
  <2>3. firedAlerts' \in Seq(HistoryEntry) /\ Len(firedAlerts') <= HistoryCap
    <3>1. PICK order \in FiringOrders(fired) : firedAlerts' = PushHistory(order)
      BY DEF Evaluate
    <3>2. fired \in SUBSET Key
      BY DEF Fired
    <3> HIDE DEF fired
    <3> QED BY <1>3, <3>1, <3>2, PushHistoryType DEF Inv
  <2>4. newAlerts' \in SUBSET Key
    BY DEF Evaluate, Fired
  <2>5. stats' \in Stats /\ now' \in 0..MaxTime
    BY DEF Evaluate, Inv, TypeOK
  <2>6. observedSince' \in [Key -> Nat \cup {None}]
    BY <1>0 DEF Evaluate, Inv, TypeOK
  <2> QED
    BY <2>1, <2>2, <2>3, <2>4, <2>5, <2>6 DEF TypeOK
<1>7. ActiveAlertsAreCurrent'
  <2> SUFFICES ASSUME NEW k \in Key, activeAlerts'[k] # None
               PROVE  ConditionMet(st, k)
    BY <1>0 DEF ActiveAlertsAreCurrent, ConditionMet
  <2>1. k \notin gone
    BY <1>2
  <2>2. CASE k \in fired
    BY <2>2, <1>3
  <2>3. CASE k \notin fired
    <3>1. activeAlerts[k] # None
      BY <1>2, <2>1, <2>3
    <3>2. k[1] \in DOMAIN st
      BY <2>1, <3>1 DEF clearInactiveAlerts
    <3> QED BY <1>5, <2>1, <3>2
  <2> QED BY <2>2, <2>3
<1>8. TimersAreCurrent'
  <2> SUFFICES ASSUME NEW k \in Key, conditionStart'[k] # None, k[1] \in DOMAIN st
               PROVE  ConditionMet(st, k)
    BY <1>0 DEF TimersAreCurrent, ConditionMet
  <2> QED BY <1>1, <1>5
<1>9. AlertsFireAfterDuration' /\ ActiveHaveTimers'
  <2> SUFFICES ASSUME NEW k \in Key, activeAlerts'[k] # None
               PROVE  /\ conditionStart'[k] # None
                      /\ conditionStart'[k] = activeAlerts'[k].activeSince
                      /\ activeAlerts'[k].activeSince + Duration[k] <= activeAlerts'[k].firedAt
                      /\ activeAlerts'[k].firedAt <= now
    BY <1>0 DEF AlertsFireAfterDuration, ActiveHaveTimers
  <2>1. k \notin gone
    BY <1>2
  <2>2. CASE k \in fired
    <3>1. k \notin Started(st)
      BY <2>2 DEF Fired, Started
    <3>2. /\ conditionStart'[k] = conditionStart[k]
          /\ activeAlerts'[k] = [firedAt |-> now, activeSince |-> conditionStart[k]]
      BY <1>1, <1>2, <2>1, <2>2, <3>1
    <3> QED
      BY <1>0, <1>3, <2>2, <3>2, DurationType, NoneAssumption
  <2>3. CASE k \notin fired
    <3>1. activeAlerts'[k] = activeAlerts[k]
      BY <1>2, <2>1, <2>3
    <3>2. conditionStart[k] # None
      BY <3>1 DEF Inv, ActiveHaveTimers
    <3>3. conditionStart'[k] = conditionStart[k]
      BY <1>1, <2>1, <3>2 DEF Started
    <3> QED
      BY <3>1, <3>2, <3>3 DEF Inv, AlertsFireAfterDuration
  <2> QED BY <2>2, <2>3
<1>10. StartsInThePast'
  BY <1>0, <1>1 DEF Inv, StartsInThePast
<1> QED
  BY <1>6, <1>7, <1>8, <1>9, <1>10 DEF Inv

LEMMA StutterInv == Inv /\ UNCHANGED vars => Inv'
BY DEF Inv, vars, TypeOK, ActiveAlertsAreCurrent, TimersAreCurrent, ConditionMet,
   AlertsFireAfterDuration, ActiveHaveTimers, StartsInThePast

(* Inv is an invariant of the engine. *)
THEOREM EngineInvariant == Spec => []Inv
<1>1. Inv /\ [Next]_vars => Inv'
  BY TickInv, EvaluateInv, StutterInv DEF Next
<1> QED
  BY InitInv, <1>1, PTL DEF Spec

(* The engine's maps, history and result keep their types. *)
THEOREM TypeCorrect == Spec => []TypeOK
BY EngineInvariant, PTL DEF Inv

(* What is listed as active is true in the last sample; no timer outlives   *)
(* an evaluation that saw its condition false.                              *)
THEOREM AlertsCurrent == Spec => [](ActiveAlertsAreCurrent /\ TimersAreCurrent)
BY EngineInvariant, PTL DEF Inv

(* No alert fires on a timer that ran for less than the rule's duration, and *)
(* no timer is replaced under an active alert.                               *)
THEOREM DurationRespected == Spec => []AlertsFireAfterDuration
BY EngineInvariant, PTL DEF Inv

-----------------------------------------------------------------------------
(* The history.                                                             *)
HistoryInThePast == \A i \in DOMAIN firedAlerts : firedAlerts[i].firedAt <= now

HistoryInv == HistoryKeepsTheLatest /\ HistoryInThePast

(* After a push the new alerts are in front and the old ones behind them, as *)
(* far as there is room.                                                     *)
LEMMA PushHistoryFacts ==
    ASSUME TypeOK, NEW ks \in SUBSET Key, NEW order \in FiringOrders(ks),
           \A k \in ks : conditionStart[k] \in Nat
    PROVE  LET h == PushHistory(order)
               c == Cardinality(ks)
               old == Len(firedAlerts)
           IN /\ c \in Nat /\ old \in Nat
              /\ DOMAIN h = 1..Len(h) /\ Len(h) \in Nat
              /\ Len(h) = IF c + old > HistoryCap THEN HistoryCap ELSE c + old
              /\ \A i \in 1..Len(h) :
                    IF i <= c THEN order[i] \in ks /\ h[i].key = order[i] /\ h[i].firedAt = now
                    ELSE i - c \in 1..old /\ h[i] = firedAlerts[i - c]
<1> DEFINE entry(k) == [key |-> k, firedAt |-> now, activeSince |-> conditionStart[k]]
           c == Cardinality(ks)
           old == Len(firedAlerts)
           front == [i \in 1..Len(order) |-> entry(order[i])]
           all == front \o firedAlerts
           n == IF Len(all) > HistoryCap THEN HistoryCap ELSE Len(all)
           h == SubSeq(all, 1, n)
<1>1. c \in Nat /\ order \in [1..c -> ks]
  BY KeySets DEF FiringOrders
<1>2. Len(order) = c
  BY <1>1
<1>3. firedAlerts \in Seq(HistoryEntry) /\ old \in Nat
  BY DEF TypeOK
<1>4. front \in Seq(HistoryEntry) /\ Len(front) = c /\ \A i \in 1..c : front[i] = entry(order[i])
  <2>1. \A i \in 1..c : entry(order[i]) \in HistoryEntry
    BY <1>1 DEF HistoryEntry, TypeOK
  <2>2. front = [i \in 1..c |-> entry(order[i])]
    BY <1>2
  <2> HIDE DEF entry, c
  <2> QED BY <1>1, <2>1, <2>2
<1>5. /\ all \in Seq(HistoryEntry) /\ Len(all) = c + old
      /\ \A i \in 1..(c + old) : all[i] = IF i <= c THEN front[i] ELSE firedAlerts[i - c]
  <2> HIDE DEF front, c, old
  <2>1. /\ all \in Seq(HistoryEntry) /\ Len(all) = Len(front) + Len(firedAlerts)
        /\ \A i \in 1..(Len(front) + Len(firedAlerts)) :
              all[i] = IF i <= Len(front) THEN front[i] ELSE firedAlerts[i - Len(front)]
    BY <1>3, <1>4, ConcatProperties
  <2> QED BY <1>4, <2>1 DEF old
<1> HIDE DEF all, front, c, old
<1>6. n \in Nat /\ n <= c + old /\ n = IF c + old > HistoryCap THEN HistoryCap ELSE c + old
  BY <1>1, <1>3, <1>5, BoundsAssumption
<1> HIDE DEF n
<1>7. Len(h) = n /\ DOMAIN h = 1..n /\ \A i \in 1..n : h[i] = all[i]
  <2>1. Len(all) \in Nat /\ \A i \in 1..Len(all) : all[i] \in HistoryEntry
    BY <1>1, <1>3, <1>5, ElementOfSeq
  <2>2. \A i \in 1..n : all[i] \in HistoryEntry
    BY <1>5, <1>6, <2>1
  <2>3. /\ h \in Seq(HistoryEntry) /\ Len(h) = IF 1 <= n THEN n - 1 + 1 ELSE 0
        /\ \A i \in 1..(n - 1 + 1) : h[i] = all[1 + i - 1]
    BY <1>6, <2>2, SubSeqProperties
  <2>4. Len(h) = n
    BY <1>6, <2>3
  <2>5. \A i \in 1..n : i \in 1..(n - 1 + 1) /\ 1 + i - 1 = i
    BY <1>6
  <2>6. DOMAIN h = 1..Len(h)
    BY <2>3, LenProperties
  <2> HIDE DEF h
  <2> QED BY <2>3, <2>4, <2>5, <2>6
<1>8. PushHistory(order) = h
  BY DEF PushHistory, n, all, front
<1> HIDE DEF h
<1>9. ASSUME NEW i \in 1..n
      PROVE  IF i <= c THEN order[i] \in ks /\ h[i].key = order[i] /\ h[i].firedAt = now
             ELSE i - c \in 1..old /\ h[i] = firedAlerts[i - c]
  <2>1. i \in 1..(c + old)
    BY <1>1, <1>3, <1>6
  <2>2. h[i] = IF i <= c THEN front[i] ELSE firedAlerts[i - c]
    BY <1>5, <1>7, <2>1
  <2>3. CASE i <= c
    <3>1. i \in 1..c
      BY <1>1, <2>3
    <3> QED BY <1>1, <1>4, <2>2, <2>3, <3>1
  <2>4. CASE ~(i <= c)
    <3>1. i - c \in 1..old
      BY <1>1, <1>3, <2>1, <2>4
    <3> QED BY <2>2, <2>4, <3>1
  <2> QED BY <2>3, <2>4
<1> QED BY <1>1, <1>3, <1>6, <1>7, <1>8, <1>9 DEF c, old

(* The history is a sequence of entries with a time.                        *)
LEMMA HistoryTyped ==
    ASSUME Inv
    PROVE  /\ Len(firedAlerts) \in Nat /\ DOMAIN firedAlerts = 1..Len(firedAlerts)
           /\ \A i \in 1..Len(firedAlerts) : firedAlerts[i].firedAt \in Nat
<1>1. firedAlerts \in Seq(HistoryEntry)
  BY DEF Inv, TypeOK
<1>2. Len(firedAlerts) \in Nat /\ DOMAIN firedAlerts = 1..Len(firedAlerts)
  BY <1>1, LenProperties
<1>3. \A i \in 1..Len(firedAlerts) : firedAlerts[i] \in HistoryEntry
  BY <1>1, ElementOfSeq
<1>4. \A i \in 1..Len(firedAlerts) : firedAlerts[i].firedAt \in Nat
  BY <1>3 DEF HistoryEntry
<1> QED BY <1>2, <1>4

LEMMA EvaluateHistory ==
    ASSUME Inv, HistoryInv, NEW st \in Stats, Evaluate(st) PROVE HistoryInv'
<1> DEFINE fired == Fired(st)
           gone == clearInactiveAlerts(st) \cup Cleared(st)
           c == Cardinality(fired)
           old == Len(firedAlerts)
           n == Len(firedAlerts')
<1>0. fired \in SUBSET Key /\ \A k \in fired : conditionStart[k] \in Nat
  BY DEF Fired, Inv, TypeOK
<1>1. PICK order \in FiringOrders(fired) : firedAlerts' = PushHistory(order)
  BY DEF Evaluate
<1> HIDE DEF fired
<1>2. /\ c \in Nat /\ old \in Nat /\ n \in Nat /\ DOMAIN firedAlerts' = 1..n
      /\ n = IF c + old > HistoryCap THEN HistoryCap ELSE c + old
      /\ \A i \in 1..n :
            IF i <= c THEN order[i] \in fired /\ firedAlerts'[i].key = order[i]
                           /\ firedAlerts'[i].firedAt = now
            ELSE i - c \in 1..old /\ firedAlerts'[i] = firedAlerts[i - c]
  BY <1>0, <1>1, PushHistoryFacts DEF Inv
<1>3. /\ DOMAIN firedAlerts = 1..old /\ now' = now /\ now \in Nat
      /\ \A i \in 1..old : firedAlerts[i].firedAt \in Nat /\ firedAlerts[i].firedAt <= now
  <2>1. now' = now /\ now \in Nat
    BY BoundsAssumption DEF Inv, TypeOK, Evaluate
  <2> QED BY <2>1, HistoryTyped DEF HistoryInv, HistoryInThePast
<1> HIDE DEF c, old, n
<1>4. \A i \in 1..n : firedAlerts'[i].firedAt \in Nat /\ firedAlerts'[i].firedAt <= now
  BY SMTT(30), <1>2, <1>3
<1>5. ASSUME NEW i \in 1..n, NEW j \in 1..n, i < j
      PROVE  firedAlerts'[i].firedAt >= firedAlerts'[j].firedAt
  <2>1. CASE i <= c
    BY <1>2, <1>3, <1>4, <2>1
  <2>2. CASE ~(i <= c)
    <3>1. ~(j <= c) /\ i - c < j - c
      BY <1>2, <1>5, <2>2
    <3>2. /\ i - c \in 1..old /\ firedAlerts'[i] = firedAlerts[i - c]
          /\ j - c \in 1..old /\ firedAlerts'[j] = firedAlerts[j - c]
      BY <1>2, <2>2, <3>1
    <3> QED BY <1>3, <3>1, <3>2 DEF HistoryInv, HistoryKeepsTheLatest
  <2> QED BY <2>1, <2>2
<1>6. ASSUME NEW k \in Key, activeAlerts'[k] # None
      PROVE  \/ \E i \in 1..n : /\ firedAlerts'[i].key = k
                                /\ firedAlerts'[i].firedAt = activeAlerts'[k].firedAt
             \/ /\ n = HistoryCap
                /\ \A i \in 1..n : firedAlerts'[i].firedAt >= activeAlerts'[k].firedAt
  <2>0. HistoryCap \in Nat /\ old <= HistoryCap
    BY BoundsAssumption DEF HistoryInv, HistoryKeepsTheLatest, old
  <2>1. activeAlerts'[k] = IF k \in gone THEN None
                           ELSE IF k \in fired
                           THEN [firedAt |-> now, activeSince |-> conditionStart[k]]
                           ELSE activeAlerts[k]
    BY DEF Evaluate, fired
  <2> HIDE DEF gone
  <2>2. CASE k \in fired
    <3>1. PICK i \in DOMAIN order : order[i] = k
      BY <2>2 DEF FiringOrders
    <3>2. i \in 1..c
      BY <3>1 DEF FiringOrders, c
    <3>3. activeAlerts'[k].firedAt = now
      BY <1>6, <2>1, <2>2
    <3>4. CASE i <= n
      <4>1. i \in 1..n /\ i <= c
        BY <1>2, <3>2, <3>4
      <4>2. firedAlerts'[i].key = k /\ firedAlerts'[i].firedAt = now
        BY <1>2, <3>1, <4>1
      <4> QED BY <3>3, <4>1, <4>2
    <3>5. CASE ~(i <= n)
      <4>1. n = HistoryCap /\ \A j \in 1..n : j <= c
        BY <1>2, <2>0, <3>2, <3>5
      <4>2. \A j \in 1..n : firedAlerts'[j].firedAt = now
        BY <1>2, <4>1
      <4> QED BY <1>3, <3>3, <4>1, <4>2
    <3> QED BY <3>4, <3>5
  <2>3. CASE k \notin fired
    <3>1. activeAlerts'[k] = activeAlerts[k] /\ activeAlerts[k] # None
      BY <1>6, <2>1, <2>3
    <3>2. activeAlerts[k].firedAt \in Nat /\ activeAlerts[k].firedAt <= now
      BY <3>1 DEF Inv, TypeOK, Alert, AlertsFireAfterDuration
    <3> DEFINE at == activeAlerts[k].firedAt
    <3> HIDE DEF at
    <3>3. ASSUME n = HistoryCap,
                 \A j \in 1..n : ~(j <= c) => firedAlerts[j - c].firedAt >= at
          PROVE  n = HistoryCap /\ \A j \in 1..n : firedAlerts'[j].firedAt >= at
      BY <1>2, <1>3, <3>2, <3>3 DEF at
    <3>4. CASE \E i \in 1..old : firedAlerts[i].key = k /\ firedAlerts[i].firedAt = at
      <4>1. PICK i \in 1..old : firedAlerts[i].key = k /\ firedAlerts[i].firedAt = at
        BY <3>4
      <4>2. CASE i + c <= n
        <5>1. i + c \in 1..n /\ ~(i + c <= c) /\ (i + c) - c = i
          BY <1>2, <4>2
        <5>2. firedAlerts'[i + c] = firedAlerts[i]
          BY <1>2, <5>1
        <5> QED BY <3>1, <4>1, <5>1, <5>2 DEF at
      <4>3. CASE ~(i + c <= n)
        <5>1. n = HistoryCap
          BY <1>2, <2>0, <4>3
        <5>2. ASSUME NEW j \in 1..n, ~(j <= c) PROVE firedAlerts[j - c].firedAt >= at
          <6>1. j - c \in 1..old /\ j - c < i
            BY <1>2, <4>3, <5>2
          <6> QED BY <1>3, <4>1, <6>1 DEF HistoryInv, HistoryKeepsTheLatest
        <5> QED BY <3>1, <3>3, <5>1, <5>2 DEF at
      <4> QED BY <4>2, <4>3
    <3>5. CASE old = HistoryCap /\ \A i \in 1..old : firedAlerts[i].firedAt >= at
      <4>1. n = HistoryCap
        BY <1>2, <2>0, <3>5
      <4>2. \A j \in 1..n : ~(j <= c) => firedAlerts[j - c].firedAt >= at
        BY <1>2, <3>5
      <4> QED BY <3>1, <3>3, <4>1, <4>2 DEF at
    <3> QED BY <1>3, <3>1, <3>4, <3>5 DEF HistoryInv, HistoryKeepsTheLatest, old, at
  <2> QED BY <2>2, <2>3
<1>7. n <= HistoryCap
  BY <1>2, BoundsAssumption
<1>8. HistoryInThePast'
  BY <1>2, <1>3, <1>4 DEF HistoryInThePast
<1>9. HistoryKeepsTheLatest'
  BY <1>2, <1>5, <1>6, <1>7 DEF HistoryKeepsTheLatest, n
<1> QED BY <1>8, <1>9 DEF HistoryInv

(* The history is newest first, and an active alert is missing from it only   *)
(* if a full history has nothing older, in whatever order the map of the      *)
(* containers is iterated.                                                    *)
THEOREM HistoryLatest == Spec => []HistoryKeepsTheLatest
<1>1. Init => HistoryInv
  BY BoundsAssumption DEF Init, HistoryInv, HistoryInThePast, HistoryKeepsTheLatest
<1>2. Inv /\ HistoryInv /\ [Next]_vars => HistoryInv'
  <2> SUFFICES ASSUME Inv, HistoryInv, [Next]_vars PROVE HistoryInv'
    OBVIOUS
  <2>1. CASE Tick
    <3>1. \A i \in DOMAIN firedAlerts : firedAlerts[i].firedAt \in Nat
      BY HistoryTyped
    <3>2. now \in Nat /\ now' = now + 1 /\ UNCHANGED <<firedAlerts, activeAlerts>>
      BY <2>1, BoundsAssumption DEF Tick, Inv, TypeOK
    <3> QED BY <3>1, <3>2 DEF HistoryInv, HistoryInThePast, HistoryKeepsTheLatest
  <2>2. CASE \E st \in Stats : Evaluate(st)
    BY <2>2, EvaluateHistory
  <2>3. CASE UNCHANGED vars
    BY <2>3 DEF vars, HistoryInv, HistoryInThePast, HistoryKeepsTheLatest
  <2> QED BY <2>1, <2>2, <2>3 DEF Next
<1> QED
  BY <1>1, <1>2, EngineInvariant, PTL DEF Spec, HistoryInv

-----------------------------------------------------------------------------
(* Refinement of AlertLifecycle.                                            *)

LEMMA InitLifecycle == Init => Lifecycle!Init
BY DEF Init, Lifecycle!Init, Phase

LEMMA TickLifecycle == Inv /\ Tick => Lifecycle!Tick
BY DEF Tick, Lifecycle!Tick, Phase

LEMMA EvaluateLifecycle ==
    ASSUME Inv, Inv', NEW st \in Stats, Evaluate(st) PROVE Lifecycle!Evaluate
<1> DEFINE gone == clearInactiveAlerts(st) \cup Cleared(st)
           fired == Fired(st)
           ph == [k \in Key |-> Phase(k)]
<1>1. \A k \in Key :
        conditionStart'[k] = IF k \in gone THEN None
                             ELSE IF k \in Started(st) THEN now
                             ELSE conditionStart[k]
  BY DEF Evaluate
<1>2. \A k \in Key :
        activeAlerts'[k] = IF k \in gone THEN None
                           ELSE IF k \in fired
                           THEN [firedAt |-> now, activeSince |-> conditionStart[k]]
                           ELSE activeAlerts[k]
  BY DEF Evaluate
<1>3. now \in Nat /\ now # None /\ conditionStart \in [Key -> Nat \cup {None}]
      /\ conditionStart' \in [Key -> Nat \cup {None}] /\ newAlerts' = fired
  BY NoneAssumption, BoundsAssumption DEF Inv, TypeOK, Evaluate
<1>4. \A k \in Key : /\ activeAlerts[k] # None => conditionStart[k] # None
                     /\ activeAlerts'[k] # None => conditionStart'[k] # None
  BY DEF Inv, ActiveHaveTimers
<1>5. \A k \in Key :
        /\ Phase(k) = "firing" <=> activeAlerts[k] # None
        /\ Phase(k) = "pending" <=> activeAlerts[k] = None /\ conditionStart[k] # None
        /\ Phase(k) = "inactive" <=> conditionStart[k] = None
        /\ Phase(k) \in {"inactive", "pending", "firing"}
  BY <1>4 DEF Phase
<1>6. \A k \in Key :
        /\ Phase(k)' = "firing" <=> activeAlerts'[k] # None
        /\ Phase(k)' = "pending" <=> activeAlerts'[k] = None /\ conditionStart'[k] # None
        /\ Phase(k)' = "inactive" <=> conditionStart'[k] = None
        /\ Phase(k)' \in {"inactive", "pending", "firing"}
  BY <1>4 DEF Phase
<1>7. \A k \in fired : k \in Key /\ conditionStart[k] # None /\ activeAlerts[k] = None
                       /\ k[1] \in DOMAIN st /\ ConditionMet(st, k)
                       /\ now - conditionStart[k] >= Duration[k]
  BY DEF Fired, ConditionMet
<1>8. \A k \in fired : k \notin gone /\ k \notin Started(st)
  BY <1>7 DEF Started, Cleared, clearInactiveAlerts
<1>9. \A k \in fired : activeAlerts'[k] # None /\ conditionStart'[k] = conditionStart[k]
  <2> SUFFICES ASSUME NEW k \in fired
               PROVE  activeAlerts'[k] # None /\ conditionStart'[k] = conditionStart[k]
    OBVIOUS
  <2>1. k \in Key /\ conditionStart[k] \in Nat /\ k \notin gone /\ k \notin Started(st)
    BY <1>3, <1>7, <1>8
  <2>2. [firedAt |-> now, activeSince |-> conditionStart[k]] # None
    BY <1>3, <2>1, NoneAssumption
  <2> HIDE DEF gone, fired
  <2> QED
    BY <1>1, <1>2, <2>1, <2>2
<1>10. \A k \in Started(st) : k \in Key /\ conditionStart[k] = None /\ k \notin gone
  BY <1>4 DEF Started, Cleared, clearInactiveAlerts, ConditionMet
<1>11. \A k \in gone : k \in Key
  BY DEF Cleared, clearInactiveAlerts
<1> HIDE DEF gone, fired
<1>12. \A k \in Key : ph[k] = Phase(k) /\ ph'[k] = Phase(k)'
  OBVIOUS
<1>13. \A k \in Key : <<ph[k], ph'[k]>> \in Lifecycle!Moves
  BY ZenonT(40), <1>1, <1>2, <1>3, <1>5, <1>6, <1>7, <1>8, <1>9, <1>10, <1>12 DEF Lifecycle!Moves, Lifecycle!Phases
<1>14. newAlerts' = {k \in Key : ph[k] = "pending" /\ ph'[k] = "firing"}
  <2>1. \A k \in fired : Phase(k) = "pending" /\ Phase(k)' = "firing"
    BY <1>5, <1>6, <1>7, <1>9
  <2>2. ASSUME NEW k \in Key, Phase(k) = "pending", Phase(k)' = "firing"
        PROVE  k \in fired
    BY <1>2, <1>5, <1>6, <2>2
  <2> QED BY <1>3, <1>7, <1>12, <2>1, <2>2
<1>15. \A k \in newAlerts' : conditionStart[k] + Duration[k] <= now
  BY <1>3, <1>7, DurationType
<1>16. conditionStart' = [k \in Key |-> IF ph'[k] = "inactive" THEN None
                                       ELSE IF ph[k] = "inactive" THEN now
                                       ELSE conditionStart[k]]
  <2>1. ASSUME NEW k \in Key
        PROVE conditionStart'[k] = IF Phase(k)' = "inactive" THEN None
                                   ELSE IF Phase(k) = "inactive" THEN now
                                   ELSE conditionStart[k]
    BY <1>1, <1>3, <1>5, <1>6, <1>10, <2>1
  <2> QED BY <1>3, <1>12, <2>1
<1>17. ph' \in [Key -> Lifecycle!Phases]
  BY <1>6 DEF Lifecycle!Phases
<1>18. now' = now
  BY DEF Evaluate
<1> QED
  BY <1>13, <1>14, <1>15, <1>16, <1>17, <1>18 DEF Lifecycle!Evaluate

(* The engine implements the lifecycle Pending -> Firing -> Resolved: no    *)
(* condition fires without having been pending for its duration, and each   *)
(* passage is reported by exactly one evaluation.                           *)
THEOREM ImplementsLifecycle == Spec => LifecycleSpec
<1>1. Inv /\ Inv' /\ [Next]_vars => [Lifecycle!Next]_(Lifecycle!lifecycle)
  <2> SUFFICES ASSUME Inv, Inv', [Next]_vars
               PROVE  [Lifecycle!Next]_(Lifecycle!lifecycle)
    OBVIOUS
  <2>1. CASE Tick
    BY <2>1, TickLifecycle DEF Lifecycle!Next
  <2>2. CASE \E st \in Stats : Evaluate(st)
    BY <2>2, EvaluateLifecycle DEF Lifecycle!Next
  <2>3. CASE UNCHANGED vars
    BY <2>3 DEF vars, Lifecycle!lifecycle, Phase
  <2> QED
    BY <2>1, <2>2, <2>3 DEF Next
<1> QED
  BY <1>1, InitLifecycle, EngineInvariant, PTL DEF Spec, LifecycleSpec, Lifecycle!Spec

-----------------------------------------------------------------------------
(* The panel.  Every step of it is a step of the engine, so what is proved  *)
(* of the engine holds for the engine behind the panel.                     *)
THEOREM PanelUsesEngine == PanelSpec => Spec
<1>1. PanelInit => Init
  BY DEF PanelInit
<1>2. [PanelNext]_<<vars, panel>> => [Next]_vars
  BY DEF PanelNext, handleStatsMsg, processSecurityAlerts, Next, vars
<1> QED BY <1>1, <1>2, PTL DEF PanelSpec, Spec

-----------------------------------------------------------------------------
(* Induction.  A set of numbers that is not empty has a least one, and a    *)
(* set with 0 and with the successor of each of its members has them all.   *)
LEMMA LeastNumber ==
    ASSUME NEW T \in SUBSET Nat, T # {} PROVE \E n \in T : \A k \in T : n <= k
<1> DEFINE R == OpToRel(<, Nat)
<1>1. IsWellFoundedOn(R, Nat)
  BY NatLessThanWellFounded
<1>2. \A x, y \in Nat : y < x => <<y, x>> \in R
  BY DEF OpToRel
<1> HIDE DEF R
<1>3. \E x \in T : \A y \in T : <<y, x>> \notin R
  BY <1>1, WFMin
<1>4. \E x \in T : \A y \in T : ~(y < x)
  BY <1>2, <1>3
<1>5. \A x, y \in Nat : ~(y < x) => x <= y
  OBVIOUS
<1> QED BY <1>4, <1>5

LEMMA InductiveSet ==
    ASSUME NEW T \in SUBSET Nat, 0 \in T, \A n \in T : n + 1 \in T PROVE T = Nat
<1> SUFFICES ASSUME T # Nat PROVE FALSE
  OBVIOUS
<1>1. PICK n \in Nat \ T : \A k \in Nat \ T : n <= k
  BY LeastNumber
<1>2. n - 1 \in Nat /\ ~(n <= n - 1) /\ (n - 1) + 1 = n
  OBVIOUS
<1>3. n - 1 \in T
  BY <1>1, <1>2
<1> QED BY <1>2, <1>3

-----------------------------------------------------------------------------
(* Loops.  The three loops of the panel, as one operator.                   *)
Body(loop, x, k) ==
    IF loop = "best" THEN KeepBetter(x, k)
    ELSE IF loop = "findings" THEN MarkFinding(x, k)
    ELSE MarkAlert(x, k)

(* What FoldLeft computes for every subset of the positions of q: its last  *)
(* element is the last to be folded in.                                     *)
Folded(loop, g, base, q) ==
    g = [s \in SUBSET (DOMAIN q) |->
            IF s = {} THEN base ELSE Body(loop, g[s \ {Max(s)}], q[Max(s)])]

LEMMA MaxOfSet ==
    ASSUME NEW k \in Nat, NEW s \in SUBSET (1..k), k \in s PROVE Max(s) = k
<1>1. \A y \in s : k >= y
  OBVIOUS
<1>2. \E x \in s : \A y \in s : x >= y
  BY <1>1
<1>3. Max(s) \in s /\ \A y \in s : Max(s) >= y
  BY <1>2 DEF Max
<1> DEFINE x == Max(s)
<1>4. x \in s /\ \A y \in s : x >= y
  BY <1>3
<1> HIDE DEF x
<1>5. x \in 1..k /\ k >= x /\ x >= k
  BY <1>1, <1>4
<1>6. x = k
  BY <1>5
<1> QED BY <1>6 DEF x

(* The function exists, so the one FoldLeft chooses is it.                  *)
LEMMA FoldedExists ==
    ASSUME NEW loop, NEW base, NEW q, NEW n \in Nat, DOMAIN q = 1..n
    PROVE  \E g : Folded(loop, g, base, q)
<1> DEFINE Up(g, k) == g = [s \in SUBSET (1..k) |->
                              IF s = {} THEN base ELSE Body(loop, g[s \ {Max(s)}], q[Max(s)])]
           T == {k \in Nat : \E g : Up(g, k)}
<1>1. 0 \in T
  <2> DEFINE g == [s \in SUBSET (1..0) |-> base]
  <2>1. \A s \in SUBSET (1..0) : s = {}
    OBVIOUS
  <2>2. Up(g, 0)
    BY <2>1
  <2> HIDE DEF Up
  <2> QED BY <2>2
<1>2. ASSUME NEW k \in T PROVE k + 1 \in T
  <2> DEFINE e == k + 1
  <2>1. PICK g : Up(g, k)
    OBVIOUS
  <2> DEFINE h == [s \in SUBSET (1..e) |->
                     IF e \in s THEN Body(loop, g[s \ {e}], q[e]) ELSE g[s]]
             r == [s \in SUBSET (1..e) |->
                     IF s = {} THEN base ELSE Body(loop, h[s \ {Max(s)}], q[Max(s)])]
  <2>2. k \in Nat /\ e \in Nat /\ e \notin 1..k /\ 1..k \subseteq 1..e
        /\ \A i \in 1..e : i # e => i \in 1..k
    OBVIOUS
  <2>3. ASSUME NEW s \in SUBSET (1..e) PROVE h[s] = r[s]
    <3>1. CASE e \in s
      <4>1. Max(s) = e /\ s # {}
        BY <2>2, <3>1, MaxOfSet
      <4>2. s \ {e} \in SUBSET (1..e) /\ e \notin s \ {e}
        OBVIOUS
      <4>3. h[s \ {e}] = g[s \ {e}]
        BY <4>2
      <4> QED BY <3>1, <4>1, <4>3
    <3>2. CASE e \notin s
      <4>1. s \in SUBSET (1..k)
        BY <2>2, <3>2
      <4>2. h[s] = g[s] /\ g[s] = IF s = {} THEN base ELSE Body(loop, g[s \ {Max(s)}], q[Max(s)])
        BY <2>1, <3>2, <4>1
      <4>3. s \ {Max(s)} \in SUBSET (1..e) /\ e \notin s \ {Max(s)}
        BY <3>2
      <4>4. h[s \ {Max(s)}] = g[s \ {Max(s)}]
        BY <4>3
      <4> QED BY <4>2, <4>4
    <3> QED BY <3>1, <3>2
  <2>4. Up(h, e)
    BY <2>3
  <2> HIDE DEF Up, h
  <2> QED BY <2>2, <2>4
<1>3. T = Nat
  <2> HIDE DEF T
  <2>1. T \in SUBSET Nat
    BY DEF T
  <2> QED BY <1>1, <1>2, <2>1, InductiveSet
<1>4. \E g : Up(g, n)
  <2> HIDE DEF Up
  <2> QED BY <1>3
<1> QED BY <1>4 DEF Folded

(* Its values on the initial segments are the states of the loop.           *)
States(loop, b, base, q, n) ==
    b[0] = base /\ \A i \in 1..n : b[i] = Body(loop, b[i - 1], q[i])

LEMMA FoldedSteps ==
    ASSUME NEW loop, NEW base, NEW q, NEW n \in Nat, DOMAIN q = 1..n,
           NEW g, Folded(loop, g, base, q)
    PROVE  \E b : States(loop, b, base, q, n) /\ b[n] = g[DOMAIN q]
<1> DEFINE b == [i \in 0..n |-> g[1..i]]
<1>1. \A s \in SUBSET (1..n) :
         g[s] = IF s = {} THEN base ELSE Body(loop, g[s \ {Max(s)}], q[Max(s)])
  BY DEF Folded
<1>2. b[0] = base /\ b[n] = g[DOMAIN q]
  <2>1. 1..0 = {} /\ 0 \in 0..n /\ n \in 0..n /\ {} \in SUBSET (1..n)
    OBVIOUS
  <2> QED BY <1>1, <2>1
<1>3. ASSUME NEW i \in 1..n PROVE b[i] = Body(loop, b[i - 1], q[i])
  <2>1. /\ i \in Nat /\ 1..i \in SUBSET (1..n) /\ i \in 1..i /\ 1..i # {}
        /\ (1..i) \ {i} = 1..(i - 1) /\ i \in 0..n /\ i - 1 \in 0..n
    <3>1. i \in Nat /\ i >= 1 /\ i <= n /\ i \in 0..n /\ i - 1 \in 0..n /\ i \in 1..i
      OBVIOUS
    <3>2. \A j \in 1..i : j \in 1..n
      BY <3>1
    <3>3. \A j : j \in (1..i) \ {i} <=> j \in 1..(i - 1)
      BY <3>1
    <3> QED BY <3>1, <3>2, <3>3
  <2>2. Max(1..i) = i
    BY <2>1, MaxOfSet
  <2>3. g[1..i] = Body(loop, g[1..(i - 1)], q[i])
    BY <1>1, <2>1, <2>2
  <2> QED BY <2>1, <2>3
<1>4. States(loop, b, base, q, n) /\ b[n] = g[DOMAIN q]
  BY <1>2, <1>3 DEF States
<1> HIDE DEF b
<1> QED BY <1>4

(* The three folds of the panel are what the loops end with.                *)
LEMMA BestFold ==
    ASSUME NEW base, NEW q, NEW n \in Nat, DOMAIN q = 1..n
    PROVE  \E b : States("best", b, base, q, n) /\ b[n] = FoldLeft(KeepBetter, base, q)
<1> DEFINE v == FoldLeft(KeepBetter, base, q)
           Is(g) == g = [s \in SUBSET (DOMAIN q) |->
                           IF s = {} THEN base ELSE KeepBetter(g[s \ {Max(s)}], q[Max(s)])]
<1>1. \A g : Folded("best", g, base, q) <=> Is(g)
  BY DEF Folded, Body
<1>2. \E g : g = (CHOOSE h : Is(h)) /\ v = g[DOMAIN q]
  BY DEF FoldLeft, MapThenFoldSet
<1> HIDE DEF Is, v
<1>3. PICK g : g = (CHOOSE h : Is(h)) /\ v = g[DOMAIN q]
  BY <1>2
<1>4. Folded("best", g, base, q)
  BY <1>1, <1>3, FoldedExists
<1>5. \E b : States("best", b, base, q, n) /\ b[n] = g[DOMAIN q]
  <2> DEFINE loop == "best"
  <2>1. Folded(loop, g, base, q)
    BY <1>4
  <2> HIDE DEF loop
  <2>2. \E b : States(loop, b, base, q, n) /\ b[n] = g[DOMAIN q]
    BY <2>1, FoldedSteps
  <2> QED BY <2>2 DEF loop
<1>6. v = g[DOMAIN q]
  BY <1>3
<1> QED BY <1>5, <1>6 DEF v

LEMMA FindingsFold ==
    ASSUME NEW base, NEW q, NEW n \in Nat, DOMAIN q = 1..n
    PROVE  \E b : States("findings", b, base, q, n) /\ b[n] = FoldLeft(MarkFinding, base, q)
<1> DEFINE v == FoldLeft(MarkFinding, base, q)
           Is(g) == g = [s \in SUBSET (DOMAIN q) |->
                           IF s = {} THEN base ELSE MarkFinding(g[s \ {Max(s)}], q[Max(s)])]
<1>1. \A g : Folded("findings", g, base, q) <=> Is(g)
  BY DEF Folded, Body
<1>2. \E g : g = (CHOOSE h : Is(h)) /\ v = g[DOMAIN q]
  BY DEF FoldLeft, MapThenFoldSet
<1> HIDE DEF Is, v
<1>3. PICK g : g = (CHOOSE h : Is(h)) /\ v = g[DOMAIN q]
  BY <1>2
<1>4. Folded("findings", g, base, q)
  BY <1>1, <1>3, FoldedExists
<1>5. \E b : States("findings", b, base, q, n) /\ b[n] = g[DOMAIN q]
  <2> DEFINE loop == "findings"
  <2>1. Folded(loop, g, base, q)
    BY <1>4
  <2> HIDE DEF loop
  <2>2. \E b : States(loop, b, base, q, n) /\ b[n] = g[DOMAIN q]
    BY <2>1, FoldedSteps
  <2> QED BY <2>2 DEF loop
<1>6. v = g[DOMAIN q]
  BY <1>3
<1> QED BY <1>5, <1>6 DEF v

LEMMA AlertsFold ==
    ASSUME NEW base, NEW q, NEW n \in Nat, DOMAIN q = 1..n
    PROVE  \E b : States("alerts", b, base, q, n) /\ b[n] = FoldLeft(MarkAlert, base, q)
<1> DEFINE v == FoldLeft(MarkAlert, base, q)
           Is(g) == g = [s \in SUBSET (DOMAIN q) |->
                           IF s = {} THEN base ELSE MarkAlert(g[s \ {Max(s)}], q[Max(s)])]
<1>1. \A g : Folded("alerts", g, base, q) <=> Is(g)
  BY DEF Folded, Body
<1>2. \E g : g = (CHOOSE h : Is(h)) /\ v = g[DOMAIN q]
  BY DEF FoldLeft, MapThenFoldSet
<1> HIDE DEF Is, v
<1>3. PICK g : g = (CHOOSE h : Is(h)) /\ v = g[DOMAIN q]
  BY <1>2
<1>4. Folded("alerts", g, base, q)
  BY <1>1, <1>3, FoldedExists
<1>5. \E b : States("alerts", b, base, q, n) /\ b[n] = g[DOMAIN q]
  <2> DEFINE loop == "alerts"
  <2>1. Folded(loop, g, base, q)
    BY <1>4
  <2> HIDE DEF loop
  <2>2. \E b : States(loop, b, base, q, n) /\ b[n] = g[DOMAIN q]
    BY <2>1, FoldedSteps
  <2> QED BY <2>2 DEF loop
<1>6. v = g[DOMAIN q]
  BY <1>3
<1> QED BY <1>5, <1>6 DEF v

(* A loop keeps what its first state has and every iteration keeps: the     *)
(* members of a set of positions that starts with 0 and goes on to n.       *)
LEMMA LoopInduction ==
    ASSUME NEW n \in Nat, NEW T \in SUBSET (0..n), 0 \in T,
           \A i \in 0..(n - 1) : i \in T => i + 1 \in T
    PROVE  n \in T
<1> DEFINE U == {i \in Nat : i <= n => i \in T}
<1>1. 0 \in U
  OBVIOUS
<1>2. ASSUME NEW i \in U PROVE i + 1 \in U
  <2>1. CASE i + 1 <= n
    <3>1. i \in 0..(n - 1) /\ i \in T
      BY <2>1
    <3> QED BY <3>1
  <2>2. CASE ~(i + 1 <= n)
    BY <2>2
  <2> QED BY <2>1, <2>2
<1>3. U \in SUBSET Nat
  OBVIOUS
<1> HIDE DEF U
<1>4. U = Nat
  BY <1>1, <1>2, <1>3, InductiveSet
<1> QED BY <1>4 DEF U

LEMMA IntervalSize == \A k \in Nat : Cardinality(1..k) = k
<1> TAKE k \in Nat
<1>1. Cardinality(1..k) = IF 1 > k THEN 0 ELSE k - 1 + 1
  BY FS_Interval
<1> QED BY <1>1

(* An order in which a map is iterated lists its keys, each once.           *)
LEMMA OrdersListAll ==
    ASSUME NEW ks, IsFiniteSet(ks), NEW q \in SetToSeqs(ks), NEW n, n = Cardinality(ks)
    PROVE  /\ n \in Nat /\ DOMAIN q = 1..n
           /\ \A i \in 1..n : q[i] \in ks
           /\ \A k \in ks : \E i \in 1..n : q[i] = k
<1>1. n \in Nat /\ q \in [1..n -> ks] /\ \A i, j \in 1..n : i # j => q[i] # q[j]
  BY FS_CardinalityType DEF SetToSeqs
<1>2. q \in Injection(1..n, ks)
  BY <1>1 DEF Injection, IsInjective
<1>3. Cardinality(1..n) = n
  BY <1>1, IntervalSize
<1>4. q \in Surjection(1..n, ks)
  BY <1>2, <1>3, FS_Injection
<1> QED BY <1>1, <1>4 DEF Surjection

-----------------------------------------------------------------------------
(* GetActiveAlerts: after i iterations the groups met have an alert of      *)
(* theirs that no alert met so far outweighs.                               *)
Weight(k) == severityWeight(Severity(k))
BestOk(best, q, i) ==
    /\ DOMAIN best = {Group(q[j]) : j \in 1..i}
    /\ \A h \in DOMAIN best : \E j \in 1..i : best[h] = q[j] /\ Group(q[j]) = h
    /\ \A j \in 1..i : Weight(best[Group(q[j])]) >= Weight(q[j])

LEMMA WeightType == \A k : Weight(k) \in Nat
BY DEF Weight, severityWeight

LEMMA KeepBetterOk ==
    ASSUME NEW best, NEW q, NEW i \in Nat, BestOk(best, q, i)
    PROVE  BestOk(KeepBetter(best, q[i + 1]), q, i + 1)
<1> DEFINE k == q[i + 1]
           g == Group(k)
           new == KeepBetter(best, k)
           better == g \notin DOMAIN best \/ Weight(k) > Weight(best[g])
<1>1. /\ DOMAIN new = DOMAIN best \cup {g}
      /\ \A h \in DOMAIN best \cup {g} : new[h] = IF h = g /\ better THEN k ELSE best[h]
  BY DEF KeepBetter, Weight
<1>2. /\ i + 1 \in 1..(i + 1) /\ \A j \in 1..i : j \in 1..(i + 1)
      /\ \A j \in 1..(i + 1) : j \in 1..i \/ j = i + 1
  OBVIOUS
<1> HIDE DEF new, better
<1>3. DOMAIN new = {Group(q[j]) : j \in 1..(i + 1)}
  BY <1>1, <1>2 DEF BestOk
<1>4. ASSUME NEW h \in DOMAIN new
      PROVE  \E j \in 1..(i + 1) : new[h] = q[j] /\ Group(q[j]) = h
  <2>1. CASE h = g /\ better
    BY <1>1, <1>2, <2>1
  <2>2. CASE ~(h = g /\ better)
    <3>1. h \in DOMAIN best /\ new[h] = best[h]
      BY <1>1, <2>2 DEF better
    <3> QED BY <1>2, <3>1 DEF BestOk
  <2> QED BY <2>1, <2>2
<1>5. ASSUME NEW j \in 1..(i + 1) PROVE Weight(new[Group(q[j])]) >= Weight(q[j])
  <2> DEFINE h == Group(q[j])
  <2>1. h \in DOMAIN best \cup {g} /\ new[h] = IF h = g /\ better THEN k ELSE best[h]
    BY <1>1, <1>2 DEF BestOk
  <2>2. CASE j \in 1..i
    <3>1. h \in DOMAIN best /\ Weight(best[h]) >= Weight(q[j])
      BY <2>2 DEF BestOk
    <3>2. CASE h = g /\ better
      <4>1. new[h] = k /\ Weight(k) > Weight(best[h])
        BY <2>1, <3>1, <3>2 DEF better
      <4>2. Weight(k) \in Nat /\ Weight(best[h]) \in Nat /\ Weight(q[j]) \in Nat
        BY WeightType
      <4>3. Weight(k) >= Weight(q[j])
        BY <3>1, <4>1, <4>2
      <4> QED BY <4>1, <4>3
    <3>3. CASE ~(h = g /\ better)
      BY <2>1, <3>1, <3>3
    <3> QED BY <3>2, <3>3
  <2>3. CASE j = i + 1
    <3>1. h = g /\ q[j] = k /\ Weight(k) \in Nat /\ Weight(best[g]) \in Nat
      BY <2>3, WeightType
    <3>2. CASE better
      <4>1. new[h] = k
        BY <2>1, <3>1, <3>2
      <4> QED BY <3>1, <4>1
    <3>3. CASE ~better
      <4>1. new[h] = best[g] /\ ~(Weight(k) > Weight(best[g]))
        BY <2>1, <3>1, <3>3 DEF better
      <4>2. Weight(best[g]) >= Weight(k)
        BY <3>1, <4>1
      <4> QED BY <3>1, <4>1, <4>2
    <3> QED BY <3>2, <3>3
  <2> QED BY <1>2, <2>2, <2>3
<1> QED BY <1>3, <1>4, <1>5 DEF BestOk, new

LEMMA BestOfAll ==
    ASSUME NEW q, NEW n \in Nat, DOMAIN q = 1..n
    PROVE  BestOk(FoldLeft(KeepBetter, <<>>, q), q, n)
<1> DEFINE loop == "best"
           v == FoldLeft(KeepBetter, <<>>, q)
<1>1. \E b : States(loop, b, <<>>, q, n) /\ b[n] = v
  BY BestFold
<1>2. \A x, k : Body(loop, x, k) = KeepBetter(x, k)
  BY DEF Body
<1> HIDE DEF loop, v
<1>3. PICK b : States(loop, b, <<>>, q, n) /\ b[n] = v
  BY <1>1
<1> DEFINE T == {i \in 0..n : BestOk(b[i], q, i)}
<1>4. 0 \in T
  <2>1. b[0] = <<>> /\ DOMAIN <<>> = {} /\ 1..0 = {} /\ 0 \in 0..n
    BY <1>3 DEF States
  <2> QED BY <2>1 DEF BestOk
<1>5. ASSUME NEW i \in 0..(n - 1), i \in T PROVE i + 1 \in T
  <2>1. i \in Nat /\ i + 1 \in 1..n /\ (i + 1) - 1 = i /\ i + 1 \in 0..n
    OBVIOUS
  <2>2. b[i + 1] = Body(loop, b[(i + 1) - 1], q[i + 1])
    BY <1>3, <2>1 DEF States
  <2>3. b[i + 1] = KeepBetter(b[i], q[i + 1])
    BY <1>2, <2>1, <2>2
  <2> QED BY <1>5, <2>1, <2>3, KeepBetterOk
<1>6. T \in SUBSET (0..n)
  OBVIOUS
<1> HIDE DEF T
<1>7. n \in T
  BY <1>4, <1>5, <1>6, LoopInduction
<1>8. BestOk(v, q, n)
  BY <1>3, <1>7 DEF T
<1> QED BY <1>8 DEF v

(* The alerts shown are one of the worst of each group that has one.        *)
Worst(shown, ks) ==
    /\ shown \subseteq ks
    /\ \A k \in ks :
          /\ Cardinality({s \in shown : Group(s) = Group(k)}) = 1
          /\ \A s \in shown : Group(s) = Group(k) => Weight(s) >= Weight(k)

LEMMA ShownAreWorst ==
    ASSUME NEW ks \in SUBSET Key, NEW shown \in GetActiveAlerts(ks)
    PROVE  Worst(shown, ks)
<1> DEFINE n == Cardinality(ks)
<1>1. PICK q \in SetToSeqs(ks) : shown = Range(FoldLeft(KeepBetter, <<>>, q))
  BY DEF GetActiveAlerts
<1>2. /\ n \in Nat /\ DOMAIN q = 1..n
      /\ \A i \in 1..n : q[i] \in ks
      /\ \A k \in ks : \E i \in 1..n : q[i] = k
  BY <1>1, KeySets, OrdersListAll
<1> DEFINE best == FoldLeft(KeepBetter, <<>>, q)
<1>3. BestOk(best, q, n)
  BY <1>2, BestOfAll
<1>4. shown = {best[h] : h \in DOMAIN best}
  BY <1>1 DEF Range
<1> HIDE DEF best, n
<1>5. \A h \in DOMAIN best : best[h] \in ks /\ Group(best[h]) = h
  BY <1>2, <1>3 DEF BestOk
<1>6. shown \subseteq ks
  BY <1>4, <1>5
<1>7. ASSUME NEW k \in ks
      PROVE  /\ Cardinality({s \in shown : Group(s) = Group(k)}) = 1
             /\ \A s \in shown : Group(s) = Group(k) => Weight(s) >= Weight(k)
  <2> DEFINE g == Group(k)
  <2>1. g \in DOMAIN best /\ Weight(best[g]) >= Weight(k)
    BY <1>2, <1>3 DEF BestOk
  <2>2. {s \in shown : Group(s) = g} = {best[g]}
    BY <1>4, <1>5, <2>1
  <2>3. Cardinality({best[g]}) = 1
    BY FS_Singleton
  <2> HIDE DEF g
  <2>4. \A s \in shown : Group(s) = g => s = best[g]
    BY <2>2
  <2>5. Cardinality({s \in shown : Group(s) = g}) = 1
    BY <2>2, <2>3
  <2> QED BY <2>1, <2>4, <2>5 DEF g
<1> QED BY <1>6, <1>7 DEF Worst

-----------------------------------------------------------------------------
(* updateAlertMarks: the marks after i findings, ...                        *)
FindingsOk(marks, q, i) ==
    /\ DOMAIN marks = Containers
    /\ \A c \in Containers :
          marks[c] = IF \E j \in 1..i : q[j][1] = c /\ q[j][2] = "critical" THEN "secCritical"
                     ELSE IF \E j \in 1..i : q[j][1] = c THEN "secWarning" ELSE None

LEMMA MarkFindingOk ==
    ASSUME NEW marks, NEW q, NEW i \in Nat, FindingsOk(marks, q, i), q[i + 1][1] \in Containers
    PROVE  FindingsOk(MarkFinding(marks, q[i + 1]), q, i + 1)
<1> DEFINE f == q[i + 1]
           new == MarkFinding(marks, f)
           d == f[1]
<1>1. /\ DOMAIN new = Containers
      /\ \A c \in Containers : c # d => new[c] = marks[c]
      /\ new[d] = IF f[2] = "critical" THEN "secCritical"
                  ELSE IF marks[d] # "secCritical" THEN "secWarning" ELSE marks[d]
  BY DEF MarkFinding, FindingsOk
<1>2. /\ i + 1 \in 1..(i + 1) /\ \A j \in 1..i : j \in 1..(i + 1)
      /\ \A j \in 1..(i + 1) : j \in 1..i \/ j = i + 1
  OBVIOUS
<1> DEFINE Crit(c, k) == \E j \in 1..k : q[j][1] = c /\ q[j][2] = "critical"
           Some(c, k) == \E j \in 1..k : q[j][1] = c
<1>3. \A c : /\ Crit(c, i + 1) <=> Crit(c, i) \/ (c = d /\ f[2] = "critical")
             /\ Some(c, i + 1) <=> Some(c, i) \/ c = d
  BY <1>2
<1>4. \A c \in Containers : marks[c] = IF Crit(c, i) THEN "secCritical"
                                       ELSE IF Some(c, i) THEN "secWarning" ELSE None
  BY DEF FindingsOk
<1> HIDE DEF Crit, Some, new, d
<1>5. ASSUME NEW c \in Containers
      PROVE  new[c] = IF Crit(c, i + 1) THEN "secCritical"
                      ELSE IF Some(c, i + 1) THEN "secWarning" ELSE None
  <2>1. CASE c # d
    BY <1>1, <1>3, <1>4, <2>1
  <2>2. CASE c = d /\ f[2] = "critical"
    BY <1>1, <1>3, <2>2
  <2>3. CASE c = d /\ f[2] # "critical" /\ Crit(c, i)
    BY <1>1, <1>3, <1>4, <2>3
  <2>4. CASE c = d /\ f[2] # "critical" /\ ~Crit(c, i)
    <3>1. marks[c] \in {"secWarning", None} /\ None # "secCritical"
      BY <1>4, <2>4, PanelAssumption
    <3>2. ~Crit(c, i + 1) /\ Some(c, i + 1)
      BY <1>3, <2>4
    <3> QED BY <1>1, <2>4, <3>1, <3>2
  <2> QED BY <2>1, <2>2, <2>3, <2>4
<1> QED BY <1>1, <1>5 DEF FindingsOk, Crit, Some, new

LEMMA FindingMarks ==
    ASSUME NEW q, NEW n \in Nat, DOMAIN q = 1..n, \A i \in 1..n : q[i][1] \in Containers
    PROVE  FindingsOk(FoldLeft(MarkFinding, [c \in Containers |-> None], q), q, n)
<1> DEFINE loop == "findings"
           base == [c \in Containers |-> None]
           v == FoldLeft(MarkFinding, base, q)
<1>1. \E b : States(loop, b, base, q, n) /\ b[n] = v
  BY FindingsFold
<1>2. \A x, k : Body(loop, x, k) = MarkFinding(x, k)
  BY DEF Body
<1> HIDE DEF loop, v
<1>3. PICK b : States(loop, b, base, q, n) /\ b[n] = v
  BY <1>1
<1> DEFINE T == {i \in 0..n : FindingsOk(b[i], q, i)}
<1>4. 0 \in T
  <2>1. b[0] = base /\ 1..0 = {} /\ 0 \in 0..n
    BY <1>3 DEF States
  <2> QED BY <2>1 DEF FindingsOk
<1>5. ASSUME NEW i \in 0..(n - 1), i \in T PROVE i + 1 \in T
  <2>1. i \in Nat /\ i + 1 \in 1..n /\ (i + 1) - 1 = i /\ i + 1 \in 0..n
    OBVIOUS
  <2>2. b[i + 1] = Body(loop, b[(i + 1) - 1], q[i + 1])
    BY <1>3, <2>1 DEF States
  <2>3. b[i + 1] = MarkFinding(b[i], q[i + 1])
    BY <1>2, <2>1, <2>2
  <2> QED BY <1>5, <2>1, <2>3, MarkFindingOk
<1>6. T \in SUBSET (0..n)
  OBVIOUS
<1> HIDE DEF T
<1>7. n \in T
  BY <1>4, <1>5, <1>6, LoopInduction
<1>8. FindingsOk(v, q, n)
  BY <1>3, <1>7 DEF T
<1> QED BY <1>8 DEF v

(* ... and after i alerts, from the marks base of the findings.             *)
AlertsOk(marks, base, q, i) ==
    /\ DOMAIN marks = Containers
    /\ \A c \in Containers :
          marks[c] = IF \E j \in 1..i : q[j][1] = c /\ Severity(q[j]) = "critical" THEN "critical"
                     ELSE IF base[c] = "secCritical" THEN "secCritical"
                     ELSE IF \E j \in 1..i : q[j][1] = c THEN "warning" ELSE base[c]

LEMMA MarkAlertOk ==
    ASSUME NEW marks, NEW base, \A c \in Containers : base[c] \in {"secCritical", "secWarning", None},
           NEW q, NEW i \in Nat, AlertsOk(marks, base, q, i), q[i + 1][1] \in Containers
    PROVE  AlertsOk(MarkAlert(marks, q[i + 1]), base, q, i + 1)
<1> DEFINE k == q[i + 1]
           new == MarkAlert(marks, k)
           d == k[1]
           critical == Severity(k) = "critical"
<1>1. /\ DOMAIN new = Containers
      /\ \A c \in Containers : c # d => new[c] = marks[c]
      /\ new[d] = IF critical THEN "critical"
                  ELSE IF marks[d] \notin {"critical", "secCritical"} THEN "warning" ELSE marks[d]
  BY DEF MarkAlert, AlertsOk
<1>2. /\ i + 1 \in 1..(i + 1) /\ \A j \in 1..i : j \in 1..(i + 1)
      /\ \A j \in 1..(i + 1) : j \in 1..i \/ j = i + 1
  OBVIOUS
<1> DEFINE Crit(c, n) == \E j \in 1..n : q[j][1] = c /\ Severity(q[j]) = "critical"
           Some(c, n) == \E j \in 1..n : q[j][1] = c
<1>3. \A c : /\ Crit(c, i + 1) <=> Crit(c, i) \/ (c = d /\ critical)
             /\ Some(c, i + 1) <=> Some(c, i) \/ c = d
  BY <1>2
<1>4. \A c \in Containers : marks[c] = IF Crit(c, i) THEN "critical"
                                       ELSE IF base[c] = "secCritical" THEN "secCritical"
                                       ELSE IF Some(c, i) THEN "warning" ELSE base[c]
  BY DEF AlertsOk
<1> HIDE DEF Crit, Some, new, d, critical
<1>5. ASSUME NEW c \in Containers
      PROVE  new[c] = IF Crit(c, i + 1) THEN "critical"
                      ELSE IF base[c] = "secCritical" THEN "secCritical"
                      ELSE IF Some(c, i + 1) THEN "warning" ELSE base[c]
  <2>1. CASE c # d
    BY <1>1, <1>3, <1>4, <2>1
  <2>2. CASE c = d /\ critical
    BY <1>1, <1>3, <2>2
  <2>3. CASE c = d /\ ~critical
    <3>1. /\ base[c] \in {"secCritical", "secWarning", None}
          /\ None # "secCritical" /\ None # "critical"
      BY PanelAssumption
    <3>2. (Crit(c, i + 1) <=> Crit(c, i)) /\ Some(c, i + 1)
      BY <1>3, <2>3
    <3>3. new[c] = IF marks[c] \notin {"critical", "secCritical"} THEN "warning" ELSE marks[c]
      BY <1>1, <2>3
    <3>4. CASE Crit(c, i)
      <4>1. marks[c] = "critical"
        BY <1>4, <3>4
      <4> QED BY <3>2, <3>3, <3>4, <4>1
    <3>5. CASE ~Crit(c, i) /\ base[c] = "secCritical"
      <4>1. marks[c] = "secCritical"
        BY <1>4, <3>5
      <4> QED BY <3>2, <3>3, <3>5, <4>1
    <3>6. CASE ~Crit(c, i) /\ base[c] # "secCritical"
      <4>1. marks[c] \in {"warning", "secWarning", None}
        BY <1>4, <3>1, <3>6
      <4>2. new[c] = "warning"
        BY <3>1, <3>3, <4>1
      <4> QED BY <3>2, <3>6, <4>2
    <3> QED BY <3>4, <3>5, <3>6
  <2> QED BY <2>1, <2>2, <2>3
<1> QED BY <1>1, <1>5 DEF AlertsOk, Crit, Some, new

LEMMA AlertMarks ==
    ASSUME NEW base, DOMAIN base = Containers,
           \A c \in Containers : base[c] \in {"secCritical", "secWarning", None},
           NEW q, NEW n \in Nat, DOMAIN q = 1..n, \A i \in 1..n : q[i][1] \in Containers
    PROVE  AlertsOk(FoldLeft(MarkAlert, base, q), base, q, n)
<1> DEFINE loop == "alerts"
           v == FoldLeft(MarkAlert, base, q)
<1>1. \E b : States(loop, b, base, q, n) /\ b[n] = v
  BY AlertsFold
<1>2. \A x, k : Body(loop, x, k) = MarkAlert(x, k)
  BY DEF Body
<1> HIDE DEF loop, v
<1>3. PICK b : States(loop, b, base, q, n) /\ b[n] = v
  BY <1>1
<1> DEFINE T == {i \in 0..n : AlertsOk(b[i], base, q, i)}
<1>4. 0 \in T
  <2>1. b[0] = base /\ 1..0 = {} /\ 0 \in 0..n
    BY <1>3 DEF States
  <2> QED BY <2>1 DEF AlertsOk
<1>5. ASSUME NEW i \in 0..(n - 1), i \in T PROVE i + 1 \in T
  <2>1. i \in Nat /\ i + 1 \in 1..n /\ (i + 1) - 1 = i /\ i + 1 \in 0..n
    OBVIOUS
  <2>2. b[i + 1] = Body(loop, b[(i + 1) - 1], q[i + 1])
    BY <1>3, <2>1 DEF States
  <2>3. b[i + 1] = MarkAlert(b[i], q[i + 1])
    BY <1>2, <2>1, <2>2
  <2> QED BY <1>5, <2>1, <2>3, MarkAlertOk
<1>6. T \in SUBSET (0..n)
  OBVIOUS
<1> HIDE DEF T
<1>7. n \in T
  BY <1>4, <1>5, <1>6, LoopInduction
<1>8. AlertsOk(v, base, q, n)
  BY <1>3, <1>7 DEF T
<1> QED BY <1>8 DEF v

(* The mark of a container, from the findings and the alerts it is given.   *)
MarkOf(findings, alerts, c) ==
    IF \E k \in alerts : k[1] = c /\ Severity(k) = "critical" THEN "critical"
    ELSE IF \E f \in findings : f[1] = c /\ f[2] = "critical" THEN "secCritical"
    ELSE IF \E k \in alerts : k[1] = c THEN "warning"
    ELSE IF \E f \in findings : f[1] = c THEN "secWarning" ELSE None

Findings == Containers \X SecuritySeverities

LEMMA MarksAreTheirs ==
    ASSUME NEW findings \in SUBSET Findings, NEW alerts \in SUBSET Key,
           NEW marks \in updateAlertMarks(findings, alerts)
    PROVE  \A c \in Containers : marks[c] = MarkOf(findings, alerts, c)
<1> DEFINE none == [c \in Containers |-> None]
           nf == Cardinality(findings)
           na == Cardinality(alerts)
<1>1. \E fs \in SetToSeqs(findings), as \in SetToSeqs(alerts) :
         marks = FoldLeft(MarkAlert, FoldLeft(MarkFinding, none, fs), as)
  BY DEF updateAlertMarks
<1>2. PICK fs \in SetToSeqs(findings), as \in SetToSeqs(alerts) :
         marks = FoldLeft(MarkAlert, FoldLeft(MarkFinding, none, fs), as)
  BY <1>1
<1>3. IsFiniteSet(findings) /\ IsFiniteSet(alerts)
  <2>1. IsFiniteSet(Findings)
    BY ContainersAssumption, PanelAssumption, FS_Product DEF Findings
  <2> QED BY <2>1, FS_Subset, KeySets
<1>4. /\ nf \in Nat /\ DOMAIN fs = 1..nf
      /\ \A i \in 1..nf : fs[i] \in findings
      /\ \A f \in findings : \E i \in 1..nf : fs[i] = f
  BY <1>2, <1>3, OrdersListAll
<1>5. /\ na \in Nat /\ DOMAIN as = 1..na
      /\ \A i \in 1..na : as[i] \in alerts
      /\ \A k \in alerts : \E i \in 1..na : as[i] = k
  BY ZenonT(40), <1>2, <1>3, OrdersListAll
<1>6. /\ \A i \in 1..nf : fs[i][1] \in Containers
      /\ \A i \in 1..na : as[i][1] \in Containers
  BY <1>4, <1>5 DEF Findings, Key
<1> DEFINE base == FoldLeft(MarkFinding, none, fs)
<1>7. FindingsOk(base, fs, nf)
  BY <1>4, <1>6, FindingMarks
<1>8. marks = FoldLeft(MarkAlert, base, as)
  BY <1>2
<1> HIDE DEF base, nf, na
<1>9. DOMAIN base = Containers /\ \A c \in Containers : base[c] \in {"secCritical", "secWarning", None}
  BY <1>7 DEF FindingsOk
<1>10. AlertsOk(marks, base, as, na)
  BY <1>5, <1>6, <1>8, <1>9, AlertMarks
<1>11. ASSUME NEW c \in Containers PROVE marks[c] = MarkOf(findings, alerts, c)
  <2> DEFINE Cf == \E f \in findings : f[1] = c /\ f[2] = "critical"
             Sf == \E f \in findings : f[1] = c
             Ca == \E k \in alerts : k[1] = c /\ Severity(k) = "critical"
             Sa == \E k \in alerts : k[1] = c
  <2>1. (Cf <=> \E j \in 1..nf : fs[j][1] = c /\ fs[j][2] = "critical")
        /\ (Sf <=> \E j \in 1..nf : fs[j][1] = c)
    BY <1>4
  <2>2. (Ca <=> \E j \in 1..na : as[j][1] = c /\ Severity(as[j]) = "critical")
        /\ (Sa <=> \E j \in 1..na : as[j][1] = c)
    BY <1>5
  <2> HIDE DEF Cf, Sf, Ca, Sa
  <2>3. base[c] = IF Cf THEN "secCritical" ELSE IF Sf THEN "secWarning" ELSE None
    BY <1>7, <2>1 DEF FindingsOk
  <2>4. marks[c] = IF Ca THEN "critical" ELSE IF base[c] = "secCritical" THEN "secCritical"
                   ELSE IF Sa THEN "warning" ELSE base[c]
    BY <1>10, <2>2 DEF AlertsOk
  <2>5. MarkOf(findings, alerts, c) = IF Ca THEN "critical" ELSE IF Cf THEN "secCritical"
                   ELSE IF Sa THEN "warning" ELSE IF Sf THEN "secWarning" ELSE None
    BY DEF MarkOf, Cf, Sf, Ca, Sa
  <2>6. base[c] = "secCritical" <=> Cf
    BY <2>3, PanelAssumption
  <2>7. CASE Ca
    BY <2>4, <2>5, <2>7
  <2>8. CASE ~Ca /\ Cf
    BY <2>4, <2>5, <2>6, <2>8
  <2>9. CASE ~Ca /\ ~Cf
    BY <2>3, <2>4, <2>5, <2>6, <2>9
  <2> QED BY <2>7, <2>8, <2>9
<1> QED BY <1>11

(* Marks of the alerts shown are marks of all active alerts: the worst one  *)
(* of a container is among those shown.                                     *)
LEMMA ShownMarkAll ==
    ASSUME NEW ks, NEW shown, Worst(shown, ks), NEW findings, NEW c
    PROVE  MarkOf(findings, shown, c) = MarkOf(findings, ks, c)
<1>1. ASSUME NEW k \in ks
      PROVE  \E s \in shown : s[1] = k[1] /\ Weight(s) >= Weight(k)
  <2> DEFINE group == {s \in shown : Group(s) = Group(k)}
  <2>1. group # {}
    <3>1. Cardinality(group) = 1
      BY DEF Worst
    <3>2. Cardinality({}) = 0
      BY FS_EmptySet
    <3> HIDE DEF group
    <3> QED BY <3>1, <3>2
  <2>2. PICK s \in shown : Group(s) = Group(k)
    BY <2>1
  <2>3. s[1] = k[1]
    BY <2>2 DEF Group
  <2> QED BY <2>2, <2>3 DEF Worst
<1>2. \A k : Severity(k) = "critical" <=> Weight(k) >= 3
  BY DEF Weight, severityWeight
<1>3. shown \subseteq ks
  BY DEF Worst
<1>4. (\E k \in ks : k[1] = c /\ Severity(k) = "critical")
         <=> (\E k \in shown : k[1] = c /\ Severity(k) = "critical")
  <2>1. ASSUME NEW k \in ks, k[1] = c, Severity(k) = "critical"
        PROVE  \E s \in shown : s[1] = c /\ Severity(s) = "critical"
    <3>1. PICK s \in shown : s[1] = k[1] /\ Weight(s) >= Weight(k)
      BY <1>1
    <3>2. Weight(k) >= 3 /\ Weight(k) \in Nat /\ Weight(s) \in Nat
      BY <1>2, <2>1, WeightType
    <3>3. Weight(s) >= 3
      BY <3>1, <3>2
    <3> QED BY <1>2, <2>1, <3>1, <3>3
  <2> QED BY <1>3, <2>1
<1>5. (\E k \in ks : k[1] = c) <=> (\E k \in shown : k[1] = c)
  BY <1>1, <1>3
<1> QED BY <1>4, <1>5 DEF MarkOf

LEMMA WorstMarkIs ==
    \A c \in Containers : WorstMark(c) = MarkOf(securityAlerts, Active, c)
<1> TAKE c \in Containers
<1> DEFINE as == {Severity(k) : k \in {a \in Active : a[1] = c}}
           fs == {f[2] : f \in {s \in securityAlerts : s[1] = c}}
<1>1. /\ (\E k \in Active : k[1] = c /\ Severity(k) = "critical") <=> "critical" \in as
      /\ (\E k \in Active : k[1] = c) <=> as # {}
  OBVIOUS
<1>2. /\ (\E f \in securityAlerts : f[1] = c /\ f[2] = "critical") <=> "critical" \in fs
      /\ (\E f \in securityAlerts : f[1] = c) <=> fs # {}
  OBVIOUS
<1>3. WorstMark(c) =
        CASE "critical" \in as -> "critical"
          [] "critical" \notin as /\ "critical" \in fs -> "secCritical"
          [] "critical" \notin as \cup fs /\ as # {} -> "warning"
          [] as = {} /\ fs # {} /\ "critical" \notin fs -> "secWarning"
          [] OTHER -> None
  BY DEF WorstMark
<1> HIDE DEF as, fs
<1>4. MarkOf(securityAlerts, Active, c) =
        IF "critical" \in as THEN "critical" ELSE IF "critical" \in fs THEN "secCritical"
        ELSE IF as # {} THEN "warning" ELSE IF fs # {} THEN "secWarning" ELSE None
  BY <1>1, <1>2 DEF MarkOf
<1>5. CASE "critical" \in as
  BY <1>3, <1>4, <1>5
<1>6. CASE "critical" \notin as /\ "critical" \in fs
  BY <1>3, <1>4, <1>6
<1>7. CASE "critical" \notin as /\ "critical" \notin fs /\ as # {}
  BY <1>3, <1>4, <1>7
<1>8. CASE "critical" \notin as /\ "critical" \notin fs /\ as = {} /\ fs # {}
  BY <1>3, <1>4, <1>8
<1>9. CASE as = {} /\ fs = {}
  BY <1>3, <1>4, <1>9
<1> QED BY <1>5, <1>6, <1>7, <1>8, <1>9

-----------------------------------------------------------------------------
(* The invariant of the panel.                                              *)
PanelInv ==
    /\ securityAlerts \in SUBSET Findings
    /\ ShownAlertsAreTheWorst
    /\ MarksShowTheWorst

LEMMA ShownIsWorst == ShownAlertsAreTheWorst <=> Worst(shownAlerts, Active)
BY DEF ShownAlertsAreTheWorst, Worst, Weight

LEMMA PanelInitInv == PanelInit => PanelInv
<1> SUFFICES ASSUME PanelInit PROVE PanelInv
  OBVIOUS
<1>1. Active = {} /\ shownAlerts = {} /\ securityAlerts = {}
  BY DEF PanelInit, Init, Active
<1>2. \A c \in Containers : WorstMark(c) = None
  BY <1>1, WorstMarkIs DEF MarkOf
<1>3. \A c \in Containers : alertMarks[c] = None
  BY DEF PanelInit
<1> QED BY <1>1, <1>2, <1>3 DEF PanelInv, ShownAlertsAreTheWorst, MarksShowTheWorst

(* New marks, of the alerts shown and the findings, in any state.           *)
LEMMA NewMarks ==
    ASSUME securityAlerts' \in SUBSET Findings, Worst(shownAlerts', Active'),
           alertMarks' \in updateAlertMarks(securityAlerts', shownAlerts')
    PROVE  MarksShowTheWorst'
<1>1. Active' \subseteq Key /\ shownAlerts' \in SUBSET Key
  BY DEF Active, Worst
<1>2. \A c \in Containers : alertMarks'[c] = MarkOf(securityAlerts', shownAlerts', c)
  BY <1>1, MarksAreTheirs
<1>3. \A c \in Containers :
         MarkOf(securityAlerts', shownAlerts', c) = MarkOf(securityAlerts', Active', c)
  BY ShownMarkAll
<1>4. (\A c \in Containers : WorstMark(c) = MarkOf(securityAlerts, Active, c))'
  BY WorstMarkIs, PTL
<1>5. \A c \in Containers : WorstMark(c)' = MarkOf(securityAlerts', Active', c)
  BY <1>4
<1> QED BY <1>2, <1>3, <1>5 DEF MarksShowTheWorst

LEMMA StatsPanel == ASSUME PanelInv, NEW st, handleStatsMsg(st) PROVE PanelInv'
<1>1. /\ securityAlerts' = securityAlerts /\ securityAlerts \in SUBSET Findings
      /\ shownAlerts' \in GetActiveAlerts(Active')
      /\ alertMarks' \in updateAlertMarks(securityAlerts', shownAlerts')
  BY DEF handleStatsMsg, PanelInv
<1>2. Active' \in SUBSET Key
  BY DEF Active
<1>3. Worst(shownAlerts', Active')
  BY <1>1, <1>2, ShownAreWorst
<1>4. MarksShowTheWorst'
  BY <1>1, <1>3, NewMarks
<1>5. ShownAlertsAreTheWorst'
  BY <1>3 DEF ShownAlertsAreTheWorst, Worst, Weight
<1> QED BY <1>1, <1>4, <1>5 DEF PanelInv

LEMMA SecurityPanel ==
    ASSUME PanelInv, NEW findings \in SUBSET Findings, processSecurityAlerts(findings)
    PROVE  PanelInv'
<1>1. /\ securityAlerts' = findings /\ UNCHANGED <<activeAlerts, shownAlerts>>
      /\ alertMarks' \in updateAlertMarks(securityAlerts', shownAlerts')
  BY DEF processSecurityAlerts, vars
<1>2. Active' = Active
  BY <1>1 DEF Active
<1>3. Worst(shownAlerts', Active')
  BY <1>1, <1>2, ShownIsWorst DEF PanelInv
<1>4. MarksShowTheWorst'
  BY <1>1, <1>3, NewMarks
<1>5. ShownAlertsAreTheWorst'
  BY <1>3 DEF ShownAlertsAreTheWorst, Worst, Weight
<1> QED BY <1>1, <1>4, <1>5 DEF PanelInv

LEMMA QuietPanel ==
    ASSUME PanelInv, UNCHANGED <<activeAlerts, shownAlerts, securityAlerts, alertMarks>>
    PROVE  PanelInv'
BY DEF PanelInv, ShownAlertsAreTheWorst, MarksShowTheWorst, WorstMark, Active

LEMMA PanelStep == PanelInv /\ [PanelNext]_<<vars, panel>> => PanelInv'
<1> SUFFICES ASSUME PanelInv, [PanelNext]_<<vars, panel>> PROVE PanelInv'
  OBVIOUS
<1>1. CASE Tick /\ UNCHANGED panel
  BY <1>1, QuietPanel DEF Tick, panel
<1>2. CASE \E st \in Stats : handleStatsMsg(st)
  BY <1>2, StatsPanel
<1>3. CASE \E findings \in SUBSET (Containers \X SecuritySeverities) :
              processSecurityAlerts(findings)
  BY <1>3, SecurityPanel DEF Findings
<1>4. CASE UNCHANGED <<vars, panel>>
  BY <1>4, QuietPanel DEF vars, panel
<1> QED BY <1>1, <1>2, <1>3, <1>4 DEF PanelNext

(* The panel shows one alert of each container and metric that has an       *)
(* active one, and the most severe, whatever order Go iterates the map in   *)
(* (GetActiveAlerts).                                                       *)
THEOREM ShownWorst == PanelSpec => []ShownAlertsAreTheWorst
<1>1. PanelInv => ShownAlertsAreTheWorst
  BY DEF PanelInv
<1> QED BY <1>1, PanelInitInv, PanelStep, PTL DEF PanelSpec

(* The mark beside a container is the mark of the worst of its active       *)
(* alerts and findings, in every iteration order, after either handler      *)
(* (updateAlertMarks).                                                      *)
THEOREM MarksWorst == PanelSpec => []MarksShowTheWorst
<1>1. PanelInv => MarksShowTheWorst
  BY DEF PanelInv
<1> QED BY <1>1, PanelInitInv, PanelStep, PTL DEF PanelSpec

=============================================================================
