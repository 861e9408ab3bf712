----------------------------- MODULE AgentProofs -----------------------------
(***************************************************************************)
(* Where the agent's configuration comes from, for any file and any        *)
(* environment, and what a scrape of its metrics shows, for any            *)
(* containers, hosts, number of vectors and time after which a host counts *)
(* as silent.                                                              *)
(***************************************************************************)
EXTENDS Agent, TLAPS

Labels == {"unknown", "own"} \cup Hosts
Series == Labels \X (Locals \cup {"remote"})

AgentType ==
    agent \in [state: {"starting", "running", "stopped"}, receiver: BOOLEAN,
               exporting: BOOLEAN, hostID: {"", "own"}]

ExporterType ==
    /\ vec \in [Vecs -> SUBSET Series]
    /\ there \in SUBSET Locals
    /\ coll \in [pc: {"idle", "stats", "reset", "merge", "fill"}, list: SUBSET Locals,
                 stats: SUBSET Locals, all: SUBSET Series, todo: SUBSET Series, g: Vecs]
    /\ scrape \in [on: BOOLEAN, got: UNION {[S -> SUBSET Series] : S \in SUBSET Vecs},
                   known: SUBSET Series, disturbed: BOOLEAN]

TypeInv == AgentType /\ ExporterType

\* Nothing in the vectors is older than the collection that is known as the
\* last one: its series are emptied before the next one's are merged.
VecsAreCurrent ==
    /\ \A h \in Vecs : vec[h] \subseteq coll.all
    /\ coll.pc \in {"idle", "stats", "merge"} => coll.g = 1
    /\ coll.pc = "reset" => \A h \in Vecs : h < coll.g => vec[h] = {}
    /\ coll.pc = "merge" => \A h \in Vecs : vec[h] = {}
    /\ coll.todo \subseteq coll.all

\* A scrape under way knows the series of the last collection.
ScrapeKnows == scrape.on => coll.all \subseteq scrape.known

GhostInv == TypeInv /\ VecsAreCurrent /\ ScrapeKnows /\ ScrapesShowNoGhosts

-----------------------------------------------------------------------------
LEMMA VecsExist == 1 \in Vecs /\ NumVecs \in Vecs /\ Vecs \subseteq Nat
BY ExporterAssumption DEF Vecs

LEMMA NoReadsType ==
    /\ NoReads \in UNION {[S -> SUBSET Series] : S \in SUBSET Vecs}
    /\ DOMAIN NoReads = {}
<1>1. NoReads \in [{} -> SUBSET Series]
  BY DEF NoReads
<1>2. {} \in SUBSET Vecs
  OBVIOUS
<1> QED BY <1>1, <1>2 DEF NoReads

LEMMA InitGhost == Init => GhostInv
<1> SUFFICES ASSUME Init PROVE GhostInv
  OBVIOUS
<1> USE DEF Init
<1>1. AgentType
  BY DEF AgentType, Starting
<1>2. ExporterType
  BY VecsExist, NoReadsType DEF ExporterInit, ExporterType, NoCollection, NoScrape
<1>3. VecsAreCurrent /\ ScrapeKnows
  BY DEF ExporterInit, NoCollection, NoScrape, VecsAreCurrent, ScrapeKnows
<1>4. ScrapesShowNoGhosts
  BY NoReadsType DEF ExporterInit, NoScrape, ScrapesShowNoGhosts
<1> QED BY <1>1, <1>2, <1>3, <1>4 DEF GhostInv, TypeInv

-----------------------------------------------------------------------------
\* Types: what each step writes.
LEMMA GetAllMetricsType == GetAllMetrics \in SUBSET Series
BY DEF GetAllMetrics, Series, Labels

LEMMA StartType == ASSUME TypeInv, Start PROVE TypeInv'
<1>1. AgentType'
  BY DEF Start, Running, AgentType
<1>2. ExporterType'
  BY DEF Start, TypeInv, ExporterType
<1> QED BY <1>1, <1>2 DEF TypeInv

LEMMA ExitType == ASSUME Exit PROVE TypeInv'
<1>1. AgentType'
  BY DEF Exit, Starting, AgentType
<1>2. ExporterType'
  BY VecsExist, NoReadsType DEF Exit, ExporterType, NoCollection, NoScrape
<1> QED BY <1>1, <1>2 DEF TypeInv

LEMMA CollectType == ASSUME TypeInv, Collect, UNCHANGED agent PROVE TypeInv'
<1> USE DEF TypeInv
<1>0. AgentType'
  BY DEF AgentType
<1>1. CASE CollectList
  BY <1>0, <1>1, VecsExist DEF CollectList, ExporterType, NoCollection
<1>2. ASSUME NEW failing \in SUBSET Locals, CollectStats(failing) PROVE TypeInv'
  BY <1>0, <1>2 DEF CollectStats, ExporterType
<1>3. CASE Reset
  <2>1. coll' \in [pc: {"idle", "stats", "reset", "merge", "fill"}, list: SUBSET Locals,
                   stats: SUBSET Locals, all: SUBSET Series, todo: SUBSET Series, g: Vecs]
    <3>1. coll.g # NumVecs => coll.g + 1 \in Vecs
      BY ExporterAssumption DEF ExporterType, Vecs
    <3> QED BY <1>3, <3>1, VecsExist DEF Reset, ExporterType
  <2>2. vec' \in [Vecs -> SUBSET Series]
    BY <1>3 DEF Reset, Emptied, ExporterType
  <2> QED BY <1>0, <1>3, <2>1, <2>2 DEF Reset, Disturbed, ExporterType
<1>4. CASE Merge(agent.hostID, agent.receiver)
  <2> DEFINE all == {<<HostLabel(agent.hostID), c>> : c \in coll.stats} \cup
                    IF agent.receiver THEN GetAllMetrics ELSE {}
  <2>1. HostLabel(agent.hostID) \in Labels
    BY DEF HostLabel, AgentType, Labels
  <2>2. all \in SUBSET Series
    BY <2>1, GetAllMetricsType DEF ExporterType, Series
  <2> QED BY <1>0, <1>4, <2>2 DEF Merge, ExporterType
<1>5. ASSUME NEW x \in coll.todo, Set(x) PROVE TypeInv'
  <2>1. coll.g # NumVecs => coll.g + 1 \in Vecs
    BY ExporterAssumption DEF ExporterType, Vecs
  <2>2. coll' \in [pc: {"idle", "stats", "reset", "merge", "fill"}, list: SUBSET Locals,
                   stats: SUBSET Locals, all: SUBSET Series, todo: SUBSET Series, g: Vecs]
    BY <1>5, <2>1, VecsExist DEF Set, AfterSet, ExporterType
  <2>3. vec' \in [Vecs -> SUBSET Series]
    BY <1>5 DEF Set, ExporterType
  <2> QED BY <1>0, <1>5, <2>2, <2>3 DEF Set, Disturbed, ExporterType
<1>6. CASE SaveStats
  BY <1>0, <1>6, VecsExist DEF SaveStats, ExporterType, NoCollection
<1> QED BY <1>1, <1>2, <1>3, <1>4, <1>5, <1>6 DEF Collect

LEMMA ScrapeType == ASSUME TypeInv, Scrape, UNCHANGED agent PROVE TypeInv'
<1> USE DEF TypeInv
<1>0. AgentType'
  BY DEF AgentType
<1>1. CASE ScrapeBegin
  BY <1>0, <1>1, NoReadsType DEF ScrapeBegin, ExporterType, Writing
<1>2. ASSUME NEW h \in Vecs, ScrapeRead(h) PROVE TypeInv'
  <2> DEFINE got == [x \in DOMAIN scrape.got \cup {h} |-> IF x = h THEN vec[h] ELSE scrape.got[x]]
  <2>1. PICK S \in SUBSET Vecs : scrape.got \in [S -> SUBSET Series]
    BY DEF ExporterType
  <2>2. got \in [S \cup {h} -> SUBSET Series]
    BY <2>1 DEF ExporterType
  <2>3. got \in UNION {[T -> SUBSET Series] : T \in SUBSET Vecs}
    BY <2>2
  <2> QED BY <1>0, <1>2, <2>3 DEF ScrapeRead, ExporterType
<1>3. CASE ScrapeEnd
  BY <1>0, <1>3, NoReadsType DEF ScrapeEnd, ExporterType, NoScrape
<1> QED BY <1>1, <1>2, <1>3 DEF Scrape

LEMMA StepType == ASSUME TypeInv, [Next]_avars PROVE TypeInv'
<1>1. CASE LoadConfig
  BY <1>1 DEF LoadConfig, expo, TypeInv, AgentType, ExporterType
<1>2. CASE NoDocker
  BY <1>2 DEF NoDocker, expo, Starting, TypeInv, AgentType, ExporterType
<1>3. CASE Start
  BY <1>3, StartType
<1>4. CASE Exit
  BY <1>4, ExitType
<1>5. CASE ExporterStep
  <2>1. CASE Collect
    BY <1>5, <2>1, CollectType DEF ExporterStep
  <2>2. CASE Scrape
    BY <1>5, <2>2, ScrapeType DEF ExporterStep
  <2>3. CASE Around
    BY <1>5, <2>3 DEF ExporterStep, Around, ContainersChange, Report, TimePasses, TypeInv,
                      AgentType, ExporterType
  <2> QED BY <1>5, <2>1, <2>2, <2>3 DEF ExporterStep
<1>6. CASE UNCHANGED avars
  BY <1>6 DEF avars, expo, TypeInv, AgentType, ExporterType
<1> QED BY <1>1, <1>2, <1>3, <1>4, <1>5, <1>6 DEF Next

-----------------------------------------------------------------------------
\* Ghosts: no step leaves an old series where a scrape can find it.
GhostParts == VecsAreCurrent /\ ScrapeKnows /\ ScrapesShowNoGhosts

LEMMA CollectGhost == ASSUME GhostInv, Collect PROVE GhostParts'
<1> USE DEF GhostInv, GhostParts, TypeInv
<1>1. CASE CollectList
  BY <1>1, VecsExist DEF CollectList, ExporterType, NoCollection, VecsAreCurrent, ScrapeKnows,
                         ScrapesShowNoGhosts
<1>2. ASSUME NEW failing \in SUBSET Locals, CollectStats(failing) PROVE GhostParts'
  <2>1. VecsAreCurrent'
    <3>1. \A h \in Vecs : ~(h < 1)
      BY DEF Vecs
    <3> QED BY <1>2, <3>1 DEF CollectStats, ExporterType, VecsAreCurrent
  <2>2. ScrapeKnows' /\ ScrapesShowNoGhosts'
    BY <1>2 DEF CollectStats, ExporterType, ScrapeKnows, ScrapesShowNoGhosts
  <2> QED BY <2>1, <2>2
<1>3. CASE Reset
  <2>1. scrape'.got = scrape.got /\ scrape'.known = scrape.known /\ scrape'.on = scrape.on
    BY <1>3 DEF Reset, Disturbed, ExporterType
  <2>2. coll'.all = coll.all /\ coll'.todo = coll.todo
    BY <1>3 DEF Reset, ExporterType
  <2>3. ScrapeKnows' /\ ScrapesShowNoGhosts'
    BY <2>1, <2>2 DEF ScrapeKnows, ScrapesShowNoGhosts
  <2>4. \A h \in Vecs : vec'[h] = IF h = coll.g THEN {} ELSE vec[h]
    BY <1>3 DEF Reset, Emptied, ExporterType
  <2>5. CASE coll.g = NumVecs
    <3>1. coll'.pc = "merge" /\ coll'.g = 1
      BY <1>3, <2>5 DEF Reset, ExporterType
    <3>2. \A h \in Vecs : h < coll.g \/ h = coll.g
      BY <2>5, ExporterAssumption DEF Vecs
    <3> QED BY <1>3, <2>2, <2>3, <2>4, <3>1, <3>2 DEF Reset, VecsAreCurrent
  <2>6. CASE coll.g # NumVecs
    <3>1. coll'.pc = "reset" /\ coll'.g = coll.g + 1
      BY <1>3, <2>6 DEF Reset, ExporterType
    <3>2. \A h \in Vecs : h < coll.g + 1 => h < coll.g \/ h = coll.g
      <4>1. coll.g \in Nat
        BY VecsExist DEF ExporterType
      <4>2. \A h, g \in Nat : h < g + 1 => h < g \/ h = g
        OBVIOUS
      <4> QED BY <4>1, <4>2, VecsExist
    <3> QED BY <1>3, <2>2, <2>3, <2>4, <3>1, <3>2 DEF Reset, VecsAreCurrent
  <2> QED BY <2>5, <2>6
<1>4. CASE Merge(agent.hostID, agent.receiver)
  <2>1. coll'.pc = "fill" /\ coll'.todo = coll'.all /\ vec' = vec /\ coll.pc = "merge"
    BY <1>4 DEF Merge, ExporterType
  <2>2. /\ scrape'.got = scrape.got /\ scrape'.on = scrape.on
        /\ scrape.known \subseteq scrape'.known
        /\ scrape.on => coll'.all \subseteq scrape'.known
    BY <1>4 DEF Merge, ExporterType
  <2>3. VecsAreCurrent'
    BY <2>1 DEF VecsAreCurrent
  <2>4. ScrapeKnows' /\ ScrapesShowNoGhosts'
    BY <2>2 DEF ScrapeKnows, ScrapesShowNoGhosts
  <2> QED BY <2>3, <2>4
<1>5. ASSUME NEW x \in coll.todo, Set(x) PROVE GhostParts'
  <2>1. scrape'.got = scrape.got /\ scrape'.known = scrape.known /\ scrape'.on = scrape.on
    BY <1>5 DEF Set, Disturbed, ExporterType
  <2>2. coll'.all = coll.all /\ coll'.todo \subseteq coll.todo /\ coll'.pc = "fill"
    BY <1>5 DEF Set, AfterSet, ExporterType
  <2>3. \A h \in Vecs : vec'[h] \subseteq vec[h] \cup {x}
    BY <1>5 DEF Set, ExporterType
  <2>4. VecsAreCurrent'
    BY <2>2, <2>3 DEF VecsAreCurrent
  <2>5. ScrapeKnows' /\ ScrapesShowNoGhosts'
    BY <2>1, <2>2 DEF ScrapeKnows, ScrapesShowNoGhosts
  <2> QED BY <2>4, <2>5
<1>6. CASE SaveStats
  BY <1>6 DEF SaveStats, ExporterType, NoCollection, VecsAreCurrent, ScrapeKnows,
              ScrapesShowNoGhosts
<1> QED BY <1>1, <1>2, <1>3, <1>4, <1>5, <1>6 DEF Collect

LEMMA ScrapeGhost == ASSUME GhostInv, Scrape PROVE GhostParts'
<1> USE DEF GhostInv, GhostParts, TypeInv
<1>0. VecsAreCurrent'
  BY DEF Scrape, ScrapeBegin, ScrapeRead, ScrapeEnd, VecsAreCurrent
<1>1. CASE ScrapeBegin
  <2>1. scrape'.got = NoReads /\ scrape'.known = coll.all /\ coll' = coll
    BY <1>1 DEF ScrapeBegin
  <2> QED BY <1>0, <2>1, NoReadsType DEF ScrapeKnows, ScrapesShowNoGhosts
<1>2. ASSUME NEW h \in Vecs, ScrapeRead(h) PROVE GhostParts'
  <2>1. /\ DOMAIN scrape'.got = DOMAIN scrape.got \cup {h}
        /\ \A x \in DOMAIN scrape'.got :
              scrape'.got[x] = IF x = h THEN vec[h] ELSE scrape.got[x]
        /\ scrape'.known = scrape.known /\ scrape'.on = scrape.on /\ scrape.on
        /\ coll' = coll
    BY <1>2 DEF ScrapeRead, ExporterType
  <2>2. vec[h] \subseteq scrape.known
    BY <2>1 DEF VecsAreCurrent, ScrapeKnows
  <2> QED BY <1>0, <2>1, <2>2 DEF ScrapeKnows, ScrapesShowNoGhosts
<1>3. CASE ScrapeEnd
  BY <1>0, <1>3, NoReadsType DEF ScrapeEnd, NoScrape, ScrapeKnows, ScrapesShowNoGhosts
<1> QED BY <1>1, <1>2, <1>3 DEF Scrape

LEMMA ExitGhost == ASSUME Exit PROVE GhostParts'
<1>1. VecsAreCurrent' /\ ScrapeKnows'
  BY DEF Exit, NoCollection, NoScrape, VecsAreCurrent, ScrapeKnows
<1>2. ScrapesShowNoGhosts'
  BY NoReadsType DEF Exit, NoScrape, ScrapesShowNoGhosts
<1> QED BY <1>1, <1>2 DEF GhostParts

\* The steps of the configuration, of the daemon and of the workers leave
\* the exporter's own variables alone.
LEMMA OtherStepsLeaveExporter ==
    ASSUME [Next]_avars, ~Exit, ~(ExporterStep /\ (Collect \/ Scrape))
    PROVE  UNCHANGED <<vec, coll, scrape>>
BY DEF Next, LoadConfig, NoDocker, Start, ExporterStep, Around, ContainersChange, Report,
       TimePasses, expo, avars

LEMMA StepGhost == ASSUME GhostInv, [Next]_avars PROVE GhostInv'
<1>1. TypeInv'
  BY StepType DEF GhostInv
<1>2. GhostParts'
  <2>1. CASE Exit
    BY <2>1, ExitGhost
  <2>2. CASE ExporterStep /\ (Collect \/ Scrape)
    BY <2>2, CollectGhost, ScrapeGhost
  <2>3. CASE ~Exit /\ ~(ExporterStep /\ (Collect \/ Scrape))
    BY <2>3, OtherStepsLeaveExporter
       DEF GhostInv, GhostParts, VecsAreCurrent, ScrapeKnows, ScrapesShowNoGhosts
  <2> QED BY <2>1, <2>2, <2>3
<1> QED BY <1>1, <1>2 DEF GhostInv, GhostParts

\* prometheus.go, collect: whatever collections, failures and reports a scrape
\* overlaps, it shows no series that was gone before the last collection it
\* could have seen.
THEOREM NoGhosts == Spec => []ScrapesShowNoGhosts
<1>1. GhostInv => ScrapesShowNoGhosts
  BY DEF GhostInv
<1> QED BY <1>1, InitGhost, StepGhost, PTL DEF Spec

-----------------------------------------------------------------------------
\* Wholeness.  Between two collections, and until the next one empties its
\* first vector, every vector has every series.
Settled == coll.pc \in {"idle", "stats"} \/ (coll.pc = "reset" /\ coll.g = 1)
SettledIsWhole == Settled => \A h \in Vecs : vec[h] = coll.all

\* While the vectors are filled each one has what is done, and the ones
\* before the next one the series under way as well.
FilledBy(x) ==
    \A h \in Vecs : vec[h] = (coll.all \ coll.todo) \cup (IF h < coll.g THEN {x} ELSE {})
FillIsEven ==
    coll.pc = "fill" =>
        IF coll.g = 1 THEN \A h \in Vecs : vec[h] = coll.all \ coll.todo
        ELSE \E x \in coll.todo : FilledBy(x)

\* A scrape is undisturbed only as long as no vector has been written.
UndisturbedIsSettled ==
    scrape.on /\ ~scrape.disturbed => Settled /\ scrape.known = coll.all

WholeParts == SettledIsWhole /\ FillIsEven /\ UndisturbedIsSettled /\ UndisturbedScrapesAreWhole
WholeInv == GhostInv /\ WholeParts

LEMMA InitWhole == Init => WholeInv
<1> SUFFICES ASSUME Init PROVE WholeInv
  OBVIOUS
<1>1. SettledIsWhole /\ FillIsEven
  BY DEF Init, ExporterInit, NoCollection, SettledIsWhole, FillIsEven
<1>2. UndisturbedIsSettled /\ UndisturbedScrapesAreWhole
  BY DEF Init, ExporterInit, NoScrape, UndisturbedIsSettled, UndisturbedScrapesAreWhole
<1> QED BY <1>1, <1>2, InitGhost DEF WholeInv, WholeParts

\* Emptying a vector disturbs the scrape under way.
LEMMA ResetWhole == ASSUME WholeInv, Reset PROVE WholeParts'
<1> USE DEF WholeInv, WholeParts, GhostInv, TypeInv
<1>1. ~(scrape'.on /\ ~scrape'.disturbed)
  BY DEF Reset, Disturbed, ExporterType
<1>2. UndisturbedIsSettled' /\ UndisturbedScrapesAreWhole'
  BY <1>1 DEF UndisturbedIsSettled, UndisturbedScrapesAreWhole
<1>3. coll.g # NumVecs => coll.g + 1 # 1
  BY ExporterAssumption DEF ExporterType, Vecs
<1>4. ~Settled' /\ coll'.pc # "fill"
  BY <1>3 DEF Reset, Settled, ExporterType
<1> QED BY <1>2, <1>4 DEF SettledIsWhole, FillIsEven

LEMMA MergeWhole ==
    ASSUME WholeInv, Merge(agent.hostID, agent.receiver) PROVE WholeParts'
<1> USE DEF WholeInv, WholeParts, GhostInv, TypeInv
<1>1. /\ coll.pc = "merge" /\ coll'.pc = "fill" /\ coll'.g = coll.g
      /\ coll'.todo = coll'.all /\ vec' = vec
      /\ scrape'.on = scrape.on /\ scrape'.disturbed = scrape.disturbed
  BY DEF Merge, ExporterType
<1>2. ~(scrape'.on /\ ~scrape'.disturbed)
  BY <1>1 DEF UndisturbedIsSettled, Settled
<1>3. FillIsEven'
  BY <1>1 DEF FillIsEven, VecsAreCurrent
<1>4. SettledIsWhole'
  BY <1>1 DEF SettledIsWhole, Settled
<1> QED BY <1>2, <1>3, <1>4 DEF UndisturbedIsSettled, UndisturbedScrapesAreWhole

\* Set writes the series under way, or begins the next one, and when the last
\* vector has it moves on.
LEMMA SetWhole == ASSUME WholeInv, NEW x \in coll.todo, Set(x) PROVE WholeParts'
<1> USE DEF WholeInv, WholeParts, GhostInv, TypeInv
<1>1. ~(scrape'.on /\ ~scrape'.disturbed)
  BY DEF Set, Disturbed, ExporterType
<1>2. coll'.pc = "fill" /\ coll'.all = coll.all /\ coll.pc = "fill"
  BY DEF Set, AfterSet, ExporterType
<1>3. \A h \in Vecs : vec'[h] = IF h = coll.g THEN vec[h] \cup {x} ELSE vec[h]
  BY DEF Set, ExporterType
<1>4. FilledBy(x)
  <2>1. CASE coll.g = 1
    <3>1. \A h \in Vecs : ~(h < coll.g)
      BY <2>1 DEF Vecs
    <3> QED BY <2>1, <3>1, <1>2 DEF FillIsEven, FilledBy
  <2>2. CASE coll.g # 1
    <3>1. PICK y \in coll.todo : FilledBy(y)
      BY <2>2, <1>2 DEF FillIsEven
    <3>2. coll.g - 1 \in Vecs /\ coll.g - 1 < coll.g /\ coll.g > 1
      BY <2>2, ExporterAssumption DEF ExporterType, Vecs
    <3>3. x \in vec[coll.g - 1]
      BY <3>2 DEF Set
    <3>4. x = y
      BY <3>1, <3>2, <3>3 DEF FilledBy
    <3> QED BY <3>1, <3>4
  <2> QED BY <2>1, <2>2
<1>5. FillIsEven'
  <2>1. CASE coll.g = NumVecs
    <3>1. coll'.g = 1 /\ coll'.todo = coll.todo \ {x}
      BY <2>1 DEF Set, AfterSet, ExporterType
    <3>2. \A h \in Vecs : h < coll.g \/ h = coll.g
      BY <2>1, ExporterAssumption DEF Vecs
    <3>3. \A h \in Vecs : vec'[h] = (coll.all \ coll.todo) \cup {x}
      BY <1>3, <1>4, <3>2 DEF FilledBy
    <3>4. (coll.all \ coll.todo) \cup {x} = coll.all \ (coll.todo \ {x})
      BY DEF VecsAreCurrent
    <3> QED BY <1>2, <3>1, <3>3, <3>4 DEF FillIsEven
  <2>2. CASE coll.g # NumVecs
    <3>1. coll'.g = coll.g + 1 /\ coll'.todo = coll.todo
      BY <2>2 DEF Set, AfterSet, ExporterType
    <3>2. coll.g \in Nat /\ coll.g + 1 # 1
      BY <2>2, ExporterAssumption DEF ExporterType, Vecs
    <3>3. \A h \in Vecs : h < coll.g + 1 <=> h < coll.g \/ h = coll.g
      <4>1. \A h, g \in Nat : h < g + 1 <=> h < g \/ h = g
        OBVIOUS
      <4> QED BY <4>1, <3>2, VecsExist
    <3>4. FilledBy(x)'
      BY <1>2, <1>3, <1>4, <3>1, <3>3 DEF FilledBy
    <3> QED BY <3>1, <3>2, <3>4 DEF FillIsEven
  <2> QED BY <2>1, <2>2
<1>6. SettledIsWhole'
  BY <1>2 DEF SettledIsWhole, Settled
<1> QED BY <1>1, <1>5, <1>6 DEF UndisturbedIsSettled, UndisturbedScrapesAreWhole

LEMMA CollectWhole == ASSUME WholeInv, Collect PROVE WholeParts'
<1> USE DEF WholeInv, WholeParts, GhostInv, TypeInv
<1>1. CASE CollectList
  <2>1. /\ coll.pc = "idle" /\ coll'.pc = "stats" /\ coll'.all = coll.all
        /\ vec' = vec /\ scrape' = scrape
    BY <1>1 DEF CollectList, NoCollection
  <2> QED BY <2>1 DEF SettledIsWhole, Settled, FillIsEven, UndisturbedIsSettled,
                      UndisturbedScrapesAreWhole
<1>2. ASSUME NEW failing \in SUBSET Locals, CollectStats(failing) PROVE WholeParts'
  <2>1. /\ coll.pc = "stats" /\ coll'.pc = "reset" /\ coll'.g = 1 /\ coll'.all = coll.all
        /\ vec' = vec /\ scrape' = scrape
    BY <1>2 DEF CollectStats, ExporterType, VecsAreCurrent
  <2> QED BY <2>1 DEF SettledIsWhole, Settled, FillIsEven, UndisturbedIsSettled,
                      UndisturbedScrapesAreWhole
<1>3. CASE Reset
  BY <1>3, ResetWhole
<1>4. CASE Merge(agent.hostID, agent.receiver)
  BY <1>4, MergeWhole
<1>5. ASSUME NEW x \in coll.todo, Set(x) PROVE WholeParts'
  BY <1>5, SetWhole
<1>6. CASE SaveStats
  <2>1. /\ coll.pc = "fill" /\ coll.todo = {} /\ coll'.pc = "idle" /\ coll'.all = coll.all
        /\ vec' = vec /\ scrape' = scrape
    BY <1>6 DEF SaveStats, NoCollection
  <2>2. \A h \in Vecs : vec[h] = coll.all
    BY <2>1 DEF FillIsEven
  <2> QED BY <2>1, <2>2 DEF SettledIsWhole, Settled, FillIsEven, UndisturbedIsSettled,
                            UndisturbedScrapesAreWhole
<1> QED BY <1>1, <1>2, <1>3, <1>4, <1>5, <1>6 DEF Collect

LEMMA ScrapeWhole == ASSUME WholeInv, Scrape PROVE WholeParts'
<1> USE DEF WholeInv, WholeParts, GhostInv, TypeInv
<1>0. SettledIsWhole' /\ FillIsEven'
  BY ZenonT(60) DEF Scrape, ScrapeBegin, ScrapeRead, ScrapeEnd, SettledIsWhole, Settled, FillIsEven, FilledBy
<1>1. CASE ScrapeBegin
  <2>1. /\ scrape'.got = NoReads /\ scrape'.known = coll.all /\ scrape'.disturbed = Writing
        /\ coll' = coll
    BY <1>1 DEF ScrapeBegin
  <2>2. ~Writing => Settled
    BY DEF Writing, Settled, ExporterType
  <2>3. UndisturbedIsSettled'
    BY <2>1, <2>2 DEF UndisturbedIsSettled, Settled
  <2> QED BY <1>0, <2>1, <2>3, NoReadsType DEF UndisturbedScrapesAreWhole
<1>2. ASSUME NEW h \in Vecs, ScrapeRead(h) PROVE WholeParts'
  <2>1. /\ DOMAIN scrape'.got = DOMAIN scrape.got \cup {h}
        /\ \A x \in DOMAIN scrape'.got :
              scrape'.got[x] = IF x = h THEN vec[h] ELSE scrape.got[x]
        /\ scrape'.known = scrape.known /\ scrape'.on = scrape.on
        /\ scrape'.disturbed = scrape.disturbed /\ coll' = coll
    BY <1>2 DEF ScrapeRead, ExporterType
  <2>2. UndisturbedIsSettled'
    BY <2>1 DEF UndisturbedIsSettled, Settled
  <2>3. scrape.on /\ ~scrape.disturbed => vec[h] = scrape.known
    BY DEF UndisturbedIsSettled, SettledIsWhole
  <2> QED BY <1>0, <2>1, <2>2, <2>3 DEF UndisturbedScrapesAreWhole
<1>3. CASE ScrapeEnd
  BY <1>0, <1>3 DEF ScrapeEnd, NoScrape, UndisturbedIsSettled, UndisturbedScrapesAreWhole
<1> QED BY <1>1, <1>2, <1>3 DEF Scrape

LEMMA StepWhole == ASSUME WholeInv, [Next]_avars PROVE WholeInv'
<1>1. GhostInv'
  BY StepGhost DEF WholeInv
<1>2. WholeParts'
  <2>1. CASE Exit
    BY <2>1 DEF Exit, NoCollection, NoScrape, WholeParts, SettledIsWhole, FillIsEven,
                UndisturbedIsSettled, UndisturbedScrapesAreWhole
  <2>2. CASE ExporterStep /\ (Collect \/ Scrape)
    BY <2>2, CollectWhole, ScrapeWhole
  <2>3. CASE ~Exit /\ ~(ExporterStep /\ (Collect \/ Scrape))
    BY <2>3, OtherStepsLeaveExporter
       DEF WholeInv, WholeParts, SettledIsWhole, Settled, FillIsEven, FilledBy,
           UndisturbedIsSettled, UndisturbedScrapesAreWhole
  <2> QED BY <2>1, <2>2, <2>3
<1> QED BY <1>1, <1>2 DEF WholeInv

\* prometheus.go, collect: a scrape that no Reset and no Set overlaps shows
\* every series of the last collection in every vector.
THEOREM WholeScrapes == Spec => []UndisturbedScrapesAreWhole
<1>1. WholeInv => UndisturbedScrapesAreWhole
  BY DEF WholeInv, WholeParts
<1> QED BY <1>1, InitWhole, StepWhole, PTL DEF Spec

-----------------------------------------------------------------------------
\* The configuration is what Load makes of its sources, until it is passed on.
ConfigInv ==
    /\ file \in Files \cup {NotLoaded}
    /\ Loaded => file \in Files /\ cfg = Load(file, env, hostname)

\* What a variable does to a field does not depend on what the field was, or
\* leaves it as it was.
LEMMA OverrideFacts ==
    ASSUME NEW f \in Fields, NEW old, NEW other, f \in DOMAIN env
    PROVE  /\ Usable(f) => Override(f, old, env[f]) = Override(f, other, env[f])
           /\ ~Usable(f) => Override(f, old, env[f]) = old
           /\ Usable(f) /\ f \in StringFields => Override(f, old, env[f]) # ""
BY DEF Usable, Override, Fields, StringFields, NumberFields, BoolFields, ListFields, Junk

LEMMA LoadPrecedence ==
    ASSUME ConfigInv PROVE PrecedenceHolds
<1>1. CASE ~Loaded
  BY <1>1 DEF PrecedenceHolds
<1>2. CASE Loaded /\ file.status = "broken"
  BY <1>2 DEF ConfigInv, Load, PrecedenceHolds
<1>3. ASSUME Loaded, file.status # "broken", NEW f \in Fields
      PROVE  /\ Usable(f) => cfg[f] = Override(f, DefaultConfig[f], env[f])
             /\ ~Usable(f) => cfg[f] = IF f = "hostID" THEN FallbackHostID ELSE Given(f)
  <2>1. cfg = Load(file, env, hostname) /\ file.status \in {"ok", "missing"}
    BY <1>3, FilesAssumption DEF ConfigInv
  <2> DEFINE u == Unmarshal(DefaultConfig, file)
             a == applyEnvOverrides(u, env)
  <2>2. u[f] = IF f \in DOMAIN file.fields THEN file.fields[f] ELSE DefaultConfig[f]
    BY <1>3 DEF Unmarshal
  <2>3. /\ a[f] = IF f \in DOMAIN env THEN Override(f, u[f], env[f]) ELSE u[f]
        /\ DOMAIN a = Fields
    BY <1>3 DEF applyEnvOverrides
  <2>4. Usable(f) => f \in DOMAIN env
    BY DEF Usable
  <2>5. CASE file.status = "missing"
    <3>1. cfg = applyEnvOverrides(DefaultConfig, env)
      BY <2>1, <2>5 DEF Load
    <3>2. cfg[f] = IF f \in DOMAIN env THEN Override(f, DefaultConfig[f], env[f])
                   ELSE DefaultConfig[f]
      BY <1>3, <3>1 DEF applyEnvOverrides
    <3>3. ~Usable(f) => cfg[f] = DefaultConfig[f]
      BY <1>3, <3>2, OverrideFacts
    <3>4. DefaultConfig[f] = Given(f) /\ FallbackHostID = Given("hostID")
      BY <2>5 DEF Given, FileSets, FallbackHostID
    <3> QED BY <2>4, <3>2, <3>3, <3>4
  <2>6. CASE file.status = "ok"
    <3>1. cfg = [a EXCEPT !["hostID"] = IF @ # "" THEN @
                                        ELSE IF hostname # "" THEN hostname ELSE "unknown_host"]
      BY <2>1, <2>6 DEF Load
    <3> HIDE DEF a, u
    <3>2. f # "hostID" => cfg[f] = a[f]
      BY <1>3, <2>3, <3>1
    <3>3. f = "hostID" => cfg[f] = IF a[f] # "" THEN a[f]
                                   ELSE IF hostname # "" THEN hostname ELSE "unknown_host"
      BY <1>3, <2>3, <3>1
    <3>4. Usable(f) => a[f] = Override(f, DefaultConfig[f], env[f])
      BY <1>3, <2>3, <2>4, OverrideFacts
    <3>5. Usable(f) /\ f = "hostID" => a[f] # ""
      BY <1>3, <2>4, <3>4, OverrideFacts DEF StringFields
    <3>6. ~Usable(f) => a[f] = Given(f)
      BY <1>3, <2>2, <2>3, <2>6, OverrideFacts DEF FileSets, Given
    <3>7. FallbackHostID = IF Given("hostID") # "" THEN Given("hostID")
                           ELSE IF hostname # "" THEN hostname ELSE "unknown_host"
      BY <2>6 DEF FallbackHostID
    <3> QED BY <3>2, <3>3, <3>4, <3>5, <3>6, <3>7
  <2> QED BY <2>1, <2>5, <2>6
<1> QED BY <1>1, <1>2, <1>3 DEF PrecedenceHolds

\* config.go, Load, and main.go, loadConfig: every field comes from the
\* environment, else from the file, else from the defaults, the host id from
\* the host name at last; a broken file leaves the defaults alone.
THEOREM Precedence == Spec => []PrecedenceHolds
<1>1. Init => ConfigInv
  BY DEF Init, ConfigInit, ConfigInv, Loaded
<1>2. ConfigInv /\ [Next]_avars => ConfigInv'
  <2> SUFFICES ASSUME ConfigInv, [Next]_avars PROVE ConfigInv'
    OBVIOUS
  <2>1. CASE LoadConfig
    BY <2>1 DEF LoadConfig, loadConfig, ConfigInv, Loaded
  <2>2. CASE NoDocker \/ Start
    BY <2>2 DEF NoDocker, Start, Forgotten, ConfigInv, Loaded
  <2>3. CASE Exit \/ ExporterStep \/ UNCHANGED avars
    BY <2>3 DEF Exit, ExporterStep, avars, cvars, ConfigInv, Loaded
  <2> QED BY <2>1, <2>2, <2>3 DEF Next
<1> QED BY <1>1, <1>2, LoadPrecedence, PTL DEF Spec

=============================================================================
