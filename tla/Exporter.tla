------------------------------ MODULE Exporter ------------------------------
(***************************************************************************)
(* The Prometheus exporter (internal/metrics/prometheus.go): collect lists *)
(* the containers, reads their statistics, empties its gauge vectors one   *)
(* by one and fills them series by series, while scrapes read the vectors  *)
(* at any time, each under its own lock.  On a leader the series of the    *)
(* hosts that have reported lately are filled in as well.                  *)
(*                                                                         *)
(* A series is a pair of host label and container; its values and the      *)
(* self-monitoring gauges are left out.  The daemon lists stopped          *)
(* containers too, so a container is there or not.  Remote hosts have one  *)
(* container each.                                                         *)
(***************************************************************************)
EXTENDS Naturals, FiniteSets

CONSTANTS Locals,      \* containers there may be on the agent's host
          Hosts,       \* workers that may report to a leader
          NumVecs,     \* gauge vectors (9 in the code)
          Staleness    \* age at which a host is ignored (30 s), in ticks

ASSUME ExporterAssumption == NumVecs \in Nat \ {0} /\ Staleness \in Nat

VARIABLES there,       \* the containers of the agent's host
          age,         \* age[h]: time since host h reported, one more than
                       \* Staleness if longer or never
          vec,         \* vec[g]: the series of gauge vector g
          coll,        \* the call of collect under way
          scrape       \* the scrape under way

Vecs == 1..NumVecs
expo == <<there, age, vec, coll, scrape>>

NoReads == [g \in {} |-> {}]
NoScrape == [on |-> FALSE, got |-> NoReads, known |-> {}, disturbed |-> FALSE]

(* list and stats are collect's variables, all is allStats, todo what is   *)
(* left of it, g the vector that is next.                                  *)
NoCollection == [pc |-> "idle", list |-> {}, stats |-> {}, all |-> {}, todo |-> {}, g |-> 1]

ExporterInit ==
    /\ there = {}
    /\ age = [h \in Hosts |-> Staleness + 1]
    /\ vec = [g \in Vecs |-> {}]
    /\ coll = NoCollection
    /\ scrape = NoScrape

-----------------------------------------------------------------------------
(* Containers come and go, workers report, time passes.                    *)
ContainersChange ==
    /\ \E c \in Locals : there' \in {there \cup {c}, there \ {c}} \ {there}
    /\ UNCHANGED <<age, vec, coll, scrape>>

Report(h) ==
    /\ age' = [age EXCEPT ![h] = 0]
    /\ UNCHANGED <<there, vec, coll, scrape>>

TimePasses ==
    /\ \E h \in Hosts : age[h] <= Staleness
    /\ age' = [h \in Hosts |-> IF age[h] <= Staleness THEN age[h] + 1 ELSE age[h]]
    /\ UNCHANGED <<there, vec, coll, scrape>>

-----------------------------------------------------------------------------
Writing == coll.pc \in {"reset", "merge", "fill"}
Disturbed == [scrape EXCEPT !.disturbed = @ \/ scrape.on]

(* The ticker's turn: the list, or an error that ends the collection.      *)
CollectList ==
    /\ coll.pc = "idle"
    /\ coll' = [NoCollection EXCEPT !.pc = "stats", !.list = there, !.all = coll.all]
    /\ UNCHANGED <<there, age, vec, scrape>>

(* GetAllContainerStats: one goroutine per container; the ones that fail   *)
(* are passed over, and it never returns an error.                         *)
CollectStats(failing) ==
    /\ coll.pc = "stats"
    /\ coll' = [coll EXCEPT !.pc = "reset", !.list = {}, !.stats = (coll.list \cap there) \ failing]
    /\ UNCHANGED <<there, age, vec, scrape>>

\* Fault: the last vector is not emptied.
EmptiedButLast(g) == IF g = NumVecs THEN vec ELSE [vec EXCEPT ![g] = {}]

Emptied(g) == [vec EXCEPT ![g] = {}]

Reset ==
    /\ coll.pc = "reset"
    /\ vec' = Emptied(coll.g)
    /\ coll' = IF coll.g = NumVecs THEN [coll EXCEPT !.pc = "merge", !.g = 1]
               ELSE [coll EXCEPT !.g = @ + 1]
    /\ scrape' = Disturbed
    /\ UNCHANGED <<there, age>>

\* Fault: a host that has gone silent is not ignored.
GetAllMetricsEver == {<<h, "remote">> : h \in {x \in Hosts : age[x] <= Staleness + 1}}

\* Fault: only a host that has reported this very moment counts.
GetAllMetricsNow == {<<h, "remote">> : h \in {x \in Hosts : age[x] = 0}}

(* MemoryStore.GetAllMetrics *)
GetAllMetrics == {<<h, "remote">> : h \in {x \in Hosts : age[x] <= Staleness}}

HostLabel(hostID) == IF hostID = "" THEN "unknown" ELSE hostID

(* allStats: the local statistics under the agent's host id, then, on a    *)
(* leader, the remote ones.                                                *)
Merge(hostID, receiver) ==
    LET all == {<<HostLabel(hostID), c>> : c \in coll.stats} \cup
               IF receiver THEN GetAllMetrics ELSE {}
    IN /\ coll.pc = "merge"
       /\ coll' = [coll EXCEPT !.pc = "fill", !.stats = {}, !.all = all, !.todo = all]
       /\ scrape' = IF scrape.on THEN [scrape EXCEPT !.known = @ \cup all] ELSE scrape
       /\ UNCHANGED <<there, age, vec>>

\* Fault: the last vector is forgotten.
AfterSetShort(x) ==
    IF coll.g + 1 >= NumVecs THEN [coll EXCEPT !.todo = @ \ {x}, !.g = 1] ELSE [coll EXCEPT !.g = @ + 1]

AfterSet(x) ==
    IF coll.g = NumVecs THEN [coll EXCEPT !.todo = @ \ {x}, !.g = 1] ELSE [coll EXCEPT !.g = @ + 1]

(* With(labels).Set for one series after the other, vector by vector.      *)
Set(x) ==
    /\ coll.pc = "fill" /\ x \in coll.todo
    /\ coll.g > 1 => x \in vec[coll.g - 1]
    /\ vec' = [vec EXCEPT ![coll.g] = @ \cup {x}]
    /\ coll' = AfterSet(x)
    /\ scrape' = Disturbed
    /\ UNCHANGED <<there, age>>

(* lastStats is saved last; nothing reads it.                              *)
SaveStats ==
    /\ coll.pc = "fill" /\ coll.todo = {}
    /\ coll' = [NoCollection EXCEPT !.all = coll.all]
    /\ UNCHANGED <<there, age, vec, scrape>>

-----------------------------------------------------------------------------
(* A scrape of /metrics reads the vectors in any order.  known: the series *)
(* of the last collection that had them ready when the scrape began, and   *)
(* of later ones.                                                          *)
ScrapeBegin ==
    /\ ~scrape.on
    /\ scrape' = [on |-> TRUE, got |-> NoReads, known |-> coll.all, disturbed |-> Writing]
    /\ UNCHANGED <<there, age, vec, coll>>

ScrapeRead(g) ==
    /\ scrape.on /\ g \notin DOMAIN scrape.got
    /\ scrape' = [scrape EXCEPT !.got = [x \in DOMAIN @ \cup {g} |-> IF x = g THEN vec[g] ELSE @[x]]]
    /\ UNCHANGED <<there, age, vec, coll>>

ScrapeEnd ==
    /\ scrape.on /\ DOMAIN scrape.got = Vecs
    /\ scrape' = NoScrape
    /\ UNCHANGED <<there, age, vec, coll>>

-----------------------------------------------------------------------------
\* A scrape shows no series of a container or host that was gone before the
\* last collection that ended before it: whatever collections it overlaps, what
\* it reads belongs to that one or to a later one.
ScrapesShowNoGhosts ==
    \A g \in DOMAIN scrape.got : scrape.got[g] \subseteq scrape.known

\* A scrape during which no vector was written is whole: every vector has
\* every series of the last collection.
UndisturbedScrapesAreWhole ==
    scrape.on /\ ~scrape.disturbed => \A g \in DOMAIN scrape.got : scrape.got[g] = scrape.known

=============================================================================
