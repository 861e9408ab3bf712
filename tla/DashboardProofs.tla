-------------------------- MODULE DashboardProofs --------------------------
(***************************************************************************)
(* Proofs about Dashboard, for any containers, keys, capacities and        *)
(* streams: keys go to the dialog on the screen, the cursor is on a        *)
(* container, and the lines of a log stream are shown in order.            *)
(***************************************************************************)
EXTENDS Dashboard, TLAPS, SequenceTheorems, FiniteSetTheorems

(* What the handlers need of a model and keep.                             *)
Shape(x) ==
    /\ DOMAIN x = {"containers", "cursor", "showAll", "selectedIDs", "confirmAction",
                   "showStress", "showCleanup", "pruning", "searchMode", "showLogs",
                   "logOffset", "logLines", "showHelp", "showDetail", "showMap", "quitting"}
    /\ x.containers \in Seq(Containers) /\ x.cursor \in Nat
OnContainer(x) == x.containers # <<>> => InRange(x)

(* At most one dialog is open, and what it needs to be open with.          *)
OneDialog(x) ==
    /\ x.confirmAction # "" => ~x.showStress /\ ~x.showCleanup /\ ~x.searchMode
    /\ x.showStress => ~x.showCleanup /\ ~x.searchMode
    /\ x.showCleanup => ~x.searchMode /\ ~x.showLogs /\ ~x.showDetail /\ ~x.showMap
    /\ x.searchMode => x.showLogs
ModelOk(x) == Shape(x) /\ OnContainer(x) /\ OneDialog(x)

(* Streams st, log lines ls and the lines md that containers have written:  *)
(* a channel holds lines its container wrote, in order, ...                 *)
Stream == [of: Containers, ch: Seq(Nat), open: BOOLEAN, wait: BOOLEAN]
ChannelOk(s, md) ==
    /\ \A j \in 1..Len(s.ch) : s.ch[j] <= md[s.of]
    /\ \A j, k \in 1..Len(s.ch) : j < k => s.ch[j] < s.ch[k]

(* ... all of them later than the lines of the stream that are shown.      *)
Line == [line: Nat, via: Nat]
LineOk(l, st, md) ==
    /\ l.via <= Len(st)
    /\ l.via > 0 => /\ l.line <= md[st[l.via].of]
                    /\ \A k \in 1..Len(st[l.via].ch) : l.line < st[l.via].ch[k]
InOrder(ls) ==
    \A j, k \in 1..Len(ls) : j < k /\ ls[j].via = ls[k].via => ls[j].line < ls[k].line

LogsOk(ls, st, md) ==
    /\ md \in [Containers -> Nat]
    /\ st \in Seq(Stream)
    /\ \A i \in 1..Len(st) : ChannelOk(st[i], md)
    /\ ls \in Seq(Line)
    /\ \A j \in 1..Len(ls) : LineOk(ls[j], st, md)
    /\ InOrder(ls)

(* The inductive invariant.                                                *)
Inv == ModelOk(m) /\ LogsOk(m.logLines, streams, made) /\ load \in Loads

-----------------------------------------------------------------------------
(* Handlers.  Each returns a good model, streams of containers only, and    *)
(* log lines that are the old ones, none, or the placeholder.               *)
Good(x, r) ==
    /\ ModelOk(r.m) /\ r.open \subseteq Containers
    /\ r.m.logLines \in {x.logLines, <<>>, Loading}

LEMMA ReturnGood ==
    ASSUME NEW x, NEW y, NEW cs, ModelOk(y), y.logLines \in {x.logLines, <<>>, Loading}
    PROVE  Good(x, Return(y, cs))
BY DEF Good, Return

(* A change that leaves the list, the cursor and the lines.                 *)
Kept(x, y) ==
    /\ DOMAIN y = DOMAIN x /\ y.containers = x.containers /\ y.cursor = x.cursor
    /\ y.logLines = x.logLines

LEMMA KeptGood ==
    ASSUME NEW x, NEW y, NEW cs, ModelOk(x), Kept(x, y), OneDialog(y)
    PROVE  Good(x, Return(y, cs))
<1>1. ModelOk(y)
  BY DEF ModelOk, Shape, OnContainer, InRange, Kept
<1> QED BY <1>1, ReturnGood DEF Kept

LEMMA SameGood == ASSUME NEW x, NEW cs, ModelOk(x) PROVE Good(x, Return(x, cs))
BY KeptGood DEF Kept, ModelOk

(* A model in which no dialog is open.                                      *)
NoDialog(x) == x.confirmAction = "" /\ ~x.showStress /\ ~x.showCleanup /\ ~x.searchMode

LEMMA ConfirmGood ==
    ASSUME NEW x, ModelOk(x), NEW k PROVE Good(x, handleConfirmKeys(x, k))
<1> DEFINE y == [x EXCEPT !.confirmAction = ""]
<1>1. Kept(x, y) /\ OneDialog(y)
  BY DEF ModelOk, Shape, OneDialog, Kept
<1> QED BY <1>1, KeptGood DEF handleConfirmKeys

LEMMA StressGood ==
    ASSUME NEW x, ModelOk(x), NEW k PROVE Good(x, handleStressKeys(x, k))
<1> DEFINE y == [x EXCEPT !.showStress = FALSE]
<1>1. Kept(x, y) /\ OneDialog(y)
  BY DEF ModelOk, Shape, OneDialog, Kept
<1> QED BY <1>1, KeptGood DEF handleStressKeys

LEMMA CleanupGood ==
    ASSUME NEW x, ModelOk(x), NEW k PROVE Good(x, handleCleanupKeys(x, k))
<1> DEFINE y == [x EXCEPT !.showCleanup = FALSE]
           z == [x EXCEPT !.pruning = TRUE]
<1>1. Kept(x, y) /\ OneDialog(y)
  BY DEF ModelOk, Shape, OneDialog, Kept
<1>2. Kept(x, z) /\ OneDialog(z)
  BY DEF ModelOk, Shape, OneDialog, Kept
<1> HIDE DEF y, z
<1>3. handleCleanupKeys(x, k) \in {Return(y, {}), Return(z, {runPrune}), Return(x, {})}
  BY DEF handleCleanupKeys, y, z
<1> QED BY <1>1, <1>2, <1>3, KeptGood, SameGood

LEMMA SearchGood ==
    ASSUME NEW x, ModelOk(x), NEW k PROVE Good(x, handleSearchKeys(x, k))
<1> DEFINE y == [x EXCEPT !.searchMode = FALSE]
<1>1. Kept(x, y) /\ OneDialog(y)
  BY DEF ModelOk, Shape, OneDialog, Kept
<1> HIDE DEF y
<1>2. handleSearchKeys(x, k) \in {Return(y, {}), Return(x, {})}
  BY DEF handleSearchKeys, y
<1> QED BY <1>1, <1>2, KeptGood, SameGood

LEMMA NavigationGood ==
    ASSUME NEW x, ModelOk(x), NoDialog(x), NEW k PROVE Good(x, handleNavigationKeys(x, k))
<1> DEFINE search == [x EXCEPT !.searchMode = @ \/ x.showLogs]
           back == [x EXCEPT !.logOffset = @ + 1]
           up == [x EXCEPT !.cursor = @ - 1]
           forth == [x EXCEPT !.logOffset = @ - 1]
           down == [x EXCEPT !.cursor = @ + 1]
           follow == [x EXCEPT !.logOffset = 0]
           mark == [x EXCEPT !.selectedIDs = IF AtCursor(x) \in @ THEN @ \ {AtCursor(x)}
                                             ELSE @ \cup {AtCursor(x)}]
           y == handleNavigationKeys(x, k).m
<1>1. \/ y \in {search, back, forth, follow, mark, x}
      \/ y = up /\ x.cursor > 0
      \/ y = down /\ x.cursor + 1 < Len(x.containers)
  <2> HIDE DEF search, back, up, forth, down, follow, mark
  <2>1. CASE k = "/"
    BY <2>1 DEF handleNavigationKeys, Return, search
  <2>2. CASE k = "up"
    BY <2>2 DEF handleNavigationKeys, Return, back, up
  <2>3. CASE k = "down"
    BY <2>3 DEF handleNavigationKeys, Return, forth, down
  <2>4. CASE k = "f"
    BY <2>4 DEF handleNavigationKeys, Return, follow
  <2>5. CASE k = " "
    BY <2>5 DEF handleNavigationKeys, Return, mark
  <2>6. CASE k \notin {"/", "up", "down", "f", " "}
    BY <2>6 DEF handleNavigationKeys, Return
  <2> QED BY <2>1, <2>2, <2>3, <2>4, <2>5, <2>6
<1>2. handleNavigationKeys(x, k) = Return(y, {})
  BY DEF handleNavigationKeys, Return
<1>3. Kept(x, search) /\ OneDialog(search)
  BY DEF ModelOk, Shape, OneDialog, NoDialog, Kept
<1>4. \A z \in {back, forth, follow, mark} : Kept(x, z) /\ OneDialog(z)
  BY ZenonT(40) DEF ModelOk, Shape, OneDialog, Kept
<1>5. ASSUME x.cursor > 0 PROVE ModelOk(up) /\ up.logLines = x.logLines
  <2>1. /\ DOMAIN up = DOMAIN x /\ up.containers = x.containers /\ up.cursor = x.cursor - 1
        /\ up.logLines = x.logLines
    BY DEF ModelOk, Shape
  <2>2. OneDialog(up)
    BY DEF ModelOk, Shape, OneDialog
  <2>3. Shape(up) /\ OnContainer(up)
    BY <1>5, <2>1, LenProperties DEF ModelOk, Shape, OnContainer, InRange
  <2> QED BY <2>1, <2>2, <2>3 DEF ModelOk
<1>6. ASSUME x.cursor + 1 < Len(x.containers) PROVE ModelOk(down) /\ down.logLines = x.logLines
  <2>1. /\ DOMAIN down = DOMAIN x /\ down.containers = x.containers /\ down.cursor = x.cursor + 1
        /\ down.logLines = x.logLines
    BY DEF ModelOk, Shape
  <2>2. OneDialog(down)
    BY DEF ModelOk, Shape, OneDialog
  <2>3. Shape(down) /\ OnContainer(down)
    BY <1>6, <2>1 DEF ModelOk, Shape, OnContainer, InRange
  <2> QED BY <2>1, <2>2, <2>3 DEF ModelOk
<1> HIDE DEF search, back, up, forth, down, follow, mark, y
<1>7. Good(x, Return(y, {}))
  BY <1>1, <1>3, <1>4, <1>5, <1>6, KeptGood, SameGood, ReturnGood
<1> QED BY <1>2, <1>7

(* What lies at the cursor, and in the list, is a container.                *)
LEMMA ListedAreContainers ==
    ASSUME NEW x, ModelOk(x)
    PROVE  /\ \A i \in DOMAIN x.containers : x.containers[i] \in Containers
           /\ InRange(x) => AtCursor(x) \in Containers
<1>1. x.containers \in Seq(Containers) /\ x.cursor \in Nat
  BY DEF ModelOk, Shape
<1>2. Len(x.containers) \in Nat /\ DOMAIN x.containers = 1..Len(x.containers)
  BY <1>1, LenProperties
<1>3. \A i \in 1..Len(x.containers) : x.containers[i] \in Containers
  BY <1>1, ElementOfSeq
<1>4. InRange(x) => x.cursor + 1 \in 1..Len(x.containers)
  BY <1>1, <1>2 DEF InRange
<1> QED BY <1>2, <1>3, <1>4 DEF AtCursor

LEMMA LogGood ==
    ASSUME NEW x, ModelOk(x), NoDialog(x), NEW k \in {"L", "l", "E"}
    PROVE  Good(x, handleLogKeys(x, k))
<1> DEFINE y == [x EXCEPT !.showLogs = TRUE, !.logOffset = 0, !.logLines = Loading]
           z == [x EXCEPT !.showLogs = FALSE, !.logLines = <<>>]
<1>1. ModelOk(y) /\ y.logLines = Loading
  <2>1. /\ DOMAIN y = DOMAIN x /\ y.containers = x.containers /\ y.cursor = x.cursor
        /\ y.logLines = Loading
    BY DEF ModelOk, Shape
  <2>2. OneDialog(y)
    BY DEF ModelOk, Shape, OneDialog, NoDialog
  <2> QED BY <2>1, <2>2 DEF ModelOk, Shape, OnContainer, InRange
<1>2. ModelOk(z) /\ z.logLines = <<>>
  <2>1. /\ DOMAIN z = DOMAIN x /\ z.containers = x.containers /\ z.cursor = x.cursor
        /\ z.logLines = <<>>
    BY DEF ModelOk, Shape
  <2>2. OneDialog(z)
    BY DEF ModelOk, Shape, OneDialog, NoDialog
  <2> QED BY <2>1, <2>2 DEF ModelOk, Shape, OnContainer, InRange
<1> HIDE DEF y, z
<1>3. \A cs : cs \subseteq Containers => Good(x, Streaming(y, cs))
  BY <1>1 DEF Good, Streaming
<1>4. Good(x, Return(z, {}))
  BY <1>2, ReturnGood
<1>5. Good(x, startMultiTailLogs(x))
  <2> DEFINE cs == {x.containers[i] : i \in DOMAIN x.containers} \cap x.selectedIDs
  <2>1. cs \subseteq Containers
    BY ListedAreContainers
  <2>2. startMultiTailLogs(x) \in {Return(x, {}), Streaming(y, cs)}
    BY DEF startMultiTailLogs, y
  <2> HIDE DEF cs
  <2> QED BY <1>3, <2>1, <2>2, SameGood
<1>6. Good(x, toggleSingleContainerLogs(x))
  <2>1. \/ toggleSingleContainerLogs(x) \in {Return(x, {}), Return(z, {})}
        \/ InRange(x) /\ toggleSingleContainerLogs(x) = Streaming(y, {AtCursor(x)})
    BY DEF toggleSingleContainerLogs, y, z
  <2> QED BY <1>3, <1>4, <2>1, SameGood, ListedAreContainers
<1> QED BY <1>5, <1>6, SameGood DEF handleLogKeys

LEMMA ActionGood ==
    ASSUME NEW x, ModelOk(x), NoDialog(x), NEW k PROVE Good(x, handleActionKeys(x, k))
<1> DEFINE stop == [x EXCEPT !.confirmAction = "stop"]
           restart == [x EXCEPT !.confirmAction = "restart"]
           stress == [x EXCEPT !.showStress = TRUE]
           y == handleActionKeys(x, k).m
<1>1. \A z \in {stop, restart, stress} : Kept(x, z) /\ OneDialog(z)
  BY ZenonT(40) DEF ModelOk, Shape, OneDialog, NoDialog, Kept
<1> HIDE DEF stop, restart, stress
<1>2. y \in {stop, restart, stress, x}
  BY DEF handleActionKeys, Return, stop, restart, stress
<1>3. handleActionKeys(x, k) = Return(y, {})
  BY DEF handleActionKeys, Return
<1> HIDE DEF y
<1> QED BY <1>1, <1>2, <1>3, KeptGood, SameGood

LEMMA ViewGood ==
    ASSUME NEW x, ModelOk(x), NoDialog(x), NEW k PROVE Good(x, handleViewKeys(x, k))
<1> DEFINE help == [x EXCEPT !.showHelp = ~@]
           detail == [x EXCEPT !.showDetail = ~@]
           plain == [x EXCEPT !.showDetail = FALSE, !.showHelp = FALSE, !.showLogs = FALSE,
                              !.logLines = <<>>, !.searchMode = FALSE, !.confirmAction = "",
                              !.showStress = FALSE, !.showMap = FALSE, !.showCleanup = FALSE]
           clean == [x EXCEPT !.showCleanup = ~@]
           map == [x EXCEPT !.showMap = ~@]
           y == handleViewKeys(x, k).m
<1>1. \A z \in {help, detail, map} : Kept(x, z) /\ OneDialog(z)
  BY DEF ModelOk, Shape, OneDialog, NoDialog, Kept
<1>2. ASSUME ~x.showLogs, ~x.showDetail, ~x.showMap PROVE Kept(x, clean) /\ OneDialog(clean)
  BY <1>2 DEF ModelOk, Shape, OneDialog, NoDialog, Kept
<1>3. ModelOk(plain) /\ plain.logLines = <<>>
  <2>1. /\ DOMAIN plain = DOMAIN x /\ plain.containers = x.containers /\ plain.cursor = x.cursor
        /\ plain.logLines = <<>>
    BY DEF ModelOk, Shape
  <2>2. /\ ~plain.showLogs /\ ~plain.searchMode /\ plain.confirmAction = ""
        /\ ~plain.showStress /\ ~plain.showCleanup
    BY DEF ModelOk, Shape
  <2> HIDE DEF plain
  <2> QED BY <2>1, <2>2 DEF ModelOk, Shape, OnContainer, InRange, OneDialog
<1> HIDE DEF help, detail, plain, clean, map
<1>4. \/ y \in {help, detail, plain, map, x}
      \/ y = clean /\ ~x.showLogs /\ ~x.showDetail /\ ~x.showMap
  BY DEF handleViewKeys, Return, help, detail, plain, clean, map
<1>5. handleViewKeys(x, k) = Return(y, {})
  BY DEF handleViewKeys, Return
<1> HIDE DEF y
<1> QED BY <1>1, <1>2, <1>3, <1>4, <1>5, KeptGood, SameGood, ReturnGood

LEMMA NormalGood ==
    ASSUME NEW x, ModelOk(x), NoDialog(x), NEW k PROVE Good(x, handleNormalKeys(x, k))
<1> DEFINE all == [x EXCEPT !.showAll = ~@]
           quit == [x EXCEPT !.quitting = TRUE]
<1>1. \A z \in {all, quit} : Kept(x, z) /\ OneDialog(z)
  BY DEF ModelOk, Shape, OneDialog, Kept
<1> HIDE DEF all, quit
<1>2. CASE k = "a"
  BY <1>1, <1>2, KeptGood DEF handleNormalKeys, all
<1>3. CASE k = "q"
  BY <1>1, <1>3, KeptGood DEF handleNormalKeys, quit
<1>4. CASE k = "r"
  BY <1>4, SameGood DEF handleNormalKeys
<1>5. CASE k \in {"/", "up", "down", "f", " "}
  BY <1>5, NavigationGood DEF handleNormalKeys
<1>6. CASE k \in {"l", "L", "E"}
  BY <1>6, LogGood DEF handleNormalKeys
<1>7. CASE k \in {"s", "R", "x", "S"}
  BY <1>7, ActionGood DEF handleNormalKeys
<1>8. CASE k \in {"?", "enter", "esc", "C", "m"}
  BY <1>8, ViewGood DEF handleNormalKeys
<1>9. CASE k \notin {"a", "q", "r", "/", "up", "down", "f", " ", "l", "L", "E", "s", "R", "x",
                     "S", "?", "enter", "esc", "C", "m"}
  BY <1>9, SameGood DEF handleNormalKeys
<1> QED BY <1>2, <1>3, <1>4, <1>5, <1>6, <1>7, <1>8, <1>9

LEMMA KeyGood == ASSUME NEW x, ModelOk(x), NEW k PROVE Good(x, handleKeyMsg(x, k))
BY ConfirmGood, StressGood, CleanupGood, SearchGood, NormalGood DEF handleKeyMsg, NoDialog

(* Lists.  Docker's list is a sequence of containers.                       *)
LEMMA AscendingIsSeq ==
    ASSUME NEW s \in SUBSET Containers, NEW q \in Ascending(s)
    PROVE  q \in Seq(Containers) /\ Cardinality(s) \in Nat /\ Len(q) = Cardinality(s)
<1>1. IsFiniteSet(s)
  BY DashboardAssumption, FS_Subset
<1>2. Cardinality(s) \in Nat
  BY <1>1, FS_CardinalityType
<1>3. q \in [1..Cardinality(s) -> Containers]
  BY DEF Ascending
<1>4. q \in Seq(Containers)
  BY <1>2, <1>3
<1> QED BY <1>2, <1>3, <1>4, LenProperties

LEMMA ListGood ==
    ASSUME NEW x, ModelOk(x), NEW list \in Seq(Containers)
    PROVE  /\ ModelOk(handleContainerListMsg(x, list))
           /\ handleContainerListMsg(x, list).logLines = x.logLines
<1> DEFINE y == handleContainerListMsg(x, list)
           n == IF x.cursor >= Len(list) /\ Len(list) > 0 THEN Len(list) - 1 ELSE x.cursor
<1>1. /\ DOMAIN y = DOMAIN x /\ y.containers = list /\ y.cursor = n
      /\ y.logLines = x.logLines
  BY DEF handleContainerListMsg, ModelOk, Shape
<1>2. OneDialog(y)
  BY DEF handleContainerListMsg, ModelOk, Shape, OneDialog
<1>3. Len(list) \in Nat /\ (list # <<>> => Len(list) > 0)
  BY LenProperties, EmptySeq
<1>4. n \in Nat /\ (list # <<>> => n < Len(list))
  BY <1>3 DEF ModelOk, Shape
<1> HIDE DEF y, n
<1>5. Shape(y) /\ OnContainer(y)
  BY <1>1, <1>4 DEF ModelOk, Shape, OnContainer, InRange
<1> QED BY <1>1, <1>2, <1>5 DEF ModelOk, y

-----------------------------------------------------------------------------
(* Logs.  A view that is closed or opened shows no line of a stream.        *)
LEMMA ClearedOk ==
    ASSUME NEW ls, NEW st, NEW md, LogsOk(ls, st, md)
    PROVE  LogsOk(<<>>, st, md) /\ LogsOk(Loading, st, md)
<1>1. Len(st) \in Nat
  BY LenProperties DEF LogsOk
<1>2. <<>> \in Seq(Line) /\ Len(<<>>) = 0
  BY EmptySeq
<1>3. LogsOk(<<>>, st, md)
  BY <1>2 DEF LogsOk, InOrder
<1>4. /\ Loading \in Seq(Line) /\ Len(Loading) = 1 /\ Loading[1] = [line |-> 0, via |-> 0]
  BY DEF Loading, Line
<1>5. \A j \in 1..Len(Loading) : LineOk(Loading[j], st, md)
  BY <1>1, <1>4 DEF LineOk
<1>6. InOrder(Loading)
  BY <1>4 DEF InOrder
<1> QED BY <1>3, <1>4, <1>5, <1>6 DEF LogsOk

LEMMA LinesTyped ==
    ASSUME NEW ls, NEW st, NEW md, LogsOk(ls, st, md), NEW j \in 1..Len(ls)
    PROVE  LineOk(ls[j], st, md) /\ ls[j].via \in Nat /\ ls[j].line \in Nat
<1>1. LineOk(ls[j], st, md) /\ ls \in Seq(Line)
  BY DEF LogsOk
<1>2. ls[j] \in Line
  BY <1>1, ElementOfSeq
<1> QED BY <1>1, <1>2 DEF Line

(* Streams that are opened leave the lines of the others.                   *)
LEMMA OpenedOk ==
    ASSUME NEW ls, NEW st, NEW md, LogsOk(ls, st, md), NEW new \in Seq(Stream),
           \A i \in 1..Len(new) : ChannelOk(new[i], md)
    PROVE  LogsOk(ls, st \o new, md)
<1> DEFINE u == st \o new
<1>1. st \in Seq(Stream) /\ Len(st) \in Nat /\ Len(new) \in Nat
  BY LenProperties DEF LogsOk
<1>2. /\ u \in Seq(Stream) /\ Len(u) = Len(st) + Len(new)
      /\ \A i \in 1..Len(u) : u[i] = IF i <= Len(st) THEN st[i] ELSE new[i - Len(st)]
  BY <1>1, ConcatProperties
<1> HIDE DEF u
<1>3. ASSUME NEW i \in 1..Len(u) PROVE ChannelOk(u[i], md)
  <2>1. CASE i <= Len(st)
    BY <1>1, <1>2, <2>1 DEF LogsOk
  <2>2. CASE i > Len(st)
    <3>1. u[i] = new[i - Len(st)] /\ i - Len(st) \in 1..Len(new)
      BY <1>1, <1>2, <2>2
    <3> QED BY <3>1
  <2> QED BY <1>1, <2>1, <2>2
<1>4. ASSUME NEW j \in 1..Len(ls) PROVE LineOk(ls[j], u, md)
  <2>1. LineOk(ls[j], st, md) /\ ls[j].via \in Nat
    BY LinesTyped
  <2>2. ls[j].via <= Len(u)
    BY <1>1, <1>2, <2>1 DEF LineOk
  <2>3. ls[j].via > 0 => u[ls[j].via] = st[ls[j].via]
    BY <1>1, <1>2, <2>1 DEF LineOk
  <2> QED BY <2>1, <2>2, <2>3 DEF LineOk
<1> QED BY <1>2, <1>3, <1>4 DEF LogsOk, u

(* Streams may lose lines of their channels, and get lines newer than all   *)
(* their container had written.                                             *)
Later(s, t, md) ==
    \A k \in 1..Len(t.ch) :
        \/ \E n \in 1..Len(s.ch) : t.ch[k] = s.ch[n]
        \/ t.ch[k] > md[s.of]

LEMMA MovedOk ==
    ASSUME NEW ls, NEW st, NEW md, LogsOk(ls, st, md),
           NEW u \in Seq(Stream), Len(u) = Len(st),
           NEW nd \in [Containers -> Nat], \A c \in Containers : nd[c] >= md[c],
           \A i \in 1..Len(st) : u[i].of = st[i].of /\ ChannelOk(u[i], nd) /\ Later(st[i], u[i], md)
    PROVE  LogsOk(ls, u, nd)
<1>1. st \in Seq(Stream) /\ Len(st) \in Nat /\ md \in [Containers -> Nat]
  BY LenProperties DEF LogsOk
<1>2. ASSUME NEW j \in 1..Len(ls) PROVE LineOk(ls[j], u, nd)
  <2> DEFINE l == ls[j]
             i == l.via
  <2>1. LineOk(l, st, md) /\ l.via \in Nat /\ l.line \in Nat
    BY LinesTyped
  <2>2. CASE i > 0
    <3>1. i \in 1..Len(st)
      BY <1>1, <2>1, <2>2 DEF LineOk
    <3>2. st[i] \in Stream /\ u[i] \in Stream
      BY <1>1, <3>1, ElementOfSeq
    <3>3. /\ st[i].of \in Containers /\ u[i].of = st[i].of
          /\ st[i].ch \in Seq(Nat) /\ u[i].ch \in Seq(Nat)
      BY <3>1, <3>2 DEF Stream
    <3>4. md[st[i].of] \in Nat /\ nd[st[i].of] \in Nat /\ nd[st[i].of] >= md[st[i].of]
      BY <1>1, <3>3
    <3>5. /\ l.line <= md[st[i].of]
          /\ \A k \in 1..Len(st[i].ch) : l.line < st[i].ch[k]
      BY <2>1, <2>2 DEF LineOk
    <3>6. ASSUME NEW k \in 1..Len(u[i].ch) PROVE l.line < u[i].ch[k]
      <4>1. u[i].ch[k] \in Nat
        BY <3>3, ElementOfSeq
      <4>2. \/ \E n \in 1..Len(st[i].ch) : u[i].ch[k] = st[i].ch[n]
            \/ u[i].ch[k] > md[st[i].of]
        BY <3>1 DEF Later
      <4>3. CASE \E n \in 1..Len(st[i].ch) : u[i].ch[k] = st[i].ch[n]
        BY <3>5, <4>3
      <4>4. CASE u[i].ch[k] > md[st[i].of]
        BY SMTT(30), <2>1, <3>4, <3>5, <4>1, <4>4
      <4> QED BY <4>2, <4>3, <4>4
    <3>7. l.line <= nd[u[i].of]
      BY <2>1, <3>3, <3>4, <3>5
    <3> QED BY <2>1, <3>6, <3>7 DEF LineOk
  <2>3. CASE ~(i > 0)
    BY <2>1, <2>3 DEF LineOk
  <2> QED BY <2>2, <2>3
<1> QED BY <1>2 DEF LogsOk

(* A line that is later than the lines of its stream may be shown.          *)
LEMMA ShownOk ==
    ASSUME NEW ls, NEW st, NEW md, LogsOk(ls, st, md), NEW l \in Line, LineOk(l, st, md),
           \A j \in 1..Len(ls) : ls[j].via = l.via => ls[j].line < l.line
    PROVE  LogsOk(KeepLast(Append(ls, l)), st, md)
<1> DEFINE q == Append(ls, l)
           n == Len(q)
           from == n - LinesCap + 1
           r == SubSeq(q, from, n)
<1>1. ls \in Seq(Line) /\ Len(ls) \in Nat
  BY LenProperties DEF LogsOk
<1>2. /\ q \in Seq(Line) /\ n = Len(ls) + 1 /\ n \in Nat
      /\ \A j \in 1..Len(ls) : q[j] = ls[j]
      /\ q[n] = l
  BY <1>1, AppendProperties
<1> HIDE DEF q
<1>3. \A j \in 1..n : LineOk(q[j], st, md)
  <2> TAKE j \in 1..n
  <2>1. j \in 1..Len(ls) \/ j = n
    BY <1>1, <1>2
  <2> QED BY <1>2, <2>1 DEF LogsOk
<1>4. InOrder(q)
  <2> SUFFICES ASSUME NEW j \in 1..n, NEW k \in 1..n, j < k, q[j].via = q[k].via
               PROVE  q[j].line < q[k].line
    BY DEF InOrder
  <2>1. j \in 1..Len(ls) /\ (k \in 1..Len(ls) \/ k = n)
    BY <1>1, <1>2
  <2> QED BY <1>2, <2>1 DEF LogsOk, InOrder
<1>5. LogsOk(q, st, md)
  BY <1>2, <1>3, <1>4 DEF LogsOk
<1>6. CASE n > LinesCap
  <2>1. LinesCap \in Nat /\ LinesCap > 0
    BY DashboardAssumption
  <2>2. from \in 1..n /\ from <= n + 1
    BY <1>2, <1>6, <2>1
  <2>3. \A i \in from..n : q[i] \in Line
    BY <1>2, <2>2, ElementOfSeq
  <2>4. /\ r \in Seq(Line) /\ Len(r) = LinesCap
        /\ \A j \in 1..LinesCap : r[j] = q[from + j - 1] /\ from + j - 1 \in 1..n
    BY <1>2, <1>6, <2>1, <2>2, <2>3, SubSeqProperties
  <2>5. LogsOk(r, st, md)
    <3> HIDE DEF r
    <3>1. \A j \in 1..Len(r) : LineOk(r[j], st, md)
      BY <1>3, <2>4
    <3>2. InOrder(r)
      <4> SUFFICES ASSUME NEW j \in 1..LinesCap, NEW k \in 1..LinesCap, j < k,
                          r[j].via = r[k].via
                   PROVE  r[j].line < r[k].line
        BY <2>4 DEF InOrder
      <4>1. from + j - 1 < from + k - 1
        BY <2>1, <2>2
      <4> QED BY <1>4, <2>4, <4>1 DEF InOrder
    <3> QED BY <1>5, <2>4, <3>1, <3>2 DEF LogsOk
  <2> QED BY <1>6, <2>5 DEF KeepLast, q
<1>7. CASE ~(n > LinesCap)
  BY <1>5, <1>7 DEF KeepLast, q
<1> QED BY <1>6, <1>7

-----------------------------------------------------------------------------
(* Steps.                                                                   *)
LEMMA LoadTyped == ASSUME load \in Loads PROVE load.containers \subseteq Containers
BY DashboardAssumption

LEMMA InitInv == Init => Inv
<1> SUFFICES ASSUME Init PROVE Inv
  OBVIOUS
<1>1. <<>> \in Seq(Containers) /\ <<>> \in Seq(Stream) /\ <<>> \in Seq(Line) /\ Len(<<>>) = 0
  BY EmptySeq
<1>2. ModelOk(m)
  BY <1>1 DEF Init, NewModel, ModelOk, Shape, OnContainer, OneDialog
<1>3. m.logLines = <<>> /\ streams = <<>> /\ made \in [Containers -> Nat] /\ load \in Loads
  BY DEF Init, NewModel
<1>4. LogsOk(<<>>, <<>>, made)
  BY <1>1, <1>3 DEF LogsOk, InOrder
<1> QED BY <1>2, <1>3, <1>4 DEF Inv

(* A new stream starts with the last lines that were written, in order.     *)
LEMMA NewStreamOk ==
    ASSUME made \in [Containers -> Nat], NEW c \in Containers
    PROVE  NewStream(c) \in Stream /\ ChannelOk(NewStream(c), made)
<1> DEFINE first == IF made[c] > LogTail THEN made[c] - LogTail ELSE 0
           ch == [i \in 1..(made[c] - first) |-> first + i]
           s == NewStream(c)
<1>1. made[c] \in Nat /\ LogTail \in Nat
  BY DashboardAssumption
<1>2. first \in Nat /\ made[c] - first \in Nat
  BY <1>1
<1> HIDE DEF first
<1>3. ch \in Seq(Nat) /\ Len(ch) = made[c] - first
  <2> DEFINE d == made[c] - first
  <2>1. d \in Nat /\ \A i \in 1..d : first + i \in Nat
    BY <1>2
  <2> HIDE DEF d
  <2>2. [i \in 1..d |-> first + i] \in Seq(Nat) /\ Len([i \in 1..d |-> first + i]) = d
    BY <2>1
  <2> QED BY <2>2 DEF d
<1>4. \A i \in 1..Len(ch) : ch[i] = first + i
  BY <1>3
<1> HIDE DEF ch
<1>5. s = [of |-> c, ch |-> ch, open |-> TRUE, wait |-> TRUE]
  BY DEF NewStream, ch, first
<1>6. s \in Stream
  BY <1>3, <1>5 DEF Stream
<1>7. ChannelOk(s, made)
  BY <1>1, <1>2, <1>3, <1>4, <1>5 DEF ChannelOk
<1> QED BY <1>6, <1>7

LEMMA PressKeeps == ASSUME Inv, NEW k, Press(k) PROVE Inv'
<1> DEFINE r == handleKeyMsg(m, k)
<1>1. /\ ModelOk(r.m) /\ r.open \subseteq Containers
      /\ r.m.logLines \in {m.logLines, <<>>, Loading}
  BY KeyGood DEF Inv, Good
<1>2. m' = r.m /\ made' = made /\ load' = load
  BY DEF Press
<1>3. PICK opened \in SUBSET r.open : \E order \in Ascending(opened) :
         streams' = streams \o [i \in 1..Cardinality(opened) |-> NewStream(order[i])]
  BY DEF Press
<1>4. PICK order \in Ascending(opened) :
         streams' = streams \o [i \in 1..Cardinality(opened) |-> NewStream(order[i])]
  BY <1>3
<1> HIDE DEF r
<1> DEFINE n == Cardinality(opened)
           new == [i \in 1..n |-> NewStream(order[i])]
<1>5. order \in Seq(Containers) /\ n \in Nat /\ Len(order) = n
  BY <1>1, <1>4, AscendingIsSeq
<1>6. LogsOk(m.logLines, streams, made) /\ made \in [Containers -> Nat]
  BY DEF Inv, LogsOk
<1>7. \A i \in 1..n : NewStream(order[i]) \in Stream /\ ChannelOk(NewStream(order[i]), made)
  <2> TAKE i \in 1..n
  <2>1. order[i] \in Containers
    BY <1>5, ElementOfSeq
  <2> QED BY <1>6, <2>1, NewStreamOk
<1> HIDE DEF n
<1>8. new \in Seq(Stream) /\ Len(new) = n /\ \A i \in 1..n : new[i] = NewStream(order[i])
  BY <1>5, <1>7
<1>9. streams' = streams \o new
  BY <1>4 DEF n
<1> HIDE DEF new
<1>10. LogsOk(r.m.logLines, streams, made)
  BY <1>1, <1>6, ClearedOk
<1>11. LogsOk(r.m.logLines, streams \o new, made)
  BY <1>7, <1>8, <1>10, OpenedOk
<1>12. ModelOk(m)' /\ LogsOk(m.logLines, streams, made)'
  BY <1>1, <1>2, <1>9, <1>11
<1> QED BY <1>2, <1>12 DEF Inv

LEMMA ListKeeps == ASSUME Inv, NEW c, ListArrives(c) PROVE Inv'
<1>1. /\ UNCHANGED <<streams, made, load>>
      /\ \/ \E s \in SUBSET load.containers : \E list \in Ascending(s) :
               m' = handleContainerListMsg(m, list)
         \/ m' = m
  BY DEF ListArrives
<1>2. CASE \E s \in SUBSET load.containers : \E list \in Ascending(s) :
              m' = handleContainerListMsg(m, list)
  <2>1. PICK s \in SUBSET load.containers : \E list \in Ascending(s) :
                m' = handleContainerListMsg(m, list)
    BY <1>2
  <2>2. PICK list \in Ascending(s) : m' = handleContainerListMsg(m, list)
    BY <2>1
  <2>3. s \in SUBSET Containers
    BY LoadTyped DEF Inv
  <2>4. list \in Seq(Containers)
    BY <2>3, AscendingIsSeq
  <2>5. ModelOk(m') /\ m'.logLines = m.logLines
    BY <2>2, <2>4, ListGood DEF Inv
  <2> QED BY <1>1, <2>5 DEF Inv
<1>3. CASE m' = m
  BY <1>1, <1>3 DEF Inv
<1> QED BY <1>1, <1>2, <1>3

LEMMA PruneKeeps == ASSUME Inv, handlePruneResultMsg PROVE Inv'
<1>1. m' = [m EXCEPT !.pruning = FALSE] /\ UNCHANGED <<streams, made, load>>
  BY DEF handlePruneResultMsg
<1>2. Kept(m, m') /\ OneDialog(m')
  BY <1>1 DEF Inv, ModelOk, Shape, OneDialog, Kept
<1>3. ModelOk(m')
  BY <1>2 DEF Inv, ModelOk, Shape, OnContainer, InRange, Kept
<1> QED BY <1>1, <1>2, <1>3 DEF Inv, Kept

LEMMA ChannelGrows ==
    ASSUME NEW ch \in Seq(Nat), NEW n \in Nat, \A j \in 1..Len(ch) : ch[j] < n,
           \A j, k \in 1..Len(ch) : j < k => ch[j] < ch[k],
           NEW q, q = Append(ch, n)
    PROVE  /\ q \in Seq(Nat)
           /\ \A j \in 1..Len(q) : q[j] <= n /\ (q[j] = n \/ \E k \in 1..Len(ch) : q[j] = ch[k])
           /\ \A j, k \in 1..Len(q) : j < k => q[j] < q[k]
<1>1. Len(ch) \in Nat /\ \A j \in 1..Len(ch) : ch[j] \in Nat
  BY LenProperties, ElementOfSeq
<1>2. /\ q \in Seq(Nat) /\ Len(q) = Len(ch) + 1 /\ q[Len(ch) + 1] = n
      /\ \A j \in 1..Len(ch) : q[j] = ch[j]
  BY AppendProperties
<1>3. \A j \in 1..Len(q) : j \in 1..Len(ch) \/ j = Len(ch) + 1
  BY <1>1, <1>2
<1>4. ASSUME NEW j \in 1..Len(q)
      PROVE  q[j] <= n /\ (q[j] = n \/ \E k \in 1..Len(ch) : q[j] = ch[k])
  <2>1. CASE j \in 1..Len(ch)
    BY <1>1, <1>2, <2>1
  <2>2. CASE j = Len(ch) + 1
    BY <1>2, <2>2
  <2> QED BY <1>3, <2>1, <2>2
<1>5. ASSUME NEW j \in 1..Len(q), NEW k \in 1..Len(q), j < k PROVE q[j] < q[k]
  <2>1. j \in 1..Len(ch)
    BY <1>1, <1>2, <1>5
  <2>2. CASE k \in 1..Len(ch)
    BY <1>2, <1>5, <2>1, <2>2
  <2>3. CASE k = Len(ch) + 1
    BY <1>2, <2>1, <2>3
  <2> QED BY <1>3, <2>2, <2>3
<1> QED BY <1>2, <1>4, <1>5

(* The line that is written is newer than all in the channels it reaches.   *)
LEMMA WritesKeep == ASSUME Inv, NEW c \in load.containers, Writes(c) PROVE Inv'
<1> DEFINE st == streams
           n == made[c] + 1
           u == [i \in DOMAIN st |->
                     IF st[i].of = c /\ st[i].open
                     THEN [st[i] EXCEPT !.ch = processLogChunk(@, n)]
                     ELSE st[i]]
           nd == [made EXCEPT ![c] = n]
<1>1. c \in Containers
  BY LoadTyped DEF Inv
<1>2. LogsOk(m.logLines, st, made) /\ made \in [Containers -> Nat] /\ st \in Seq(Stream)
  BY DEF Inv, LogsOk
<1>3. n \in Nat /\ nd \in [Containers -> Nat] /\ nd[c] = n /\ n > made[c]
  BY <1>1, <1>2
<1>4. \A d \in Containers : nd[d] >= made[d] /\ nd[d] \in Nat /\ made[d] \in Nat
  BY <1>1, <1>2, <1>3
<1>5. UNCHANGED <<m, load>> /\ made' = nd /\ streams' = u
  BY <1>1, <1>3 DEF Writes
<1>6. Len(st) \in Nat /\ DOMAIN st = 1..Len(st)
  BY <1>2, LenProperties
<1> HIDE DEF n, nd
<1>7. ASSUME NEW i \in 1..Len(st)
      PROVE  u[i] \in Stream /\ u[i].of = st[i].of /\ ChannelOk(u[i], nd)
             /\ Later(st[i], u[i], made)
  <2> DEFINE s == st[i]
             ch == s.ch
             t == [s EXCEPT !.ch = Append(ch, n)]
  <2>1. s \in Stream
    BY <1>2, ElementOfSeq
  <2>2. s.of \in Containers /\ ch \in Seq(Nat) /\ Len(ch) \in Nat /\ ChannelOk(s, made)
    BY <1>2, <2>1, LenProperties DEF Stream, LogsOk
  <2>3. \A j \in 1..Len(ch) : ch[j] \in Nat
    BY <2>2, ElementOfSeq
  <2>4. ChannelOk(s, nd) /\ Later(s, s, made)
    BY SMTT(30), <1>4, <2>2, <2>3 DEF ChannelOk, Later
  <2>5. u[i] = s \/ (s.of = c /\ u[i] = t)
    <3>1. u[i] = IF s.of = c /\ s.open THEN [s EXCEPT !.ch = processLogChunk(@, n)] ELSE s
      BY <1>6
    <3>2. [s EXCEPT !.ch = processLogChunk(@, n)] \in {s, t}
      BY <2>1 DEF processLogChunk, Stream
    <3> HIDE DEF u, s, t
    <3> QED BY <3>1, <3>2
  <2>6. CASE s.of = c /\ u[i] = t
    <3> DEFINE q == Append(ch, n)
    <3>1. \A j \in 1..Len(ch) : ch[j] < n
      BY <1>3, <1>4, <2>2, <2>3, <2>6 DEF ChannelOk, n
    <3>2. \A j, k \in 1..Len(ch) : j < k => ch[j] < ch[k]
      BY <2>2 DEF ChannelOk
    <3>0. n \in Nat /\ ch \in Seq(Nat) /\ q = Append(ch, n)
      BY <1>3, <2>2
    <3> HIDE DEF s, ch, q, t, u, st
    <3>3. /\ q \in Seq(Nat)
          /\ \A j \in 1..Len(q) : q[j] <= n /\ (q[j] = n \/ \E k \in 1..Len(ch) : q[j] = ch[k])
          /\ \A j, k \in 1..Len(q) : j < k => q[j] < q[k]
      BY <3>0, <3>1, <3>2, ChannelGrows
    <3>4. t.ch = q /\ t.of = s.of /\ t \in Stream
      BY <2>1, <3>3 DEF Stream, t, q, ch
    <3>5. nd[t.of] = n
      BY <1>3, <2>6, <3>4
    <3>6. ChannelOk(t, nd)
      BY <3>3, <3>4, <3>5 DEF ChannelOk
    <3>7. Later(s, t, made)
      BY <1>3, <2>6, <3>3, <3>4 DEF Later, ch, n
    <3> QED BY <2>6, <3>4, <3>6, <3>7 DEF s
  <2>7. CASE u[i] = s
    BY <2>1, <2>4, <2>7
  <2> QED BY <2>5, <2>6, <2>7
<1>8. DOMAIN u = 1..Len(st)
  BY <1>6
<1> HIDE DEF u
<1>9. u \in Seq(Stream) /\ Len(u) = Len(st)
  BY <1>5, <1>6, <1>7, <1>8 DEF u
<1>10. LogsOk(m.logLines, u, nd)
  BY <1>2, <1>3, <1>4, <1>7, <1>9, MovedOk
<1> QED BY <1>5, <1>10 DEF Inv

LEMMA EndKeeps == ASSUME Inv, NEW i \in DOMAIN streams, StreamEnds(i) PROVE Inv'
<1> DEFINE st == streams
           t == [st[i] EXCEPT !.open = FALSE]
           u == [st EXCEPT ![i] = t]
<1>1. UNCHANGED <<m, made, load>> /\ streams' = u
  BY DEF StreamEnds
<1>2. LogsOk(m.logLines, st, made) /\ made \in [Containers -> Nat] /\ st \in Seq(Stream)
  BY DEF Inv, LogsOk
<1>3. Len(st) \in Nat /\ DOMAIN st = 1..Len(st) /\ i \in 1..Len(st)
  BY <1>2, LenProperties
<1>4. \A j \in 1..Len(st) : st[j] \in Stream
  BY <1>2, ElementOfSeq
<1>5. t \in Stream /\ t.of = st[i].of /\ t.ch = st[i].ch
  BY <1>3, <1>4 DEF Stream
<1> HIDE DEF t
<1>6. /\ u \in Seq(Stream) /\ Len(u) = Len(st)
      /\ \A j \in 1..Len(st) : u[j] = IF j = i THEN t ELSE st[j]
  BY <1>2, <1>3, <1>5, ExceptSeq
<1> HIDE DEF u
<1>7. \A j \in 1..Len(st) : u[j].of = st[j].of /\ u[j].ch = st[j].ch
  BY <1>5, <1>6
<1>8. \A j \in 1..Len(st) :
         u[j].of = st[j].of /\ ChannelOk(u[j], made) /\ Later(st[j], u[j], made)
  BY <1>2, <1>7 DEF LogsOk, ChannelOk, Later
<1>9. \A c \in Containers : made[c] >= made[c]
  BY <1>2
<1>10. LogsOk(m.logLines, u, made)
  BY <1>2, <1>6, <1>8, <1>9, MovedOk
<1> QED BY <1>1, <1>10 DEF Inv

(* The line that leaves the channel is later than what is shown of its      *)
(* stream, and the lines left in the channel are later than it.             *)
LEMMA LineKeeps == ASSUME Inv, NEW i \in DOMAIN streams, handleLogLineMsg(i) PROVE Inv'
<1> DEFINE st == streams
           ls == m.logLines
           ch == st[i].ch
           t == [st[i] EXCEPT !.ch = Tail(ch), !.wait = TRUE]
           u == [st EXCEPT ![i] = t]
           l == [line |-> Head(ch), via |-> i]
<1>1. LogsOk(ls, st, made) /\ made \in [Containers -> Nat] /\ st \in Seq(Stream)
  BY DEF Inv, LogsOk
<1>2. Len(st) \in Nat /\ DOMAIN st = 1..Len(st) /\ i \in 1..Len(st) /\ i \in Nat /\ i > 0
  BY <1>1, LenProperties
<1>3. \A j \in 1..Len(st) : st[j] \in Stream
  BY <1>1, ElementOfSeq
<1>4. ch \in Seq(Nat) /\ ch # <<>> /\ st[i].of \in Containers /\ ChannelOk(st[i], made)
  BY <1>1, <1>2, <1>3 DEF handleLogLineMsg, Stream, LogsOk
<1>5. /\ UNCHANGED <<made, load>>
      /\ m' = [m EXCEPT !.logLines = KeepLast(Append(ls, l))]
  BY DEF handleLogLineMsg
<1>6. streams' = u
  BY <1>2, <1>3 DEF handleLogLineMsg, Stream
<1>7. /\ Len(ch) \in Nat /\ Len(ch) > 0 /\ Head(ch) = ch[1] /\ Head(ch) \in Nat
      /\ Tail(ch) \in Seq(Nat) /\ Len(Tail(ch)) = Len(ch) - 1
      /\ \A k \in 1..Len(Tail(ch)) : Tail(ch)[k] = ch[k + 1]
  BY <1>4, LenProperties, EmptySeq, HeadTailProperties
<1>8. t \in Stream /\ t.of = st[i].of /\ t.ch = Tail(ch)
  BY <1>2, <1>3, <1>7 DEF Stream
<1>9. /\ \A k \in 1..Len(Tail(ch)) : k + 1 \in 1..Len(ch)
      /\ 1 \in 1..Len(ch)
  BY <1>7
<1> HIDE DEF t
<1>10. /\ u \in Seq(Stream) /\ Len(u) = Len(st)
       /\ \A j \in 1..Len(st) : u[j] = IF j = i THEN t ELSE st[j]
  BY <1>1, <1>2, <1>8, ExceptSeq
<1> HIDE DEF u
<1>11. ASSUME NEW j \in 1..Len(st)
       PROVE  u[j].of = st[j].of /\ ChannelOk(u[j], made) /\ Later(st[j], u[j], made)
  <2>1. CASE j # i
    <3>1. u[j] = st[j] /\ ChannelOk(st[j], made)
      BY <1>1, <1>10, <2>1 DEF LogsOk
    <3> QED BY <3>1 DEF Later
  <2>2. CASE j = i
    <3> DEFINE tl == Tail(ch)
    <3>1. u[j] = t /\ t.ch = tl
      BY <1>8, <1>10, <2>2
    <3>2. \A k \in 1..Len(tl) : tl[k] <= made[st[i].of]
      BY <1>4, <1>7, <1>9 DEF ChannelOk
    <3>3. ASSUME NEW k \in 1..Len(tl), NEW n \in 1..Len(tl), k < n PROVE tl[k] < tl[n]
      <4>1. k + 1 < n + 1 /\ k + 1 \in 1..Len(ch) /\ n + 1 \in 1..Len(ch)
        BY <1>9, <3>3
      <4> QED BY <1>4, <1>7, <4>1 DEF ChannelOk
    <3>4. Later(st[j], u[j], made)
      BY <1>7, <1>9, <2>2, <3>1 DEF Later
    <3> HIDE DEF tl, ch
    <3> QED BY <1>8, <2>2, <3>1, <3>2, <3>3, <3>4 DEF ChannelOk
  <2> QED BY <2>1, <2>2
<1>12. LogsOk(ls, u, made)
  <2>1. \A c \in Containers : made[c] >= made[c]
    BY <1>1
  <2> QED BY <1>1, <1>10, <1>11, <2>1, MovedOk
<1>13. l \in Line /\ l.via = i /\ l.line = ch[1]
  BY <1>2, <1>7 DEF Line
<1>14. LineOk(l, u, made)
  <2>1. u[i].of = st[i].of /\ u[i].ch = Tail(ch) /\ i <= Len(u)
    BY <1>2, <1>8, <1>10
  <2>2. ch[1] <= made[st[i].of]
    BY <1>4, <1>9 DEF ChannelOk
  <2>3. ASSUME NEW k \in 1..Len(Tail(ch)) PROVE ch[1] < Tail(ch)[k]
    <3>1. 1 < k + 1 /\ k + 1 \in 1..Len(ch)
      BY <1>9
    <3> QED BY <1>4, <1>7, <1>9, <3>1 DEF ChannelOk
  <2> HIDE DEF l, ch, st
  <2> QED BY <1>13, <2>1, <2>2, <2>3 DEF LineOk
<1>15. ASSUME NEW j \in 1..Len(ls), ls[j].via = l.via PROVE ls[j].line < l.line
  <2>1. LineOk(ls[j], st, made)
    BY <1>1, LinesTyped
  <2>2. \A k \in 1..Len(ch) : ls[j].line < ch[k]
    BY <1>2, <1>13, <1>15, <2>1 DEF LineOk
  <2> QED BY <1>9, <1>13, <2>2
<1> HIDE DEF l
<1>16. LogsOk(KeepLast(Append(ls, l)), u, made)
  BY <1>12, <1>13, <1>14, <1>15, ShownOk
<1>17. /\ m'.logLines = KeepLast(Append(ls, l)) /\ DOMAIN m' = DOMAIN m
       /\ m'.containers = m.containers /\ m'.cursor = m.cursor
  BY <1>5 DEF Inv, ModelOk, Shape
<1>18. OneDialog(m')
  BY <1>5 DEF Inv, ModelOk, Shape, OneDialog
<1>19. ModelOk(m')
  BY <1>17, <1>18 DEF Inv, ModelOk, Shape, OnContainer, InRange
<1> QED BY <1>5, <1>6, <1>16, <1>17, <1>19 DEF Inv

(* The rest leave the model and the streams.                                *)
LEMMA QuietKeeps == ASSUME Inv, UNCHANGED <<m, streams, made, load>> PROVE Inv'
BY DEF Inv

LEMMA StepKeepsInv == Inv /\ [Next]_dvars => Inv'
<1> SUFFICES ASSUME Inv, [Next]_dvars PROVE Inv'
  OBVIOUS
<1>1. CASE \E k \in load.keys : Press(k)
  BY <1>1, PressKeeps
<1>2. CASE \E c \in BagToSet(cmds) : ListArrives(c)
  BY <1>2, ListKeeps
<1>3. CASE \E c \in BagToSet(cmds) : ResultArrives(c)
  BY <1>3, QuietKeeps DEF ResultArrives
<1>4. CASE DockerEvent
  BY <1>4, QuietKeeps DEF DockerEvent
<1>5. CASE handlePruneResultMsg
  BY <1>5, PruneKeeps
<1>6. CASE handleTickMsg
  BY <1>6, QuietKeeps DEF handleTickMsg
<1>7. CASE \E c \in load.containers : Writes(c)
  BY <1>7, WritesKeep
<1>8. CASE \E i \in DOMAIN streams : StreamEnds(i)
  BY <1>8, EndKeeps
<1>9. CASE \E i \in DOMAIN streams : handleLogLineMsg(i)
  BY <1>9, LineKeeps
<1>10. CASE UNCHANGED dvars
  BY <1>10, QuietKeeps DEF dvars
<1> QED BY <1>1, <1>2, <1>3, <1>4, <1>5, <1>6, <1>7, <1>8, <1>9, <1>10 DEF Next

-----------------------------------------------------------------------------
(* The invariant of the message loop: at most one dialog is open, the       *)
(* cursor is on a container, and the channels and the log view hold the     *)
(* lines of a stream in order.                                              *)
THEOREM DashboardInvariant == Spec => []Inv
BY InitInv, StepKeepsInv, PTL DEF Spec

(* Whatever the order of keys and results, keys go to the dialog that View  *)
(* draws, and a dialog that gets the keys is drawn (handleModalKeys, View). *)
THEOREM KeysToScreen == Spec => []KeysGoToTheScreen
<1>1. Inv => KeysGoToTheScreen
  <2> SUFFICES ASSUME ModelOk(m) PROVE KeysGoToTheScreen
    BY DEF Inv
  <2> QED BY DEF ModelOk, OnContainer, OneDialog, KeysGoToTheScreen, KeysGoTo, Screen
<1> QED BY <1>1, DashboardInvariant, PTL

(* However lists shrink and grow while the user moves, the cursor is on a   *)
(* container whenever there is one (handleContainerListMsg).                *)
THEOREM CursorStays == Spec => []CursorOnContainer
<1>1. Inv => CursorOnContainer
  BY DEF Inv, ModelOk, OnContainer, CursorOnContainer
<1> QED BY <1>1, DashboardInvariant, PTL

(* Lines of one log stream are shown in the order they were written, and    *)
(* none twice, for any number of streams, whatever is opened and closed     *)
(* meanwhile and whatever full channels drop (processLogChunk, Update).     *)
THEOREM StreamsOrdered == Spec => []StreamsKeepOrder
<1>1. Inv => StreamsKeepOrder
  <2> SUFFICES ASSUME m.logLines \in Seq(Line), InOrder(m.logLines) PROVE StreamsKeepOrder
    BY DEF Inv, LogsOk
  <2>1. DOMAIN m.logLines = 1..Len(m.logLines)
    BY LenProperties
  <2> QED BY <2>1 DEF InOrder, StreamsKeepOrder
<1> QED BY <1>1, DashboardInvariant, PTL

=============================================================================
