----------------------------- MODULE Dashboard -----------------------------
(***************************************************************************)
(* The message loop of the terminal dashboard (internal/tui/tui.go).       *)
(* Update handles one message at a time: a key, the result of a command,   *)
(* or a tick; commands run in goroutines of their own, so their results    *)
(* come in any order.  As in the code, the model is one value, and a       *)
(* handler returns the new model and the commands to start.                *)
(*                                                                         *)
(* Containers are numbers, listed in ascending order.  A log line is the   *)
(* number of the line in its container's output.  The event panel, the     *)
(* statistics, the disk usage, the map and the names of the containers     *)
(* whose logs are shown are only displayed and are left out, and so is     *)
(* logSearch, which no handler sets to anything but "".  Docker events are *)
(* in EventWatch, alerts in AlertPanel.                                    *)
(***************************************************************************)
EXTENDS Naturals, Sequences, FiniteSets, Bags

CONSTANTS Containers,  \* containers there may be, numbers
          Loads,       \* what an instance is about: the keys the user presses,
                       \* and three bounds: the containers there may be, the log
                       \* streams that can be opened, the lines a container
                       \* writes (the log offset too)
          LogCap,      \* capacity of a log stream's channel (100)
          LogTail,     \* lines of the past a new log stream starts with (50)
          LinesCap,    \* lines the log view keeps (1000)
          MaxStreams,  \* the most log streams of a load
          MaxCmds      \* bound: commands under way

ASSUME DashboardAssumption ==
    /\ Containers \subseteq Nat /\ IsFiniteSet(Containers)
    /\ LogCap \in Nat \ {0} /\ LogTail \in 0..LogCap /\ LinesCap \in Nat \ {0}
    /\ MaxStreams \in Nat /\ MaxCmds \in Nat
    /\ Loads \subseteq [keys: SUBSET STRING, containers: SUBSET Containers,
                        streams: 0..MaxStreams, lines: Nat]

VARIABLES m,         \* the Model
          cmds,      \* bag of the commands under way
          ticking,   \* the tick command is under way
          streams,   \* log streams, in the order they were opened
          made,      \* made[c]: lines container c has written
          listAll,   \* history: showAll of the fetch whose list is shown
          load       \* the load of this behaviour

dvars == <<m, cmds, ticking, streams, made, listAll, load>>

(* The enumeration of s in ascending order; there is exactly one.          *)
Ascending(s) ==
    {q \in [1..Cardinality(s) -> s] : \A i, j \in 1..Cardinality(s) : i < j => q[i] < q[j]}
InRange(x) == x.cursor < Len(x.containers)
AtCursor(x) == x.containers[x.cursor + 1]

-----------------------------------------------------------------------------
fetchContainers(x) == [type |-> "list", all |-> x.showAll]
runPrune == [type |-> "prune"]
executeAction(c) == [type |-> "action", on |-> c]
executeStress == [type |-> "stress"]

(* What a handler returns: the model, the commands it starts, and the      *)
(* containers whose logs it starts to stream.                              *)
Return(x, cs) == [m |-> x, cmds |-> cs, open |-> {}]
Streaming(x, cs) == [m |-> x, cmds |-> {}, open |-> cs]

\* Fault: a list that has become shorter leaves the cursor where it was.
handleContainerListMsgAsIs(x, list) == [x EXCEPT !.containers = list]

handleContainerListMsg(x, list) ==
    [x EXCEPT !.containers = list,
              !.cursor = IF @ >= Len(list) /\ Len(list) > 0 THEN Len(list) - 1 ELSE @]

(* Keys of the confirmation: "y" acts on the container under the cursor.   *)
handleConfirmKeys(x, k) ==
    LET y == [x EXCEPT !.confirmAction = ""]
    IN Return(y, IF k = "y" /\ InRange(x) THEN {executeAction(AtCursor(x))} ELSE {})

handleStressKeys(x, k) ==
    Return([x EXCEPT !.showStress = FALSE], IF k \in {"c", "m", "b"} THEN {executeStress} ELSE {})

handleCleanupKeys(x, k) ==
    CASE k \in {"esc", "c", "C"} -> Return([x EXCEPT !.showCleanup = FALSE], {})
      [] k \in {"i", "v"} -> Return([x EXCEPT !.pruning = TRUE], {runPrune})
      [] OTHER -> Return(x, {})

handleSearchKeys(x, k) ==
    Return(IF k = "esc" THEN [x EXCEPT !.searchMode = FALSE] ELSE x, {})

handleNavigationKeys(x, k) ==
    Return(CASE k = "/" -> [x EXCEPT !.searchMode = @ \/ x.showLogs]
             [] k = "up" /\ x.showLogs -> [x EXCEPT !.logOffset = @ + 1]
             [] k = "up" /\ ~x.showLogs /\ x.cursor > 0 -> [x EXCEPT !.cursor = @ - 1]
             [] k = "down" /\ x.showLogs /\ x.logOffset > 0 -> [x EXCEPT !.logOffset = @ - 1]
             [] k = "down" /\ ~x.showLogs /\ x.cursor + 1 < Len(x.containers) ->
                  [x EXCEPT !.cursor = @ + 1]
             [] k = "f" /\ x.showLogs -> [x EXCEPT !.logOffset = 0]
             [] k = " " /\ ~x.showLogs /\ ~x.showDetail /\ ~x.showMap /\ InRange(x) ->
                  [x EXCEPT !.selectedIDs = IF AtCursor(x) \in @ THEN @ \ {AtCursor(x)}
                                            ELSE @ \cup {AtCursor(x)}]
             [] OTHER -> x, {})

(* The placeholder shown until the first line comes.                        *)
Loading == <<[line |-> 0, via |-> 0]>>

startMultiTailLogs(x) ==
    LET cs == {x.containers[i] : i \in DOMAIN x.containers} \cap x.selectedIDs
    IN IF x.showLogs \/ x.selectedIDs = {} THEN Return(x, {})
       ELSE Streaming([x EXCEPT !.showLogs = TRUE, !.logOffset = 0,
                                !.logLines = Loading], cs)

toggleSingleContainerLogs(x) ==
    IF x.showLogs THEN Return([x EXCEPT !.showLogs = FALSE, !.logLines = <<>>], {})
    ELSE IF ~InRange(x) THEN Return(x, {})
    ELSE LET cs == {AtCursor(x)}
         IN Streaming([x EXCEPT !.showLogs = TRUE, !.logOffset = 0,
                                !.logLines = Loading], cs)

(* Exporting the logs and the shell in a container change nothing here.    *)
handleLogKeys(x, k) ==
    CASE k = "L" -> startMultiTailLogs(x)
      [] k = "l" -> toggleSingleContainerLogs(x)
      [] k = "E" -> Return(x, {})

handleActionKeys(x, k) ==
    Return(CASE k = "s" /\ InRange(x) -> [x EXCEPT !.confirmAction = "stop"]
             [] k = "R" /\ InRange(x) -> [x EXCEPT !.confirmAction = "restart"]
             [] k = "S" -> [x EXCEPT !.showStress = TRUE]
             [] OTHER -> x, {})

handleViewKeys(x, k) ==
    Return(CASE k = "?" -> [x EXCEPT !.showHelp = ~@]
             [] k = "enter" -> [x EXCEPT !.showDetail = ~@]
             [] k = "esc" -> [x EXCEPT !.showDetail = FALSE, !.showHelp = FALSE,
                                       !.showLogs = FALSE, !.logLines = <<>>,
                                       !.searchMode = FALSE,
                                       !.confirmAction = "", !.showStress = FALSE,
                                       !.showMap = FALSE, !.showCleanup = FALSE]
             [] k = "C" /\ ~x.showLogs /\ ~x.showDetail /\ ~x.showMap ->
                  [x EXCEPT !.showCleanup = ~@]
             [] k = "m" -> [x EXCEPT !.showMap = ~@]
             [] OTHER -> x, {})

handleNormalKeys(x, k) ==
    CASE k = "a" -> LET y == [x EXCEPT !.showAll = ~@] IN Return(y, {fetchContainers(y)})
      [] k = "q" -> Return([x EXCEPT !.quitting = TRUE], {})
      [] k = "r" -> Return(x, {fetchContainers(x)})
      [] k \in {"/", "up", "down", "f", " "} -> handleNavigationKeys(x, k)
      [] k \in {"l", "L", "E"} -> handleLogKeys(x, k)
      [] k \in {"s", "R", "x", "S"} -> handleActionKeys(x, k)
      [] k \in {"?", "enter", "esc", "C", "m"} -> handleViewKeys(x, k)
      [] OTHER -> Return(x, {})

\* Fault: keys the confirmation does not know are handled as usual.
handleKeyMsgLeaky(x, k) ==
    CASE x.confirmAction # "" /\ k \in {"y", "esc"} -> handleConfirmKeys(x, k)
      [] x.showStress -> handleStressKeys(x, k)
      [] x.showCleanup -> handleCleanupKeys(x, k)
      [] x.searchMode -> handleSearchKeys(x, k)
      [] OTHER -> handleNormalKeys(x, k)

(* A dialog that is open gets the key; the order is handleModalKeys'.      *)
handleKeyMsg(x, k) ==
    IF x.confirmAction # "" THEN handleConfirmKeys(x, k)
    ELSE IF x.showStress THEN handleStressKeys(x, k)
    ELSE IF x.showCleanup THEN handleCleanupKeys(x, k)
    ELSE IF x.searchMode THEN handleSearchKeys(x, k)
    ELSE handleNormalKeys(x, k)

-----------------------------------------------------------------------------
NewModel ==
    [containers |-> <<>>, cursor |-> 0, showAll |-> FALSE, selectedIDs |-> {},
     confirmAction |-> "", showStress |-> FALSE, showCleanup |-> FALSE, pruning |-> FALSE,
     searchMode |-> FALSE, showLogs |-> FALSE, logOffset |-> 0,
     logLines |-> <<>>, showHelp |-> FALSE, showDetail |-> FALSE,
     showMap |-> FALSE, quitting |-> FALSE]

Init ==
    /\ m = NewModel
    /\ cmds = SetToBag({fetchContainers(NewModel)})
    /\ ticking = TRUE
    /\ streams = <<>>
    /\ made = [c \in Containers |-> 0]
    /\ listAll = FALSE
    /\ load \in Loads

Running == ~m.quitting
Underway(c) == BagIn(c, cmds)

(* StreamContainerLogs: the channel of a new stream and the command that   *)
(* waits on it.  A stream that cannot be opened is passed over.            *)
NewStream(c) ==
    LET first == IF made[c] > LogTail THEN made[c] - LogTail ELSE 0
    IN [of |-> c, ch |-> [i \in 1..(made[c] - first) |-> first + i], open |-> TRUE, wait |-> TRUE]

Press(k) ==
    LET r == handleKeyMsg(m, k)
    IN /\ Running
       /\ BagCardinality(cmds) + Cardinality(r.cmds) <= MaxCmds
       /\ r.m.logOffset <= load.lines
       /\ m' = r.m
       /\ cmds' = cmds (+) SetToBag(r.cmds)
       /\ \E opened \in SUBSET r.open : \E order \in Ascending(opened) :
             /\ Len(streams) + Cardinality(opened) <= load.streams
             /\ streams' = streams \o [i \in 1..Cardinality(opened) |-> NewStream(order[i])]
       /\ UNCHANGED <<ticking, made, listAll, load>>

(* The result of fetchContainers: whatever Docker lists, or an error.      *)
ListArrives(c) ==
    /\ Running
    /\ c.type = "list" /\ Underway(c)
    /\ cmds' = cmds (-) SetToBag({c})
    /\ \/ \E s \in SUBSET load.containers : \E list \in Ascending(s) :
             m' = handleContainerListMsg(m, list) /\ listAll' = c.all
       \/ UNCHANGED <<m, listAll>>
    /\ UNCHANGED <<ticking, streams, made, load>>

(* handleActionResultMsg and handleStressResultMsg refresh the list, as    *)
(* handleDockerEventMsg does.                                              *)
ResultArrives(c) ==
    /\ Running
    /\ c.type \in {"action", "stress"} /\ Underway(c)
    /\ cmds' = (cmds (-) SetToBag({c})) (+) SetToBag({fetchContainers(m)})
    /\ UNCHANGED <<m, ticking, streams, made, listAll, load>>

DockerEvent ==
    /\ Running
    /\ BagCardinality(cmds) < MaxCmds
    /\ cmds' = cmds (+) SetToBag({fetchContainers(m)})
    /\ UNCHANGED <<m, ticking, streams, made, listAll, load>>

handlePruneResultMsg ==
    /\ Running
    /\ Underway(runPrune)
    /\ cmds' = cmds (-) SetToBag({runPrune})
    /\ m' = [m EXCEPT !.pruning = FALSE]
    /\ UNCHANGED <<ticking, streams, made, listAll, load>>

Refreshing == ~m.showLogs /\ ~m.showMap /\ m.confirmAction = ""

\* Fault: the tick is started again only when the list is refreshed.
handleTickMsgOnce ==
    /\ Running /\ ticking
    /\ BagCardinality(cmds) < MaxCmds
    /\ cmds' = IF Refreshing THEN cmds (+) SetToBag({fetchContainers(m)}) ELSE cmds
    /\ ticking' = Refreshing
    /\ UNCHANGED <<m, streams, made, listAll, load>>

handleTickMsg ==
    /\ Running /\ ticking
    /\ BagCardinality(cmds) < MaxCmds
    /\ cmds' = IF Refreshing THEN cmds (+) SetToBag({fetchContainers(m)}) ELSE cmds
    /\ ticking' = TRUE
    /\ UNCHANGED <<m, streams, made, listAll, load>>

-----------------------------------------------------------------------------
\* Fault: a line overtakes the ones that wait.
processLogChunkFirst(ch, n) == IF Len(ch) < LogCap THEN <<n>> \o ch ELSE ch

(* A line is put into the channel, or dropped if there is no room.         *)
processLogChunk(ch, n) == IF Len(ch) < LogCap THEN Append(ch, n) ELSE ch

Writes(c) ==
    /\ made[c] < load.lines
    /\ made' = [made EXCEPT ![c] = @ + 1]
    /\ streams' = [i \in DOMAIN streams |->
                     IF streams[i].of = c /\ streams[i].open
                     THEN [streams[i] EXCEPT !.ch = processLogChunk(@, made'[c])]
                     ELSE streams[i]]
    /\ UNCHANGED <<m, cmds, ticking, listAll, load>>

StreamEnds(i) ==
    /\ streams[i].open
    /\ streams' = [streams EXCEPT ![i].open = FALSE]
    /\ UNCHANGED <<m, cmds, ticking, made, listAll, load>>

KeepLast(lines) ==
    IF Len(lines) > LinesCap THEN SubSeq(lines, Len(lines) - LinesCap + 1, Len(lines)) ELSE lines

\* Fault: the next line is waited for only while the logs are shown.
handleLogLineMsgIfShown(i) ==
    /\ Running
    /\ streams[i].wait /\ streams[i].ch # <<>>
    /\ m' = [m EXCEPT !.logLines = KeepLast(Append(@,
                 [line |-> Head(streams[i].ch), via |-> i]))]
    /\ streams' = [streams EXCEPT ![i].ch = Tail(@), ![i].wait = m.showLogs]
    /\ UNCHANGED <<cmds, ticking, made, listAll, load>>

(* waitForNextLog returns a line and Update appends it, whatever the view  *)
(* shows, and waits for the next one.                                      *)
handleLogLineMsg(i) ==
    /\ Running
    /\ streams[i].wait /\ streams[i].ch # <<>>
    /\ m' = [m EXCEPT !.logLines = KeepLast(Append(@,
                 [line |-> Head(streams[i].ch), via |-> i]))]
    /\ streams' = [streams EXCEPT ![i].ch = Tail(@), ![i].wait = TRUE]
    /\ UNCHANGED <<cmds, ticking, made, listAll, load>>

Next ==
    \/ \E k \in load.keys : Press(k)
    \/ \E c \in BagToSet(cmds) : ListArrives(c) \/ ResultArrives(c)
    \/ DockerEvent \/ handlePruneResultMsg \/ handleTickMsg
    \/ \E c \in load.containers : Writes(c)
    \/ \E i \in DOMAIN streams : StreamEnds(i) \/ handleLogLineMsg(i)

(* The message loop and the clock go on, every list command ends, not      *)
(* always with an error, and every log line is handled at some time;       *)
(* nothing is assumed of the user.                                         *)
Fairness ==
    /\ WF_dvars(handleTickMsg)
    /\ \A b \in BOOLEAN :
          /\ WF_dvars(ListArrives([type |-> "list", all |-> b]))
          /\ SF_dvars(ListArrives([type |-> "list", all |-> b]) /\ listAll' = b)
    /\ \A i \in 1..MaxStreams : WF_dvars(i \in DOMAIN streams /\ handleLogLineMsg(i))

Spec == Init /\ [][Next]_dvars
FairSpec == Spec /\ Fairness

-----------------------------------------------------------------------------
(* What View draws, on a terminal that is wide enough.                     *)
Screen(x) ==
    IF x.showStress THEN "stress"
    ELSE IF x.showCleanup THEN "cleanup"
    ELSE IF x.confirmAction # "" /\ InRange(x) THEN "confirm"
    ELSE IF x.showMap THEN "map" ELSE "table"

(* Who gets the keys: the order of handleModalKeys.                        *)
KeysGoTo(x) ==
    IF x.confirmAction # "" THEN "confirm"
    ELSE IF x.showStress THEN "stress"
    ELSE IF x.showCleanup THEN "cleanup"
    ELSE IF x.searchMode THEN "search" ELSE "normal"

\* View and handleModalKeys ask for the dialogs in different orders; still keys
\* go to the dialog that is drawn, and a dialog that gets the keys is drawn,
\* but for a confirmation whose container list has become empty.  The search
\* bar is open only with the logs, the cleanup panel only over the plain table.
KeysGoToTheScreen ==
    /\ Screen(m) \in {"stress", "cleanup", "confirm"} => KeysGoTo(m) = Screen(m)
    /\ KeysGoTo(m) \in {"stress", "cleanup"} => Screen(m) = KeysGoTo(m)
    /\ KeysGoTo(m) = "confirm" => Screen(m) = "confirm" \/ m.containers = <<>>
    /\ m.searchMode => m.showLogs
    /\ m.showCleanup => ~m.showLogs /\ ~m.showDetail /\ ~m.showMap

\* The cursor is on a container whenever there is one, however the list shrinks
\* and grows while the user moves.
CursorOnContainer == m.containers # <<>> => InRange(m)

\* Lines of one stream are shown in the order in which the container wrote
\* them, and none twice, whatever the user opens and closes meanwhile.
StreamsKeepOrder ==
    \A j, k \in DOMAIN m.logLines :
        j < k /\ m.logLines[j].via = m.logLines[k].via => m.logLines[j].line < m.logLines[k].line

Buffered(i) == i \in DOMAIN streams /\ streams[i].ch # <<>>

\* No line is left in a stream: what the channel holds is handled at some time.
LinesAreHandled ==
    \A i \in 1..MaxStreams :
        Buffered(i) ~> (~Buffered(i) \/ ~Running)

\* The 'a' key takes effect: if from some time on the user leaves it alone and
\* the table is on the screen, the list shown is in the end one of the chosen
\* kind, even if older results arrive after newer ones.
ShowAllTakesEffect ==
    \A b \in BOOLEAN :
        <>[](m.showAll = b /\ Refreshing /\ Running) => <>[](listAll = b)

=============================================================================
