----------------------------- MODULE EventWatch -----------------------------
(***************************************************************************)
(* How Docker events reach the dashboard.  WatchEvents of                  *)
(* internal/docker/client.go subscribes to the daemon and starts a         *)
(* goroutine that forwards events over an unbuffered channel; the command  *)
(* watchDockerEvents of internal/tui/tui.go takes ONE result from it, and  *)
(* Update, handling an event, starts the next command, which subscribes    *)
(* again.                                                                  *)
(*                                                                         *)
(* Events are numbered in the order in which the daemon emits them.  A     *)
(* subscription is a record: its goroutine (pc, hold), what the daemon has *)
(* sent and the goroutine has not read (msgs), a failed stream (errs), the *)
(* two channels (errCh; eventCh is closed when the goroutine is done) and  *)
(* the command that waits on it (reader).                                  *)
(***************************************************************************)
EXTENDS Naturals, Sequences

CONSTANTS Monitored,   \* the events of containers isMonitored lets through
          MaxEvents,   \* bound: events the daemon emits
          EventCap     \* length to which the event log is cut (50)

ASSUME EventAssumption == MaxEvents \in Nat /\ EventCap \in Nat \ {0}

VARIABLES ctxDone,    \* the process context is cancelled
          emitted,    \* number of events emitted so far
          subs,       \* the subscriptions, in the order they were made
          starting,   \* watch commands that have not subscribed yet
          inbox,      \* results on their way to Update
          prog,       \* the program: "running", "quit" or "panicked"
          events,     \* m.events: event numbers, 0 for an error, newest first
          shown       \* history: the events Update has handled, in order

evars == <<ctxDone, emitted, subs, starting, inbox, prog, events, shown>>

NewSub == [pc |-> "loop", msgs |-> <<>>, hold |-> 0, errs |-> FALSE, errCh |-> "open",
           reader |-> "waiting"]

(* NewModel and the model's Init, which starts the first watch.            *)
Init ==
    /\ ctxDone = FALSE
    /\ emitted = 0
    /\ subs = <<>>
    /\ starting = 1
    /\ inbox = <<>>
    /\ prog = "running"
    /\ events = <<>>
    /\ shown = <<>>

-----------------------------------------------------------------------------
(* The daemon: an event goes to every stream that is still read, and a     *)
(* stream may fail.  A cancelled context fails every stream.               *)
Emit ==
    /\ ~ctxDone
    /\ emitted < MaxEvents
    /\ emitted' = emitted + 1
    /\ subs' = [i \in DOMAIN subs |->
                  IF subs[i].pc = "done" \/ subs[i].errs THEN subs[i]
                  ELSE [subs[i] EXCEPT !.msgs = Append(@, emitted')]]
    /\ UNCHANGED <<ctxDone, starting, inbox, prog, events, shown>>

StreamFails(i) ==
    /\ subs[i].pc # "done" /\ ~subs[i].errs
    /\ subs' = [subs EXCEPT ![i].errs = TRUE]
    /\ UNCHANGED <<ctxDone, emitted, starting, inbox, prog, events, shown>>

\* Fault: a new stream begins with the events of the past.
WatchEventsSince ==
    /\ starting > 0
    /\ starting' = starting - 1
    /\ subs' = Append(subs, [NewSub EXCEPT !.msgs = [k \in 1..emitted |-> k]])
    /\ UNCHANGED <<ctxDone, emitted, inbox, prog, events, shown>>

(* The watch command begins: a new subscription, from now on.              *)
WatchEvents ==
    /\ starting > 0
    /\ starting' = starting - 1
    /\ subs' = Append(subs, NewSub)
    /\ UNCHANGED <<ctxDone, emitted, inbox, prog, events, shown>>

\* Fault: the goroutine ends without closing its channels.
EndedOpen(s, e) == [s EXCEPT !.pc = "lost"]

\* Fault: the error of a stream is swallowed.
EndedSilently(s, e) == [s EXCEPT !.pc = "done", !.errCh = "closed"]

(* The goroutine returns, which closes its channels.                       *)
Ended(s, e) == [s EXCEPT !.pc = "done", !.errCh = e]

(* The select of the goroutine; any ready case may be taken.               *)
Forward(i) ==
    /\ subs[i].pc = "loop"
    /\ \/ ctxDone /\ subs' = [subs EXCEPT ![i] = Ended(@, "closed")]
       \/ (subs[i].errs \/ ctxDone) /\ subs' = [subs EXCEPT ![i] = Ended(@, "err")]
       \/ /\ subs[i].msgs # <<>>
          /\ LET e == Head(subs[i].msgs)
             IN subs' = [subs EXCEPT ![i].msgs = Tail(@),
                                     ![i].pc = IF e \in Monitored THEN "sending" ELSE "loop",
                                     ![i].hold = IF e \in Monitored THEN e ELSE 0]
    /\ UNCHANGED <<ctxDone, emitted, starting, inbox, prog, events, shown>>

-----------------------------------------------------------------------------
EventMsg(e) == [type |-> "event", event |-> e]
ErrorMsg(nil) == [type |-> "error", nil |-> nil]

(* The select of watchDockerEvents.  A closed errCh yields a nil error; a  *)
(* nil message is not delivered.                                           *)
watchDockerEvents(i) ==
    /\ subs[i].reader = "waiting"
    /\ \/ /\ ctxDone \/ subs[i].pc = "done"
          /\ subs' = [subs EXCEPT ![i].reader = "gone"]
          /\ UNCHANGED inbox
       \/ /\ subs[i].errCh # "open"
          /\ subs' = [subs EXCEPT ![i].reader = "gone"]
          /\ inbox' = Append(inbox, ErrorMsg(subs[i].errCh = "closed"))
       \/ /\ subs[i].pc = "sending"
          /\ subs' = [subs EXCEPT ![i].reader = "gone", ![i].pc = "loop", ![i].hold = 0]
          /\ inbox' = Append(inbox, EventMsg(subs[i].hold))
    /\ UNCHANGED <<ctxDone, emitted, starting, prog, events, shown>>

Cut(log) == IF Len(log) > EventCap THEN SubSeq(log, 1, EventCap) ELSE log

\* Fault: the next watch is started twice.
handleDockerEventMsgTwice(e) ==
    /\ events' = Cut(<<e>> \o events)
    /\ shown' = Append(shown, e)
    /\ starting' = starting + 2
    /\ UNCHANGED prog

(* The event is logged and the next watch begins.  NewModel does not set   *)
(* the model's store, so the handler's SaveEvent is never reached; the     *)
(* list it refreshes is in Dashboard.                                      *)
handleDockerEventMsg(e) ==
    /\ events' = Cut(<<e>> \o events)
    /\ shown' = Append(shown, e)
    /\ starting' = starting + 1
    /\ UNCHANGED prog

(* Update of an error: the text of a nil error is a nil dereference.  The  *)
(* log is not cut and no new watch is started.                             *)
handleDockerErrorMsg(nil) ==
    /\ IF nil THEN prog' = "panicked" /\ UNCHANGED events
              ELSE events' = <<0>> \o events /\ UNCHANGED prog
    /\ UNCHANGED <<shown, starting>>

Update ==
    /\ prog = "running" /\ inbox # <<>>
    /\ inbox' = Tail(inbox)
    /\ LET m == Head(inbox)
       IN \/ m.type = "event" /\ handleDockerEventMsg(m.event)
          \/ m.type = "error" /\ handleDockerErrorMsg(m.nil)
    /\ UNCHANGED <<ctxDone, emitted, subs>>

(* SIGINT or SIGTERM, and the end of the program, by the user or by the    *)
(* goroutine of Run that waits for the context.                            *)
Cancel ==
    /\ ~ctxDone
    /\ ctxDone' = TRUE
    /\ UNCHANGED <<emitted, subs, starting, inbox, prog, events, shown>>

Quit ==
    /\ prog = "running"
    /\ prog' = "quit"
    /\ UNCHANGED <<ctxDone, emitted, subs, starting, inbox, events, shown>>

Next ==
    \/ Emit \/ WatchEvents \/ Update \/ Cancel \/ Quit
    \/ \E i \in DOMAIN subs : StreamFails(i) \/ Forward(i) \/ watchDockerEvents(i)

(* Goroutines and the message loop run when they can; nothing is assumed   *)
(* of the daemon, the user and signals.                                    *)
Fairness ==
    /\ WF_evars(WatchEvents) /\ WF_evars(Update)
    /\ \A i \in 1..(MaxEvents + 1) :
          /\ WF_evars(i \in DOMAIN subs /\ Forward(i))
          /\ WF_evars(i \in DOMAIN subs /\ watchDockerEvents(i))

Spec == Init /\ [][Next]_evars /\ Fairness

-----------------------------------------------------------------------------
Waiting(i) == i \in DOMAIN subs /\ subs[i].reader = "waiting"
\* A command that waits on i has something to return.
Ready(i) ==
    \/ ctxDone \/ subs[i].errs \/ subs[i].pc # "loop"
    \/ \E k \in DOMAIN subs[i].msgs : subs[i].msgs[k] \in Monitored

IsEvent(x) == x # 0
InLog(e) == \E i \in DOMAIN events : events[i] = e

-----------------------------------------------------------------------------
\* Only one watch is ever under way: about to subscribe, waiting, or with its
\* result on the way to Update; and what it waits on is the newest
\* subscription.
OneWatchAtATime ==
    /\ starting + Len(inbox) <= 1
    /\ \A i \in DOMAIN subs :
          Waiting(i) => i = Len(subs) /\ starting = 0 /\ inbox = <<>>

\* However often the dashboard subscribes again, an event is shown at most once
\* and events are shown in the order in which they happened; what the log
\* holds of them are the latest, newest first, all of them until it is full,
\* and always the last.
ShownOnceInOrder ==
    /\ \A j, k \in DOMAIN shown : j < k => shown[j] < shown[k]
    /\ \A i, j \in DOMAIN events :
          i < j /\ IsEvent(events[i]) /\ IsEvent(events[j]) => events[i] > events[j]
    /\ \A j \in DOMAIN events :
          IsEvent(events[j]) => \E k \in DOMAIN shown : shown[k] = events[j]
    /\ \A k \in DOMAIN shown :
          \/ InLog(shown[k])
          \/ /\ k < Len(shown) /\ Len(events) >= EventCap
             /\ \A j \in DOMAIN events : IsEvent(events[j]) => events[j] > shown[k]

\* A watch never hangs: when its subscription has an event, an error or the end
\* of the context for it, it returns.
WatchReturns ==
    \A i \in 1..(MaxEvents + 1) : (Waiting(i) /\ Ready(i)) ~> ~Waiting(i)

\* client.go:395-399, "This guarantees the internal goroutine does not leak":
\* once the context is cancelled, every goroutine of WatchEvents returns.
WatchGoroutinesEnd ==
    ctxDone ~> \A i \in DOMAIN subs : subs[i].pc = "done"

\* The stream's own failures never bring the program down: the only error that
\* reaches Update without a text is the one of a cancelled context.
PanicsOnlyAfterCancel == prog = "panicked" => ctxDone

=============================================================================
