---------------------------- MODULE PruneService ----------------------------
(***************************************************************************)
(* The automatic cleanup of internal/prune/pruner.go, the event store it   *)
(* reports to, and the end of the interactive mode in cmd/agent/main.go:   *)
(* runTUIMode closes the store when the dashboard returns, whether or not  *)
(* the context was cancelled, and nobody waits for the pruner.             *)
(*                                                                         *)
(* The clock counts check periods (5 minutes).  The pruner is the only     *)
(* caller of SaveEvent: the dashboard is given the store and keeps no      *)
(* reference to it.                                                        *)
(***************************************************************************)
EXTENDS EventStore

CONSTANTS MinGap,     \* one hour, in check periods (12 in the code)
          MaxTime,    \* bound on the clock
          Never       \* lastPrune before the first prune

ASSUME PruneAssumption == MinGap \in Nat /\ MaxTime \in Nat /\ Never \notin Nat
ASSUME ActorsAssumption == "pruner" \in Producers /\ "main" \in Closers

VARIABLES now,        \* the clock
          tick,       \* the ticker's channel holds a tick
          prunerPc,   \* "select", "pruning", "saving", "stopped", or "off"
          lastPrune,  \* p.lastPrune
          pruneEnd,   \* history: when the last PruneUnused returned
          ctxDone,    \* the process context is cancelled
          mainPc      \* "tui", "closing", "closed", "stopping", "exited"

prune == <<now, tick, prunerPc, lastPrune, pruneEnd, ctxDone, mainPc>>
pvars == <<store, prune>>

Alive == ~panicked /\ mainPc # "exited"

(* setupStorageAndPruner: the store was opened, and the pruner runs if     *)
(* prune.enabled is on.  (Without a store there is no pruner and no Close.) *)
PruneInit ==
    /\ StoreInit
    /\ now = 0
    /\ tick = FALSE
    /\ prunerPc \in {"select", "off"}
    /\ lastPrune = Never
    /\ pruneEnd = Never
    /\ ctxDone = FALSE
    /\ mainPc = "tui"

-----------------------------------------------------------------------------
(* A check period passes; a tick nobody has taken yet is not doubled.      *)
PassTime ==
    /\ Alive
    /\ now < MaxTime
    /\ now' = now + 1
    /\ tick' = TRUE
    /\ UNCHANGED <<store, prunerPc, lastPrune, pruneEnd, ctxDone, mainPc>>

RanRecently == lastPrune # Never /\ now - lastPrune < MinGap

\* Fault: the guard on the last run is forgotten.
checkAndPruneAlways ==
    /\ Alive
    /\ prunerPc = "select" /\ tick
    /\ tick' = FALSE
    /\ prunerPc' \in {"select", "pruning"}
    /\ UNCHANGED <<store, now, lastPrune, pruneEnd, ctxDone, mainPc>>

(* Start takes a tick; checkAndPrune returns early after a recent run, or  *)
(* when the disk check fails or is under the threshold, and otherwise      *)
(* calls PruneUnused.                                                      *)
checkAndPrune ==
    /\ Alive
    /\ prunerPc = "select" /\ tick
    /\ tick' = FALSE
    /\ \/ RanRecently /\ UNCHANGED prunerPc
       \/ ~RanRecently /\ prunerPc' \in {"select", "pruning"}
    /\ UNCHANGED <<store, now, lastPrune, pruneEnd, ctxDone, mainPc>>

(* PruneUnused has returned, with or without an error.                     *)
PruneReturns ==
    /\ Alive
    /\ prunerPc = "pruning"
    /\ prunerPc' = "saving"
    /\ lastPrune' = now
    /\ pruneEnd' = now
    /\ UNCHANGED <<store, now, tick, ctxDone, mainPc>>

PrunerSaves ==
    /\ Alive
    /\ prunerPc = "saving"
    /\ prunerPc' = "select"
    /\ SaveEvent("pruner")
    /\ UNCHANGED <<now, tick, lastPrune, pruneEnd, ctxDone, mainPc>>

PrunerStops ==
    /\ Alive
    /\ prunerPc = "select" /\ ctxDone
    /\ prunerPc' = "stopped"
    /\ UNCHANGED <<store, now, tick, lastPrune, pruneEnd, ctxDone, mainPc>>

-----------------------------------------------------------------------------
(* SIGINT or SIGTERM.                                                      *)
Signal ==
    /\ Alive
    /\ ~ctxDone
    /\ ctxDone' = TRUE
    /\ UNCHANGED <<store, now, tick, prunerPc, lastPrune, pruneEnd, mainPc>>

(* The user quits the dashboard, it fails, or the context ends it.         *)
TuiReturns ==
    /\ Alive
    /\ mainPc = "tui"
    /\ mainPc' = "closing"
    /\ UNCHANGED <<store, now, tick, prunerPc, lastPrune, pruneEnd, ctxDone>>

(* defer store.Close()                                                     *)
MainCloses ==
    /\ Alive
    /\ mainPc = "closing"
    /\ \/ CloseBegin("main") /\ UNCHANGED mainPc
       \/ CloseFinish("main") /\ mainPc' = "closed"
    /\ UNCHANGED <<now, tick, prunerPc, lastPrune, pruneEnd, ctxDone>>

\* Fault: main waits for the pruner to return before it exits.
MainExitsAfterPruner ==
    /\ Alive
    /\ \/ mainPc = "closed" /\ mainPc' = "stopping" /\ ctxDone' = TRUE
       \/ mainPc = "stopping" /\ prunerPc = "stopped" /\ mainPc' = "exited" /\ UNCHANGED ctxDone
    /\ UNCHANGED <<store, now, tick, prunerPc, lastPrune, pruneEnd>>

(* The remaining defers of main, stop() last, and the end of the process.  *)
MainExits ==
    /\ Alive
    /\ \/ mainPc = "closed" /\ mainPc' = "stopping" /\ ctxDone' = TRUE
       \/ mainPc = "stopping" /\ mainPc' = "exited" /\ UNCHANGED ctxDone
    /\ UNCHANGED <<store, now, tick, prunerPc, lastPrune, pruneEnd>>

(* The process is gone.                                                    *)
Terminated == ~Alive /\ UNCHANGED pvars

WriteWorker == Alive /\ Worker /\ UNCHANGED prune
Main == MainCloses \/ MainExits

PruneNext ==
    \/ PassTime
    \/ checkAndPrune \/ PruneReturns \/ PrunerSaves \/ PrunerStops
    \/ Signal \/ TuiReturns \/ Main
    \/ WriteWorker
    \/ Terminated

(* main and the worker run when they can.  Nothing is assumed about the    *)
(* pruner: PruneUnused may never return.                                   *)
PruneSpec == PruneInit /\ [][PruneNext]_pvars /\ WF_pvars(Main) /\ WF_pvars(WriteWorker)

-----------------------------------------------------------------------------
\* Two cleanups are at least an hour apart, counted from the end of the first,
\* however long PruneUnused took and however many ticks came meanwhile.
PrunesAreSpaced ==
    [][prunerPc = "select" /\ prunerPc' = "pruning" =>
          pruneEnd = Never \/ pruneEnd + MinGap <= now]_pvars

\* When the process ends, every record the store accepted has been written or
\* failed to be, whatever the pruner was doing.
ExitLosesNothing ==
    mainPc = "exited" => Accepted \subseteq Rows \cup failed

\* Once the dashboard has returned the process ends, even if a cleanup hangs.
QuitTerminates == (mainPc = "closing") ~> ~Alive

\* sqlite.go:154, "Close gracefully closes the save queue": closing the store
\* does not bring the process down.
NoSendOnClosedQueue == ~panicked

=============================================================================
