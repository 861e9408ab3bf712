----------------------------- MODULE EventStore -----------------------------
(***************************************************************************)
(* The event history of internal/storage/sqlite.go: SaveEvent puts a       *)
(* record into a bounded channel without ever blocking, one worker         *)
(* goroutine takes records out and inserts them, and Close closes the      *)
(* channel, waits for the worker and closes the database.                  *)
(*                                                                         *)
(* A record is <<producer, n>>, the producer's n-th call of SaveEvent.     *)
(***************************************************************************)
EXTENDS Naturals, Sequences

CONSTANTS Producers,   \* goroutines that call SaveEvent
          Closers,     \* goroutines that call Close
          QueueCap,    \* capacity of saveCh (500 in the code)
          MaxSaves     \* bound: calls of SaveEvent per producer

ASSUME QueueAssumption == QueueCap \in Nat \ {0} /\ MaxSaves \in Nat

VARIABLES saveCh,      \* the channel's buffer
          chClosed,    \* saveCh has been closed
          inflight,    \* the record the worker is inserting, <<>> or <<r>>
          workerDone,  \* the worker has closed s.done
          db,          \* rows of the events table, in order of their id
          dbClosed,    \* the database is closed
          once,        \* closeOnce: "unused", "running" or "done"
          closing,     \* closing[c]: where closer c is in Close
          panicked,    \* the process died of a send on a closed channel
          calls,       \* calls[p]: calls of SaveEvent made by p
          accepted,    \* history: records that entered the channel
          handled,     \* history: records whose INSERT has run
          failed       \* history: records whose INSERT failed

store == <<saveCh, chClosed, inflight, workerDone, db, dbClosed, once, closing,
           panicked, calls, accepted, handled, failed>>

Record == Producers \X (1..MaxSaves)

-----------------------------------------------------------------------------
(* NewSQLiteStore, which starts the worker.                                *)
StoreInit ==
    /\ saveCh = <<>>
    /\ chClosed = FALSE
    /\ inflight = <<>>
    /\ workerDone = FALSE
    /\ db = <<>>
    /\ dbClosed = FALSE
    /\ once = "unused"
    /\ closing = [c \in Closers |-> "idle"]
    /\ panicked = FALSE
    /\ calls = [p \in Producers |-> 0]
    /\ accepted = <<>>
    /\ handled = <<>>
    /\ failed = {}

\* Fault: a record for which there is no room overwrites the newest queued one.
saveOverwriting(r) ==
    \/ /\ chClosed
       /\ panicked' = TRUE
       /\ UNCHANGED <<saveCh, accepted>>
    \/ /\ ~chClosed /\ Len(saveCh) < QueueCap
       /\ saveCh' = Append(saveCh, r)
       /\ accepted' = Append(accepted, r)
       /\ UNCHANGED panicked
    \/ /\ ~chClosed /\ Len(saveCh) = QueueCap
       /\ saveCh' = [saveCh EXCEPT ![QueueCap] = r]
       /\ UNCHANGED <<panicked, accepted>>

(* The select of save: a send on a closed channel panics, even in a select *)
(* with a default; a full channel drops the record.                        *)
save(r) ==
    \/ /\ chClosed
       /\ panicked' = TRUE
       /\ UNCHANGED <<saveCh, accepted>>
    \/ /\ ~chClosed /\ Len(saveCh) < QueueCap
       /\ saveCh' = Append(saveCh, r)
       /\ accepted' = Append(accepted, r)
       /\ UNCHANGED panicked
    \/ /\ ~chClosed /\ Len(saveCh) = QueueCap
       /\ UNCHANGED <<saveCh, accepted, panicked>>

SaveEvent(p) ==
    /\ ~panicked
    /\ calls[p] < MaxSaves
    /\ calls' = [calls EXCEPT ![p] = @ + 1]
    /\ save(<<p, calls[p] + 1>>)
    /\ UNCHANGED <<chClosed, inflight, workerDone, db, dbClosed, once, closing, handled, failed>>

(* writeWorker: take the next record, ...                                  *)
WorkerReceive ==
    /\ ~panicked
    /\ ~workerDone /\ inflight = <<>> /\ saveCh # <<>>
    /\ inflight' = <<Head(saveCh)>>
    /\ saveCh' = Tail(saveCh)
    /\ UNCHANGED <<chClosed, workerDone, db, dbClosed, once, closing, panicked, calls,
                   accepted, handled, failed>>

\* Fault: a failed INSERT is tried again and the row is inserted twice.
WorkerInsertTwice ==
    /\ ~panicked
    /\ inflight # <<>>
    /\ db' = db \o inflight \o inflight
    /\ handled' = handled \o inflight
    /\ inflight' = <<>>
    /\ UNCHANGED <<saveCh, chClosed, workerDone, dbClosed, once, closing, panicked, calls,
                   accepted, failed>>

(* ... insert it, ignoring an error, ...                                   *)
WorkerInsert ==
    /\ ~panicked
    /\ inflight # <<>>
    /\ \/ /\ ~dbClosed
          /\ db' = db \o inflight
          /\ UNCHANGED failed
       \/ /\ failed' = failed \cup {inflight[1]}
          /\ UNCHANGED db
    /\ handled' = handled \o inflight
    /\ inflight' = <<>>
    /\ UNCHANGED <<saveCh, chClosed, workerDone, dbClosed, once, closing, panicked, calls, accepted>>

\* Fault: the worker stops as soon as the channel is closed.
WorkerExitEarly ==
    /\ ~panicked
    /\ ~workerDone /\ inflight = <<>> /\ chClosed
    /\ workerDone' = TRUE
    /\ UNCHANGED <<saveCh, chClosed, inflight, db, dbClosed, once, closing, panicked, calls,
                   accepted, handled, failed>>

(* ... and leave the range loop when the channel is closed and drained.    *)
WorkerExit ==
    /\ ~panicked
    /\ ~workerDone /\ inflight = <<>> /\ chClosed /\ saveCh = <<>>
    /\ workerDone' = TRUE
    /\ UNCHANGED <<saveCh, chClosed, inflight, db, dbClosed, once, closing, panicked, calls,
                   accepted, handled, failed>>

\* Fault: Close waits for the worker before it closes the channel.
CloseBeginSwapped(c) ==
    /\ ~panicked
    /\ closing[c] = "idle"
    /\ closing' = [closing EXCEPT ![c] = CASE once = "unused" -> "holding"
                                           [] once = "running" -> "blocked"
                                           [] once = "done" -> "returned"]
    /\ once' = IF once = "unused" THEN "running" ELSE once
    /\ UNCHANGED <<saveCh, chClosed, inflight, workerDone, db, dbClosed, panicked, calls, accepted,
                   handled, failed>>

(* Close: the first caller runs the function, later ones wait for it.      *)
CloseBegin(c) ==
    /\ ~panicked
    /\ closing[c] = "idle"
    /\ closing' = [closing EXCEPT ![c] = CASE once = "unused" -> "holding"
                                           [] once = "running" -> "blocked"
                                           [] once = "done" -> "returned"]
    /\ once' = IF once = "unused" THEN "running" ELSE once
    /\ chClosed' = TRUE
    /\ UNCHANGED <<saveCh, inflight, workerDone, db, dbClosed, panicked, calls, accepted,
                   handled, failed>>

\* Fault: Close does not wait for the worker.
CloseFinishAtOnce(c) ==
    /\ ~panicked
    /\ closing[c] = "holding"
    /\ dbClosed' = TRUE
    /\ once' = "done"
    /\ closing' = [closing EXCEPT ![c] = "returned"]
    /\ UNCHANGED <<saveCh, chClosed, inflight, workerDone, db, panicked, calls, accepted,
                   handled, failed>>

CloseFinish(c) ==
    /\ ~panicked
    /\ closing[c] = "holding"
    /\ workerDone
    /\ dbClosed' = TRUE
    /\ once' = "done"
    /\ closing' = [closing EXCEPT ![c] = "returned"]
    /\ UNCHANGED <<saveCh, chClosed, inflight, workerDone, db, panicked, calls, accepted,
                   handled, failed>>

CloseUnblock(c) ==
    /\ ~panicked
    /\ closing[c] = "blocked" /\ once = "done"
    /\ closing' = [closing EXCEPT ![c] = "returned"]
    /\ UNCHANGED <<saveCh, chClosed, inflight, workerDone, db, dbClosed, once, panicked, calls,
                   accepted, handled, failed>>

-----------------------------------------------------------------------------
Worker == WorkerReceive \/ WorkerInsert \/ WorkerExit

StoreNext ==
    \/ \E p \in Producers : SaveEvent(p)
    \/ Worker
    \/ \E c \in Closers : CloseBegin(c) \/ CloseFinish(c) \/ CloseUnblock(c)

StoreSpec == StoreInit /\ [][StoreNext]_store

(* Goroutines that can run do run; nobody has to call SaveEvent or Close.  *)
StoreFairness ==
    /\ WF_store(Worker)
    /\ \A c \in Closers : WF_store(CloseFinish(c)) /\ WF_store(CloseUnblock(c))

FairStoreSpec == StoreSpec /\ StoreFairness

-----------------------------------------------------------------------------
\* Types of the channel, the table and the state of Close.
StoreTypeOK ==
    /\ saveCh \in Seq(Record) /\ Len(saveCh) <= QueueCap
    /\ chClosed \in BOOLEAN
    /\ inflight \in Seq(Record) /\ Len(inflight) <= 1
    /\ workerDone \in BOOLEAN
    /\ db \in Seq(Record)
    /\ dbClosed \in BOOLEAN
    /\ once \in {"unused", "running", "done"}
    /\ closing \in [Closers -> {"idle", "holding", "blocked", "returned"}]
    /\ panicked \in BOOLEAN
    /\ calls \in [Producers -> 0..MaxSaves]
    /\ accepted \in Seq(Record)
    /\ handled \in Seq(Record)
    /\ failed \in SUBSET Record

Rows == {db[i] : i \in DOMAIN db}
Accepted == {accepted[i] : i \in DOMAIN accepted}
Handled == {handled[i] : i \in DOMAIN handled}

\* No accepted record is lost, duplicated or overtaken on its way through the
\* channel and the worker: what was handled, what the worker holds and what
\* is queued are, in this order, what was accepted.
QueueKeepsOrder == accepted = handled \o inflight \o saveCh

\* The table holds the records the worker has handled in the order they were
\* accepted, each once, with only the ones whose INSERT failed missing.
TableKeepsOrder ==
    /\ Rows = Handled \ failed
    /\ \A i, j \in DOMAIN db : i < j =>
          /\ db[i] # db[j]
          /\ \E a, b \in DOMAIN handled : a < b /\ handled[a] = db[i] /\ handled[b] = db[j]

\* sqlite.go:154, Close "waits for pending writes to flush": when any call of
\* Close has returned, every accepted record was written or failed to be, also
\* for a call that found another one under way.
CloseFlushes ==
    \A c \in Closers : closing[c] = "returned" => Accepted \subseteq Rows \cup failed

\* The worker never has a record in hand when the database is closed.
NoInsertAfterClose == dbClosed => inflight = <<>> /\ saveCh = <<>> /\ workerDone

\* Every call of Close returns, however full the queue was, unless the process
\* died.
CloseTerminates ==
    \A c \in Closers : closing[c] \in {"holding", "blocked"} ~> (closing[c] = "returned" \/ panicked)

=============================================================================
