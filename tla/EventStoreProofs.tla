-------------------------- MODULE EventStoreProofs --------------------------
(***************************************************************************)
(* Proofs about EventStore, for any producers, closers, queue capacity and *)
(* number of calls.                                                        *)
(***************************************************************************)
EXTENDS EventStore, SequenceTheorems, TLAPS

(* The inductive invariant: beside types and order, a worker that is done  *)
(* found the channel closed and drained, Close ends only after that, and   *)
(* whatever the worker has handled is in the table or failed.              *)
DoneMeansDrained == workerDone => chClosed /\ inflight = <<>> /\ saveCh = <<>>
CloseWaits ==
    /\ (once = "done" \/ dbClosed) => workerDone
    /\ \A c \in Closers : closing[c] = "returned" => once = "done"
HandledAreWritten == \A i \in DOMAIN handled : handled[i] \in Rows \cup failed

StoreInv ==
    /\ StoreTypeOK
    /\ QueueKeepsOrder
    /\ DoneMeansDrained
    /\ CloseWaits
    /\ HandledAreWritten

-----------------------------------------------------------------------------
(* Moving the head of a queue into an empty hand keeps the order. *)
LEMMA ReceiveOrder ==
    ASSUME NEW S, NEW h \in Seq(S), NEW q \in Seq(S), q # <<>>
    PROVE  h \o <<>> \o q = h \o <<Head(q)>> \o Tail(q)
<1>1. Head(q) \in S /\ Tail(q) \in Seq(S) /\ <<Head(q)>> \in Seq(S)
  BY HeadTailProperties
<1>2. q = <<Head(q)>> \o Tail(q)
  BY <1>1, HeadTailProperties, ConcatProperties, SeqEqual
<1>3. (h \o <<Head(q)>>) \o Tail(q) = h \o (<<Head(q)>> \o Tail(q))
  BY <1>1, ConcatAssociative
<1>4. h \o <<>> = h
  BY ConcatEmptySeq
<1> QED
  BY <1>2, <1>3, <1>4

(* The last element of a sequence that grew by a hand of one. *)
LEMMA GrowByOne ==
    ASSUME NEW S, NEW s \in Seq(S), NEW t \in Seq(S), Len(t) = 1
    PROVE  /\ s \o t \in Seq(S)
           /\ DOMAIN (s \o t) = 1..(Len(s) + 1)
           /\ \A i \in 1..Len(s) : (s \o t)[i] = s[i]
           /\ (s \o t)[Len(s) + 1] = t[1]
<1>1. s \o t \in Seq(S) /\ Len(s \o t) = Len(s) + 1 /\ Len(s) \in Nat
  BY SMTT(30), ConcatProperties, LenProperties
<1>2. \A i \in 1..(Len(s) + 1) : (s \o t)[i] = IF i <= Len(s) THEN s[i] ELSE t[i - Len(s)]
  BY SMTT(30), ConcatProperties
<1> QED
  BY <1>1, <1>2, LenProperties

-----------------------------------------------------------------------------
LEMMA StoreInitInv == StoreInit => StoreInv
<1> SUFFICES ASSUME StoreInit PROVE StoreInv
  OBVIOUS
<1>1. StoreTypeOK
  <2>1. <<>> \in Seq(Record) /\ Len(<<>>) = 0
    BY EmptySeq
  <2>2. /\ saveCh \in Seq(Record) /\ Len(saveCh) <= QueueCap
        /\ inflight \in Seq(Record) /\ Len(inflight) <= 1
        /\ db \in Seq(Record) /\ accepted \in Seq(Record) /\ handled \in Seq(Record)
    BY <2>1, QueueAssumption DEF StoreInit
  <2>3. calls \in [Producers -> 0..MaxSaves]
    BY QueueAssumption DEF StoreInit
  <2>4. closing \in [Closers -> {"idle", "holding", "blocked", "returned"}]
    BY DEF StoreInit
  <2> QED
    BY <2>2, <2>3, <2>4 DEF StoreInit, StoreTypeOK
<1>2. QueueKeepsOrder
  BY DEF StoreInit, QueueKeepsOrder
<1> QED
  BY <1>1, <1>2 DEF StoreInit, StoreInv, DoneMeansDrained, CloseWaits, HandledAreWritten

LEMMA SaveEventInv == ASSUME StoreInv, NEW p \in Producers, SaveEvent(p) PROVE StoreInv'
<1> DEFINE r == <<p, calls[p] + 1>>
<1> USE DEF StoreInv
<1>1. r \in Record /\ calls' \in [Producers -> 0..MaxSaves]
  BY SMTT(30), QueueAssumption DEF SaveEvent, StoreTypeOK, Record
<1>2. CASE chClosed
  BY <1>1, <1>2 DEF SaveEvent, save, StoreTypeOK, QueueKeepsOrder, DoneMeansDrained,
     CloseWaits, HandledAreWritten, Rows
<1>3. CASE ~chClosed /\ Len(saveCh) = QueueCap
  <2>1. UNCHANGED <<saveCh, accepted, panicked>>
    BY <1>3, QueueAssumption DEF SaveEvent, save
  <2> QED
    BY <1>1, <1>3, <2>1 DEF SaveEvent, StoreTypeOK, QueueKeepsOrder, DoneMeansDrained,
       CloseWaits, HandledAreWritten, Rows
<1>4. CASE ~chClosed /\ Len(saveCh) < QueueCap
  <2>1. saveCh' = Append(saveCh, r) /\ accepted' = Append(accepted, r) /\ panicked' = panicked
    BY <1>4, QueueAssumption DEF SaveEvent, save
  <2>2. StoreTypeOK'
    <3>1. saveCh' \in Seq(Record) /\ Len(saveCh') <= QueueCap /\ accepted' \in Seq(Record)
      BY <1>1, <1>4, <2>1, QueueAssumption DEF StoreTypeOK
    <3> QED
      BY <1>1, <2>1, <3>1 DEF SaveEvent, StoreTypeOK
  <2>3. QueueKeepsOrder'
    <3>1. saveCh \in Seq(Record) /\ handled \o inflight \in Seq(Record) /\ <<r>> \in Seq(Record)
      BY <1>1 DEF StoreTypeOK
    <3>2. accepted' = accepted \o <<r>> /\ saveCh' = saveCh \o <<r>>
      BY <1>1, <2>1, AppendIsConcat DEF StoreTypeOK
    <3>3. (handled \o inflight) \o (saveCh \o <<r>>) = ((handled \o inflight) \o saveCh) \o <<r>>
      BY <3>1, ConcatAssociative
    <3>4. handled' = handled /\ inflight' = inflight
      BY DEF SaveEvent
    <3> QED
      BY <3>2, <3>3, <3>4 DEF QueueKeepsOrder
  <2>4. DoneMeansDrained' /\ CloseWaits'
    BY <1>4 DEF SaveEvent, DoneMeansDrained, CloseWaits
  <2>5. HandledAreWritten'
    BY DEF SaveEvent, HandledAreWritten, Rows
  <2> QED
    BY <2>2, <2>3, <2>4, <2>5
<1> QED
  BY SMTT(30), <1>2, <1>3, <1>4, QueueAssumption DEF StoreTypeOK

LEMMA WorkerReceiveInv == StoreInv /\ WorkerReceive => StoreInv'
<1> SUFFICES ASSUME StoreInv, WorkerReceive PROVE StoreInv'
  OBVIOUS
<1> USE DEF StoreInv
<1>1. StoreTypeOK'
  <2>1. /\ saveCh' \in Seq(Record) /\ Len(saveCh') <= QueueCap
        /\ inflight' \in Seq(Record) /\ Len(inflight') <= 1
    BY QueueAssumption, HeadTailProperties DEF WorkerReceive, StoreTypeOK
  <2> QED
    BY <2>1 DEF WorkerReceive, StoreTypeOK
<1>2. QueueKeepsOrder'
  <2>1. handled \in Seq(Record) /\ saveCh \in Seq(Record) /\ saveCh # <<>> /\ inflight = <<>>
    BY DEF StoreTypeOK, WorkerReceive
  <2>2. handled \o <<>> \o saveCh = handled \o <<Head(saveCh)>> \o Tail(saveCh)
    BY <2>1, ReceiveOrder
  <2> QED
    BY <2>1, <2>2 DEF WorkerReceive, QueueKeepsOrder
<1>3. DoneMeansDrained' /\ CloseWaits' /\ HandledAreWritten'
  BY DEF WorkerReceive, DoneMeansDrained, CloseWaits, HandledAreWritten, Rows
<1> QED
  BY <1>1, <1>2, <1>3

LEMMA WorkerInsertInv == StoreInv /\ WorkerInsert => StoreInv'
<1> SUFFICES ASSUME StoreInv, WorkerInsert PROVE StoreInv'
  OBVIOUS
<1> USE DEF StoreInv
<1>1. /\ handled \in Seq(Record) /\ inflight \in Seq(Record) /\ db \in Seq(Record)
      /\ saveCh \in Seq(Record) /\ Len(inflight) = 1 /\ inflight[1] \in Record
      /\ handled' = handled \o inflight /\ inflight' = <<>> /\ saveCh' = saveCh
  <2>1. inflight \in Seq(Record) /\ inflight # <<>> /\ Len(inflight) <= 1
    BY DEF StoreTypeOK, WorkerInsert
  <2>2. Len(inflight) = 1
    <3>1. Len(inflight) \in Nat \ {0}
      BY <2>1, EmptySeq
    <3>2. \A n \in Nat \ {0} : n <= 1 => n = 1
      OBVIOUS
    <3> HIDE DEF StoreInv
    <3> QED BY <2>1, <3>1, <3>2
  <2>3. inflight[1] \in Record
    BY <2>1, <2>2, ElementOfSeq
  <2> QED
    BY <2>2, <2>3 DEF StoreTypeOK, WorkerInsert
<1>2. \/ db' = db \o inflight /\ failed' = failed
      \/ db' = db /\ failed' = failed \cup {inflight[1]}
  BY DEF WorkerInsert
<1>3. StoreTypeOK'
  <2>1. handled' \in Seq(Record) /\ db' \in Seq(Record) /\ failed' \in SUBSET Record
    <3>1. handled \o inflight \in Seq(Record) /\ db \o inflight \in Seq(Record)
      BY <1>1, ConcatProperties
    <3>2. failed \in SUBSET Record
      BY DEF StoreTypeOK
    <3> QED BY <1>1, <1>2, <3>1, <3>2
  <2>2. inflight' \in Seq(Record) /\ Len(inflight') <= 1
    BY <1>1, EmptySeq
  <2> QED
    BY <1>1, <2>1, <2>2 DEF StoreTypeOK, WorkerInsert
<1>4. QueueKeepsOrder'
  <2>1. handled' \o <<>> = handled'
    BY <1>1, ConcatEmptySeq, ConcatProperties
  <2> QED
    BY <1>1, <2>1 DEF WorkerInsert, QueueKeepsOrder
<1>5. DoneMeansDrained' /\ CloseWaits'
  BY DEF WorkerInsert, DoneMeansDrained, CloseWaits
<1>6. HandledAreWritten'
  <2>1. Rows \cup failed \subseteq Rows' \cup failed'
    <3>1. CASE db' = db \o inflight /\ failed' = failed
      <4>1. /\ DOMAIN db' = 1..(Len(db) + 1) /\ DOMAIN db = 1..Len(db) /\ Len(db) \in Nat
            /\ \A i \in 1..Len(db) : db'[i] = db[i]
        BY <1>1, <3>1, GrowByOne, LenProperties
      <4>2. \A i \in DOMAIN db : i \in DOMAIN db' /\ db'[i] = db[i]
        BY <4>1
      <4> QED BY <3>1, <4>2 DEF Rows
    <3>2. CASE db' = db /\ failed' = failed \cup {inflight[1]}
      BY <3>2 DEF Rows
    <3> QED BY <1>2, <3>1, <3>2
  <2>2. inflight[1] \in Rows' \cup failed'
    <3>1. CASE db' = db \o inflight /\ failed' = failed
      <4>1. Len(db) + 1 \in DOMAIN db' /\ db'[Len(db) + 1] = inflight[1]
        BY <1>1, <3>1, GrowByOne, LenProperties
      <4> QED BY <4>1 DEF Rows
    <3>2. CASE db' = db /\ failed' = failed \cup {inflight[1]}
      BY <3>2
    <3> QED BY <1>2, <3>1, <3>2
  <2>3. /\ DOMAIN handled' = 1..(Len(handled) + 1) /\ Len(handled) \in Nat
        /\ \A i \in 1..Len(handled) : handled'[i] = handled[i]
        /\ handled'[Len(handled) + 1] = inflight[1]
        /\ DOMAIN handled = 1..Len(handled)
    BY <1>1, GrowByOne, LenProperties
  <2>4. \A i \in 1..Len(handled) : handled'[i] \in Rows' \cup failed'
    BY <2>1, <2>3 DEF HandledAreWritten
  <2>5. \A i \in DOMAIN handled' : i \in 1..Len(handled) \/ i = Len(handled) + 1
    BY <2>3
  <2> QED
    BY <2>2, <2>3, <2>4, <2>5 DEF HandledAreWritten
<1> QED
  BY <1>3, <1>4, <1>5, <1>6

LEMMA WorkerExitInv == StoreInv /\ WorkerExit => StoreInv'
BY DEF StoreInv, WorkerExit, StoreTypeOK, QueueKeepsOrder, DoneMeansDrained, CloseWaits,
   HandledAreWritten, Rows

LEMMA CloseInv ==
    ASSUME StoreInv, NEW c \in Closers, CloseBegin(c) \/ CloseFinish(c) \/ CloseUnblock(c)
    PROVE  StoreInv'
<1> USE DEF StoreInv
<1>1. CASE CloseBegin(c)
  BY <1>1 DEF CloseBegin, StoreTypeOK, QueueKeepsOrder, DoneMeansDrained, CloseWaits,
     HandledAreWritten, Rows
<1>2. CASE CloseFinish(c)
  BY <1>2 DEF CloseFinish, StoreTypeOK, QueueKeepsOrder, DoneMeansDrained, CloseWaits,
     HandledAreWritten, Rows
<1>3. CASE CloseUnblock(c)
  BY <1>3 DEF CloseUnblock, StoreTypeOK, QueueKeepsOrder, DoneMeansDrained, CloseWaits,
     HandledAreWritten, Rows
<1> QED
  BY <1>1, <1>2, <1>3

(* StoreInv is an invariant of the store. *)
THEOREM StoreInvariant == StoreSpec => []StoreInv
<1>1. StoreInv /\ [StoreNext]_store => StoreInv'
  <2>1. StoreInv /\ UNCHANGED store => StoreInv'
    BY DEF StoreInv, store, StoreTypeOK, QueueKeepsOrder, DoneMeansDrained, CloseWaits,
       HandledAreWritten, Rows
  <2> QED
    BY <2>1, SaveEventInv, WorkerReceiveInv, WorkerInsertInv, WorkerExitInv, CloseInv
       DEF StoreNext, Worker
<1> QED
  BY <1>1, StoreInitInv, PTL DEF StoreSpec

(* The channel, the table and Close keep their types. *)
THEOREM StoreTypeCorrect == StoreSpec => []StoreTypeOK
BY StoreInvariant, PTL DEF StoreInv

(* Nothing accepted is lost, duplicated or overtaken in the queue. *)
THEOREM QueueOrder == StoreSpec => []QueueKeepsOrder
BY StoreInvariant, PTL DEF StoreInv

(* The worker holds nothing when the database is closed. *)
THEOREM NoLateInsert == StoreSpec => []NoInsertAfterClose
<1>1. StoreInv => NoInsertAfterClose
  BY DEF StoreInv, CloseWaits, DoneMeansDrained, NoInsertAfterClose
<1> QED
  BY <1>1, StoreInvariant, PTL

LEMMA DrainedIsFlushed == StoreInv /\ workerDone => Accepted \subseteq Rows \cup failed
<1> SUFFICES ASSUME StoreInv, workerDone PROVE Accepted \subseteq Rows \cup failed
  OBVIOUS
<1>1. inflight = <<>> /\ saveCh = <<>> /\ handled \in Seq(Record)
  BY DEF StoreInv, DoneMeansDrained, StoreTypeOK
<1>2. accepted = handled
  BY <1>1, ConcatEmptySeq DEF StoreInv, QueueKeepsOrder
<1> QED
  BY <1>2 DEF StoreInv, HandledAreWritten, Accepted

(* Close returns, to every caller, only after all accepted records were    *)
(* written or failed to be.                                                *)
THEOREM CloseFlushesAll == StoreSpec => []CloseFlushes
<1>1. StoreInv => CloseFlushes
  BY DrainedIsFlushed DEF StoreInv, CloseWaits, CloseFlushes
<1> QED
  BY <1>1, StoreInvariant, PTL

-----------------------------------------------------------------------------
(* The order of the table needs that no record is accepted twice, which    *)
(* holds because a producer numbers its calls, and that a record fails     *)
(* only when it is handled.                                                *)
CallsAreCounted == \A i \in 1..Len(accepted) : accepted[i][2] <= calls[accepted[i][1]]
AcceptedOnce == \A i, j \in 1..Len(accepted) : i # j => accepted[i] # accepted[j]
TableInv == CallsAreCounted /\ AcceptedOnce /\ failed \subseteq Handled /\ TableKeepsOrder

LEMMA AcceptedTyped ==
    ASSUME StoreTypeOK, NEW i \in 1..Len(accepted)
    PROVE  accepted[i][1] \in Producers /\ accepted[i][2] \in Nat
<1>1. accepted \in Seq(Record)
  BY DEF StoreTypeOK
<1>2. accepted[i] \in Record
  BY <1>1, ElementOfSeq
<1> QED BY <1>2, QueueAssumption DEF Record

LEMMA SaveEventTable ==
    ASSUME StoreInv, TableInv, NEW p \in Producers, SaveEvent(p) PROVE TableInv'
<1> DEFINE r == <<p, calls[p] + 1>>
           n == Len(accepted)
<1>1. accepted \in Seq(Record) /\ n \in Nat /\ calls \in [Producers -> Nat] /\ r \in Record
  BY QueueAssumption, LenProperties DEF StoreInv, StoreTypeOK, SaveEvent, Record
<1>2. \A q \in Producers : calls'[q] >= calls[q] /\ calls'[q] \in Nat /\ calls[q] \in Nat
  BY <1>1 DEF SaveEvent
<1>3. calls'[p] = calls[p] + 1
  BY <1>1 DEF SaveEvent
<1>4. \A i \in 1..n : accepted[i][2] <= calls'[accepted[i][1]] /\ accepted[i] # r
  <2> TAKE i \in 1..n
  <2>1. accepted[i][1] \in Producers /\ accepted[i][2] \in Nat
    BY AcceptedTyped DEF StoreInv
  <2>2. accepted[i][2] <= calls[accepted[i][1]]
    BY DEF TableInv, CallsAreCounted
  <2>3. accepted[i] = r => accepted[i][1] = p /\ accepted[i][2] = calls[p] + 1
    OBVIOUS
  <2>4. accepted[i] # r
    BY <1>1, <2>2, <2>3
  <2> QED BY <1>2, <2>1, <2>2, <2>4
<1>5. accepted' = accepted \/ accepted' = Append(accepted, r)
  BY DEF SaveEvent, save
<1>6. CallsAreCounted' /\ AcceptedOnce'
  <2>1. CASE accepted' = accepted
    BY <1>4, <2>1 DEF TableInv, CallsAreCounted, AcceptedOnce
  <2>2. CASE accepted' = Append(accepted, r)
    <3>1. /\ Len(accepted') = n + 1 /\ accepted'[n + 1] = r
          /\ \A i \in 1..n : accepted'[i] = accepted[i]
      BY <1>1, <2>2, AppendProperties
    <3>2. \A i \in 1..Len(accepted') : i \in 1..n \/ i = n + 1
      BY <1>1, <3>1
    <3>3. ASSUME NEW i \in 1..Len(accepted') PROVE accepted'[i][2] <= calls'[accepted'[i][1]]
      <4>1. CASE i \in 1..n
        BY <1>4, <3>1, <4>1
      <4>2. CASE i = n + 1
        <5>1. accepted'[i][1] = p /\ accepted'[i][2] = calls[p] + 1
          BY <3>1, <4>2
        <5> QED BY <1>2, <1>3, <5>1
      <4> QED BY <3>2, <4>1, <4>2
    <3>4. ASSUME NEW i \in 1..Len(accepted'), NEW j \in 1..Len(accepted'), i # j
          PROVE  accepted'[i] # accepted'[j]
      <4> HIDE DEF r, n
      <4>1. CASE i \in 1..n /\ j \in 1..n
        BY <3>1, <3>4, <4>1 DEF TableInv, AcceptedOnce, n
      <4>2. CASE i \in 1..n /\ j = n + 1
        BY <1>4, <3>1, <4>2
      <4>3. CASE i = n + 1 /\ j \in 1..n
        BY <1>4, <3>1, <4>3
      <4> QED BY <3>2, <3>4, <4>1, <4>2, <4>3
    <3> QED BY <3>3, <3>4 DEF CallsAreCounted, AcceptedOnce
  <2> QED BY <1>5, <2>1, <2>2
<1>7. UNCHANGED <<db, handled, failed>>
  BY DEF SaveEvent
<1> QED BY <1>6, <1>7 DEF TableInv, TableKeepsOrder, Rows, Handled

(* The record in the worker's hand has not been handled before.            *)
LEMMA InHandIsNew ==
    ASSUME StoreInv, TableInv, inflight # <<>>
    PROVE  /\ Len(inflight) = 1 /\ inflight[1] \in Record
           /\ \A i \in 1..Len(handled) : handled[i] # inflight[1]
<1> DEFINE n == Len(handled)
           h == handled \o inflight
<1>1. /\ handled \in Seq(Record) /\ inflight \in Seq(Record) /\ saveCh \in Seq(Record)
      /\ Len(inflight) <= 1 /\ accepted = h \o saveCh
  BY DEF StoreInv, StoreTypeOK, QueueKeepsOrder
<1>2. Len(inflight) \in Nat /\ Len(inflight) # 0 /\ n \in Nat /\ Len(saveCh) \in Nat
  BY <1>1, LenProperties, EmptySeq
<1>3. Len(inflight) = 1
  <2>1. \A k \in Nat : k # 0 /\ k <= 1 => k = 1
    OBVIOUS
  <2> HIDE DEF h, n
  <2> QED BY <1>1, <1>2, <2>1
<1>4. inflight[1] \in Record
  BY <1>1, <1>3, ElementOfSeq
<1>5. /\ h \in Seq(Record) /\ DOMAIN h = 1..(n + 1) /\ h[n + 1] = inflight[1]
      /\ \A i \in 1..n : h[i] = handled[i]
  BY <1>1, <1>3, GrowByOne
<1> HIDE DEF h
<1>6. Len(h) = n + 1
  BY <1>2, <1>5, LenProperties
<1>7. /\ Len(accepted) = n + 1 + Len(saveCh)
      /\ \A i \in 1..Len(accepted) : i <= n + 1 => accepted[i] = h[i]
  <2> HIDE DEF n
  <2>1. /\ Len(accepted) = Len(h) + Len(saveCh)
        /\ \A i \in 1..(Len(h) + Len(saveCh)) :
              accepted[i] = IF i <= Len(h) THEN h[i] ELSE saveCh[i - Len(h)]
    BY <1>1, <1>5, ConcatProperties
  <2> QED BY <1>6, <2>1
<1>8. \A i \in 1..n : i # n + 1 /\ i \in 1..Len(accepted) /\ n + 1 \in 1..Len(accepted)
                      /\ accepted[i] = h[i] /\ accepted[n + 1] = h[n + 1]
  BY <1>2, <1>7
<1> QED BY <1>3, <1>4, <1>5, <1>8 DEF TableInv, AcceptedOnce

LEMMA WorkerInsertTable == ASSUME StoreInv, TableInv, WorkerInsert PROVE TableInv'
<1> DEFINE r == inflight[1]
           n == Len(handled)
           d == Len(db)
<1>1. /\ Len(inflight) = 1 /\ r \in Record /\ \A i \in 1..n : handled[i] # r
  BY InHandIsNew DEF WorkerInsert
<1>2. handled \in Seq(Record) /\ db \in Seq(Record) /\ inflight \in Seq(Record)
  BY DEF StoreInv, StoreTypeOK
<1>3. n \in Nat /\ d \in Nat /\ DOMAIN handled = 1..n /\ DOMAIN db = 1..d
  BY <1>2, LenProperties
<1>4. handled' = handled \o inflight /\ UNCHANGED <<accepted, calls>>
  BY DEF WorkerInsert
<1>5. /\ DOMAIN handled' = 1..(n + 1) /\ handled'[n + 1] = r
      /\ \A i \in 1..n : handled'[i] = handled[i]
  BY <1>1, <1>2, <1>4, GrowByOne
<1>6. /\ \A i \in 1..n : i \in 1..(n + 1)
      /\ n + 1 \in 1..(n + 1) /\ \A i \in 1..(n + 1) : i \in 1..n \/ i = n + 1
  BY <1>3
<1>7. Handled' = Handled \cup {r} /\ r \notin Handled
  BY <1>1, <1>3, <1>5, <1>6 DEF Handled
<1>8. r \notin failed /\ failed \subseteq Handled /\ Rows = Handled \ failed
  BY <1>7 DEF TableInv, TableKeepsOrder
<1>9. ASSUME NEW i \in 1..d, NEW j \in 1..d, i < j
      PROVE  /\ db[i] # db[j]
             /\ \E a, b \in DOMAIN handled' : a < b /\ handled'[a] = db[i] /\ handled'[b] = db[j]
  <2>1. db[i] # db[j] /\ \E a, b \in 1..n : a < b /\ handled[a] = db[i] /\ handled[b] = db[j]
    BY <1>3, <1>9 DEF TableInv, TableKeepsOrder
  <2> QED BY <1>5, <1>6, <2>1
<1>10. CASE db' = db \o inflight /\ failed' = failed
  <2>1. /\ DOMAIN db' = 1..(d + 1) /\ db'[d + 1] = r
        /\ \A i \in 1..d : db'[i] = db[i]
    BY <1>1, <1>2, <1>10, GrowByOne
  <2>2. /\ \A i \in 1..d : i \in 1..(d + 1)
        /\ d + 1 \in 1..(d + 1) /\ \A i \in 1..(d + 1) : i \in 1..d \/ i = d + 1
    BY <1>3
  <2>3. Rows' = Rows \cup {r}
    BY <1>3, <2>1, <2>2 DEF Rows
  <2>4. Rows' = Handled' \ failed' /\ failed' \subseteq Handled'
    BY <1>7, <1>8, <1>10, <2>3
  <2>5. ASSUME NEW i \in DOMAIN db', NEW j \in DOMAIN db', i < j
        PROVE  /\ db'[i] # db'[j]
               /\ \E a, b \in DOMAIN handled' : a < b /\ handled'[a] = db'[i] /\ handled'[b] = db'[j]
    <3>1. i \in 1..d /\ (j \in 1..d \/ j = d + 1)
      BY <1>3, <2>1, <2>5
    <3>2. CASE j \in 1..d
      BY <1>9, <2>1, <2>5, <3>1, <3>2
    <3>3. CASE j = d + 1
      <4>1. db'[i] = db[i] /\ db[i] \in Rows
        BY <1>3, <2>1, <3>1 DEF Rows
      <4>2. db[i] \in Handled
        BY <1>8, <4>1
      <4>3. PICK a \in 1..n : handled[a] = db[i]
        BY <1>3, <4>2 DEF Handled
      <4>4. a \in DOMAIN handled' /\ n + 1 \in DOMAIN handled' /\ a < n + 1
        BY <1>3, <1>5
      <4> QED BY <1>5, <1>7, <2>1, <3>3, <4>1, <4>2, <4>3, <4>4
    <3> QED BY <3>1, <3>2, <3>3
  <2> QED BY <1>4, <2>4, <2>5 DEF TableInv, TableKeepsOrder, CallsAreCounted, AcceptedOnce
<1>11. CASE db' = db /\ failed' = failed \cup {r}
  <2>1. Rows' = Handled' \ failed' /\ failed' \subseteq Handled'
    BY <1>7, <1>8, <1>11 DEF Rows
  <2> QED BY <1>3, <1>4, <1>9, <1>11, <2>1
          DEF TableInv, TableKeepsOrder, CallsAreCounted, AcceptedOnce
<1> QED BY <1>10, <1>11 DEF WorkerInsert

(* The table holds what was handled and did not fail, in order, each record *)
(* once: writeWorker inserts a record at most once, whatever fails.         *)
THEOREM TableOrder == StoreSpec => []TableKeepsOrder
<1>1. StoreInit => TableInv
  <2> SUFFICES ASSUME StoreInit PROVE TableInv
    OBVIOUS
  <2>1. accepted = <<>> /\ db = <<>> /\ handled = <<>> /\ failed = {} /\ DOMAIN <<>> = {}
    BY DEF StoreInit
  <2> QED BY <2>1, EmptySeq DEF TableInv, CallsAreCounted, AcceptedOnce, TableKeepsOrder, Rows, Handled
<1>2. StoreInv /\ TableInv /\ [StoreNext]_store => TableInv'
  <2> SUFFICES ASSUME StoreInv, TableInv, [StoreNext]_store PROVE TableInv'
    OBVIOUS
  <2>1. CASE UNCHANGED <<accepted, calls, db, handled, failed>>
    BY <2>1 DEF TableInv, CallsAreCounted, AcceptedOnce, TableKeepsOrder, Rows, Handled
  <2>2. CASE WorkerReceive \/ WorkerExit
    BY <2>1, <2>2 DEF WorkerReceive, WorkerExit
  <2>3. CASE \E c \in Closers : CloseBegin(c) \/ CloseFinish(c) \/ CloseUnblock(c)
    BY <2>1, <2>3 DEF CloseBegin, CloseFinish, CloseUnblock
  <2>4. CASE UNCHANGED store
    BY <2>1, <2>4 DEF store
  <2> QED
    BY <2>2, <2>3, <2>4, SaveEventTable, WorkerInsertTable DEF StoreNext, Worker
<1>3. TableInv => TableKeepsOrder
  BY DEF TableInv
<1> QED BY <1>1, <1>2, <1>3, StoreInvariant, PTL DEF StoreSpec

=============================================================================
