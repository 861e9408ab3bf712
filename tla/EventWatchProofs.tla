-------------------------- MODULE EventWatchProofs --------------------------
(***************************************************************************)
(* How Docker events reach the dashboard, proved for any number of events, *)
(* of failing streams and of subscriptions.                                *)
(***************************************************************************)
EXTENDS EventWatch, TLAPS, SequenceTheorems

Number == Nat \ {0}
Sub == [pc: {"loop", "sending", "done"}, msgs: Seq(Number), hold: Nat, errs: BOOLEAN,
        errCh: {"open", "closed", "err"}, reader: {"waiting", "gone"}]
EventMsgs == [type: {"event"}, event: Number]
ErrorMsgs == [type: {"error"}, nil: BOOLEAN]

TypeInv ==
    /\ ctxDone \in BOOLEAN
    /\ emitted \in Nat
    /\ subs \in Seq(Sub)
    /\ starting \in Nat
    /\ inbox \in Seq(EventMsgs \cup ErrorMsgs)
    /\ prog \in {"running", "quit", "panicked"}
    /\ events \in Seq(Nat)
    /\ shown \in Seq(Number)

\* A nil error comes only from a cancelled context, wherever it is.
NilErrorsAfterCancel ==
    /\ \A i \in DOMAIN subs : subs[i].errCh = "closed" => ctxDone
    /\ \A k \in DOMAIN inbox : inbox[k] = ErrorMsg(TRUE) => ctxDone

\* A subscription has events in the order in which they were emitted, the one
\* in hand first.
InOrder(s, n) ==
    /\ \A k \in DOMAIN s.msgs : s.msgs[k] <= n
    /\ \A j, k \in DOMAIN s.msgs : j < k => s.msgs[j] < s.msgs[k]
    /\ s.pc = "sending" => s.hold \in 1..n /\ \A k \in DOMAIN s.msgs : s.hold < s.msgs[k]
StreamsInOrder == \A i \in DOMAIN subs : InOrder(subs[i], emitted)

\* What is shown has been emitted, and what is still to be shown is later.
AllLater(s) ==
    \A j \in DOMAIN shown :
        /\ \A k \in DOMAIN s.msgs : shown[j] < s.msgs[k]
        /\ s.pc = "sending" => shown[j] < s.hold
Later(m) ==
    m.type = "event" => m.event <= emitted /\ \A j \in DOMAIN shown : shown[j] < m.event
RestIsLater ==
    /\ \A j \in DOMAIN shown : shown[j] <= emitted
    /\ \A i \in DOMAIN subs : subs[i].reader = "waiting" => AllLater(subs[i])
    /\ \A k \in DOMAIN inbox : Later(inbox[k])

Inv ==
    /\ TypeInv /\ OneWatchAtATime
    /\ NilErrorsAfterCancel /\ PanicsOnlyAfterCancel
    /\ StreamsInOrder /\ RestIsLater /\ ShownOnceInOrder

-----------------------------------------------------------------------------
LEMMA SubsFacts ==
    ASSUME TypeInv
    PROVE  /\ Len(subs) \in Nat /\ DOMAIN subs = 1..Len(subs)
           /\ \A i \in DOMAIN subs : subs[i] \in Sub
BY LenProperties, ElementOfSeq DEF TypeInv

LEMMA MsgsFacts ==
    ASSUME NEW s \in Sub
    PROVE  /\ s.msgs \in Seq(Number) /\ Len(s.msgs) \in Nat /\ DOMAIN s.msgs = 1..Len(s.msgs)
           /\ \A k \in DOMAIN s.msgs : s.msgs[k] \in Number
BY LenProperties, ElementOfSeq DEF Sub

\* What replacing one subscription does.
LEMMA ReplaceSub ==
    ASSUME TypeInv, NEW i \in DOMAIN subs, NEW new \in Sub, subs' = [subs EXCEPT ![i] = new]
    PROVE  /\ subs' \in Seq(Sub) /\ DOMAIN subs' = DOMAIN subs /\ Len(subs') = Len(subs)
           /\ subs'[i] = new /\ \A j \in DOMAIN subs \ {i} : subs'[j] = subs[j]
BY SubsFacts, ExceptSeq DEF TypeInv

LEMMA InitInv == Init => Inv
<1> SUFFICES ASSUME Init PROVE Inv
  OBVIOUS
<1> USE DEF Init
<1>1. TypeInv
  BY EmptySeq DEF TypeInv
<1>2. DOMAIN subs = {} /\ DOMAIN inbox = {} /\ DOMAIN shown = {} /\ DOMAIN events = {}
  OBVIOUS
<1>3. OneWatchAtATime /\ NilErrorsAfterCancel /\ PanicsOnlyAfterCancel
  BY <1>2 DEF OneWatchAtATime, NilErrorsAfterCancel, PanicsOnlyAfterCancel, Waiting
<1>4. StreamsInOrder /\ RestIsLater /\ ShownOnceInOrder
  BY <1>2 DEF StreamsInOrder, RestIsLater, ShownOnceInOrder
<1> QED BY <1>1, <1>3, <1>4 DEF Inv

-----------------------------------------------------------------------------
\* The daemon emits an event: every stream that is read has it last.
LEMMA EmitInv == ASSUME Inv, Emit PROVE Inv'
<1> USE DEF Inv
<1>1. /\ emitted' = emitted + 1 /\ emitted \in Nat
      /\ UNCHANGED <<ctxDone, starting, inbox, prog, events, shown>>
  BY DEF Emit, TypeInv
<1>2. /\ DOMAIN subs' = DOMAIN subs
      /\ \A i \in DOMAIN subs :
            \/ subs'[i] = subs[i]
            \/ subs'[i] = [subs[i] EXCEPT !.msgs = Append(@, emitted')]
  BY DEF Emit
<1>3. ASSUME NEW i \in DOMAIN subs, subs'[i] = [subs[i] EXCEPT !.msgs = Append(@, emitted')]
      PROVE  /\ subs'[i] \in Sub
             /\ Len(subs'[i].msgs) = Len(subs[i].msgs) + 1
             /\ DOMAIN subs'[i].msgs = 1..(Len(subs[i].msgs) + 1)
             /\ \A k \in DOMAIN subs[i].msgs : subs'[i].msgs[k] = subs[i].msgs[k]
             /\ subs'[i].msgs[Len(subs[i].msgs) + 1] = emitted + 1
             /\ subs'[i].pc = subs[i].pc /\ subs'[i].hold = subs[i].hold
             /\ subs'[i].errCh = subs[i].errCh /\ subs'[i].reader = subs[i].reader
  <2>1. subs[i] \in Sub
    BY SubsFacts
  <2>2. emitted + 1 \in Number
    BY <1>1 DEF Number
  <2>3. subs[i].msgs \in Seq(Number) /\ DOMAIN subs[i].msgs = 1..Len(subs[i].msgs)
    BY <2>1, MsgsFacts
  <2>4. subs'[i] \in Sub /\ subs'[i].msgs = Append(subs[i].msgs, emitted + 1)
    BY SMTT(30), <1>1, <1>3, <2>1, <2>2, <2>3 DEF Sub
  <2>5. DOMAIN subs'[i].msgs = 1..Len(subs'[i].msgs)
    BY <2>4, MsgsFacts
  <2> QED BY <1>3, <2>1, <2>2, <2>3, <2>4, <2>5, AppendProperties DEF Sub
<1>4. \A i \in DOMAIN subs : subs'[i] \in Sub
  BY <1>2, <1>3, SubsFacts
<1>5. subs' \in Seq(Sub) /\ Len(subs') = Len(subs)
  <2>1. DOMAIN subs' = 1..Len(subs) /\ Len(subs) \in Nat
    BY <1>2, SubsFacts
  <2>2. subs' = [i \in 1..Len(subs) |-> subs'[i]]
    BY <2>1 DEF Emit
  <2> QED BY <1>4, <2>1, <2>2, SubsFacts
<1>6. TypeInv'
  BY <1>1, <1>5 DEF TypeInv
<1>7. OneWatchAtATime'
  BY <1>1, <1>2, <1>3, <1>5 DEF OneWatchAtATime, Waiting
<1>8. NilErrorsAfterCancel' /\ PanicsOnlyAfterCancel'
  BY <1>1, <1>2, <1>3 DEF NilErrorsAfterCancel, PanicsOnlyAfterCancel
<1>9. ASSUME NEW i \in DOMAIN subs, subs'[i] # subs[i]
      PROVE  /\ InOrder(subs'[i], emitted')
             /\ subs'[i].reader = "waiting" => AllLater(subs'[i])
  <2> DEFINE n == Len(subs[i].msgs)
  <2>1. subs[i] \in Sub /\ InOrder(subs[i], emitted)
    BY SubsFacts DEF StreamsInOrder
  <2>2. n \in Nat /\ DOMAIN subs[i].msgs = 1..n /\ \A k \in 1..n : subs[i].msgs[k] \in Nat
    BY <2>1, MsgsFacts DEF Number
  <2>3. /\ DOMAIN subs'[i].msgs = 1..(n + 1)
        /\ \A k \in 1..n : subs'[i].msgs[k] = subs[i].msgs[k]
        /\ subs'[i].msgs[n + 1] = emitted + 1
        /\ subs'[i].pc = subs[i].pc /\ subs'[i].hold = subs[i].hold
        /\ subs'[i].reader = subs[i].reader
    BY <1>2, <1>3, <1>9, <2>2
  <2>4. \A k \in 1..(n + 1) : k \in 1..n \/ k = n + 1
    BY <2>2
  <2>5. InOrder(subs'[i], emitted')
    <3>1. /\ \A k \in 1..n : subs[i].msgs[k] <= emitted
          /\ \A j, k \in 1..n : j < k => subs[i].msgs[j] < subs[i].msgs[k]
          /\ subs[i].pc = "sending" =>
                subs[i].hold \in 1..emitted /\ \A k \in 1..n : subs[i].hold < subs[i].msgs[k]
      BY <2>1, <2>2 DEF InOrder
    <3> HIDE DEF n
    <3>2. \A k \in 1..(n + 1) : subs'[i].msgs[k] <= emitted + 1
      BY <1>1, <2>2, <2>3, <2>4, <3>1
    <3>3. \A j, k \in 1..(n + 1) : j < k => subs'[i].msgs[j] < subs'[i].msgs[k]
      <4> SUFFICES ASSUME NEW j \in 1..(n + 1), NEW k \in 1..(n + 1), j < k
                   PROVE  subs'[i].msgs[j] < subs'[i].msgs[k]
        OBVIOUS
      <4>1. j \in 1..n
        BY <2>2
      <4>2. CASE k \in 1..n
        BY <2>3, <3>1, <4>1, <4>2
      <4>3. CASE k = n + 1
        BY SMTT(30), <1>1, <2>2, <2>3, <3>1, <4>1, <4>3
      <4> QED BY <2>4, <4>2, <4>3
    <3>4. subs'[i].pc = "sending" =>
             /\ subs'[i].hold \in 1..(emitted + 1)
             /\ \A k \in 1..(n + 1) : subs'[i].hold < subs'[i].msgs[k]
      BY <1>1, <2>2, <2>3, <2>4, <3>1
    <3> QED BY <1>1, <2>3, <3>2, <3>3, <3>4 DEF InOrder
  <2>6. \A j \in DOMAIN shown : shown[j] \in Nat /\ shown[j] <= emitted
    BY ElementOfSeq, LenProperties DEF TypeInv, Number, RestIsLater
  <2>7. subs'[i].reader = "waiting" => AllLater(subs'[i])
    <3>1. ASSUME subs[i].reader = "waiting", NEW j \in DOMAIN shown
          PROVE  \A k \in 1..(n + 1) : shown[j] < subs'[i].msgs[k]
      <4>1. \A k \in 1..n : shown[j] < subs[i].msgs[k]
        BY <2>2, <3>1 DEF RestIsLater, AllLater
      <4>2. shown[j] < emitted + 1
        BY <1>1, <2>6
      <4> QED BY <2>3, <2>4, <4>1, <4>2
    <3>2. subs[i].reader = "waiting" => AllLater(subs[i])
      BY DEF RestIsLater
    <3> QED BY <2>3, <3>1, <3>2 DEF AllLater
  <2> QED BY <2>5, <2>7
<1>10. ASSUME NEW i \in DOMAIN subs, subs'[i] = subs[i] PROVE InOrder(subs'[i], emitted')
  <2>1. subs[i] \in Sub /\ InOrder(subs[i], emitted)
    BY SubsFacts DEF StreamsInOrder
  <2>2. \A k \in DOMAIN subs[i].msgs : subs[i].msgs[k] \in Nat
    BY <2>1, MsgsFacts DEF Number
  <2> QED BY <1>1, <1>10, <2>1, <2>2 DEF InOrder, Sub
<1>11. StreamsInOrder'
  BY <1>2, <1>9, <1>10 DEF StreamsInOrder
<1>12. RestIsLater'
  <2>1. \A j \in DOMAIN shown : shown[j] \in Nat
    BY ElementOfSeq, LenProperties DEF TypeInv, Number
  <2>2. \A k \in DOMAIN inbox : inbox[k].type = "event" => inbox[k].event \in Nat
    BY ElementOfSeq, LenProperties DEF TypeInv, Number, EventMsgs, ErrorMsgs
  <2>3. \A i \in DOMAIN subs : subs'[i].reader = "waiting" => AllLater(subs[i])'
    BY <1>1, <1>2, <1>9 DEF RestIsLater, AllLater
  <2>4. \A k \in DOMAIN inbox : Later(inbox[k])'
    BY <1>1, <2>2, ElementOfSeq DEF RestIsLater, Later
  <2> QED BY <1>1, <1>2, <2>1, <2>3, <2>4 DEF RestIsLater
<1>13. ShownOnceInOrder'
  BY <1>1 DEF ShownOnceInOrder, InLog
<1> QED BY <1>6, <1>7, <1>8, <1>11, <1>12, <1>13

-----------------------------------------------------------------------------
\* One subscription changes, and nothing is sent to Update.
LEMMA OneSubStep ==
    ASSUME Inv, NEW i \in DOMAIN subs, NEW new \in Sub, subs' = [subs EXCEPT ![i] = new],
           UNCHANGED <<ctxDone, emitted, starting, prog, events, shown, inbox>>,
           new.errCh = "closed" => ctxDone,
           InOrder(new, emitted),
           new.reader = "waiting" => subs[i].reader = "waiting" /\ AllLater(new)
    PROVE  Inv'
<1> USE DEF Inv
<1>1. /\ subs' \in Seq(Sub) /\ DOMAIN subs' = DOMAIN subs /\ Len(subs') = Len(subs)
      /\ subs'[i] = new /\ \A j \in DOMAIN subs \ {i} : subs'[j] = subs[j]
  BY ReplaceSub
<1>2. TypeInv'
  BY <1>1 DEF TypeInv
<1>3. OneWatchAtATime'
  BY <1>1 DEF OneWatchAtATime, Waiting
<1>4. NilErrorsAfterCancel' /\ PanicsOnlyAfterCancel'
  BY <1>1 DEF NilErrorsAfterCancel, PanicsOnlyAfterCancel
<1>5. StreamsInOrder'
  BY <1>1 DEF StreamsInOrder
<1>6. RestIsLater'
  BY <1>1 DEF RestIsLater, AllLater, Later
<1>7. ShownOnceInOrder'
  BY DEF ShownOnceInOrder, InLog
<1> QED BY <1>2, <1>3, <1>4, <1>5, <1>6, <1>7

LEMMA StreamFailsInv == ASSUME Inv, NEW i \in DOMAIN subs, StreamFails(i) PROVE Inv'
<1> DEFINE new == [subs[i] EXCEPT !.errs = TRUE]
<1>1. subs[i] \in Sub
  BY SubsFacts DEF Inv
<1>2. new \in Sub /\ new.errCh = subs[i].errCh /\ new.reader = subs[i].reader
      /\ new.pc = subs[i].pc /\ new.msgs = subs[i].msgs /\ new.hold = subs[i].hold
  BY <1>1 DEF Sub
<1>3. subs' = [subs EXCEPT ![i] = new]
  BY DEF StreamFails
<1>4. new.errCh = "closed" => ctxDone
  BY <1>2 DEF Inv, NilErrorsAfterCancel
<1>5. InOrder(new, emitted)
  BY <1>2 DEF Inv, StreamsInOrder, InOrder
<1>6. new.reader = "waiting" => subs[i].reader = "waiting" /\ AllLater(new)
  BY <1>2 DEF Inv, RestIsLater, AllLater
<1> HIDE DEF new
<1> QED BY <1>2, <1>3, <1>4, <1>5, <1>6, OneSubStep DEF StreamFails

\* The goroutine ends, or takes the next event in hand or passes over it.
LEMMA ForwardInv == ASSUME Inv, NEW i \in DOMAIN subs, Forward(i) PROVE Inv'
<1>0. subs[i] \in Sub /\ InOrder(subs[i], emitted) /\ subs[i].pc = "loop"
  BY SubsFacts DEF Inv, StreamsInOrder, Forward
<1>1. ASSUME NEW e \in {"closed", "err"}, e = "closed" => ctxDone,
             subs' = [subs EXCEPT ![i] = Ended(@, e)]
      PROVE  Inv'
  <2> DEFINE new == Ended(subs[i], e)
  <2>1. /\ new \in Sub /\ new.errCh = e /\ new.reader = subs[i].reader
        /\ new.pc = "done" /\ new.msgs = subs[i].msgs
    BY <1>0 DEF Ended, Sub
  <2>2. subs' = [subs EXCEPT ![i] = new]
    BY <1>1
  <2>3. InOrder(new, emitted)
    BY <1>0, <2>1 DEF InOrder
  <2>4. new.reader = "waiting" => subs[i].reader = "waiting" /\ AllLater(new)
    BY <2>1 DEF Inv, RestIsLater, AllLater
  <2> HIDE DEF new
  <2> QED BY <1>1, <2>1, <2>2, <2>3, <2>4, OneSubStep DEF Forward
<1>2. CASE /\ subs[i].msgs # <<>>
           /\ LET e == Head(subs[i].msgs)
              IN subs' = [subs EXCEPT ![i].msgs = Tail(@),
                                      ![i].pc = IF e \in Monitored THEN "sending" ELSE "loop",
                                      ![i].hold = IF e \in Monitored THEN e ELSE 0]
  <2> DEFINE ms == subs[i].msgs
             e == Head(ms)
             new == [subs[i] EXCEPT !.msgs = Tail(ms),
                                    !.pc = IF e \in Monitored THEN "sending" ELSE "loop",
                                    !.hold = IF e \in Monitored THEN e ELSE 0]
  <2>1. ms \in Seq(Number) /\ Len(ms) \in Nat \ {0} /\ DOMAIN ms = 1..Len(ms)
        /\ \A k \in 1..Len(ms) : ms[k] \in Number
    BY <1>0, <1>2, MsgsFacts, EmptySeq
  <2>2. /\ e = ms[1] /\ e \in Number /\ Tail(ms) \in Seq(Number)
        /\ DOMAIN Tail(ms) = 1..(Len(ms) - 1)
        /\ \A k \in 1..(Len(ms) - 1) : Tail(ms)[k] = ms[k + 1]
    BY <1>2, <2>1, HeadTailProperties, LenProperties
  <2> HIDE DEF ms, e
  <2>3. /\ new \in Sub /\ new.errCh = subs[i].errCh /\ new.reader = subs[i].reader
        /\ new.msgs = Tail(ms) /\ (new.pc = "sending" => new.hold = e)
    BY <1>0, <2>2 DEF Sub, Number
  <2>4. subs' = [subs EXCEPT ![i] = new]
    BY <1>2 DEF ms, e
  <2>5. \A k \in 1..(Len(ms) - 1) : k + 1 \in 1..Len(ms) /\ 1 < k + 1
    BY <2>1
  <2>6. /\ \A k \in 1..Len(ms) : ms[k] <= emitted
        /\ \A j, k \in 1..Len(ms) : j < k => ms[j] < ms[k]
    BY <1>0, <2>1 DEF InOrder, ms
  <2>7. InOrder(new, emitted)
    <3>1. \A k \in 1..(Len(ms) - 1) : Tail(ms)[k] <= emitted /\ e < Tail(ms)[k]
      BY <2>1, <2>2, <2>5, <2>6
    <3>2. \A j, k \in 1..(Len(ms) - 1) : j < k => Tail(ms)[j] < Tail(ms)[k]
      BY <2>1, <2>2, <2>5, <2>6
    <3>3. e \in 1..emitted
      BY <2>1, <2>2, <2>6 DEF Inv, TypeInv, Number
    <3> QED BY <2>2, <2>3, <3>1, <3>2, <3>3 DEF InOrder
  <2>8. new.reader = "waiting" => subs[i].reader = "waiting" /\ AllLater(new)
    <3>1. subs[i].reader = "waiting" =>
             \A j \in DOMAIN shown : \A k \in 1..Len(ms) : shown[j] < ms[k]
      BY <2>1 DEF Inv, RestIsLater, AllLater, ms
    <3> QED BY <2>1, <2>2, <2>3, <2>5, <3>1 DEF AllLater
  <2>9. new.errCh = "closed" => ctxDone
    BY <2>3 DEF Inv, NilErrorsAfterCancel
  <2> HIDE DEF new
  <2> QED BY <2>3, <2>4, <2>7, <2>8, <2>9, OneSubStep DEF Forward
<1> QED BY <1>1, <1>2 DEF Forward

-----------------------------------------------------------------------------
\* A new subscription is the only one that anybody waits on.
LEMMA WatchEventsInv == ASSUME Inv, WatchEvents PROVE Inv'
<1> USE DEF Inv
<1>1. /\ starting \in Nat /\ starting > 0 /\ starting' = starting - 1
      /\ subs' = Append(subs, NewSub)
      /\ UNCHANGED <<ctxDone, emitted, inbox, prog, events, shown>>
  BY DEF WatchEvents, TypeInv
<1>2. inbox \in Seq(EventMsgs \cup ErrorMsgs) /\ Len(inbox) \in Nat
  BY LenProperties DEF TypeInv
<1>3. starting = 1 /\ Len(inbox) = 0
  BY <1>1, <1>2 DEF OneWatchAtATime
<1>4. inbox = <<>>
  BY <1>2, <1>3, EmptySeq
<1>5. NewSub \in Sub /\ NewSub.msgs = <<>> /\ DOMAIN NewSub.msgs = {}
  BY EmptySeq DEF NewSub, Sub
<1>6. /\ subs' \in Seq(Sub) /\ Len(subs') = Len(subs) + 1
      /\ \A i \in 1..Len(subs) : subs'[i] = subs[i]
      /\ subs'[Len(subs) + 1] = NewSub
  BY <1>1, <1>5, AppendProperties DEF TypeInv
<1>7. /\ Len(subs) \in Nat /\ DOMAIN subs = 1..Len(subs)
      /\ DOMAIN subs' = 1..(Len(subs) + 1)
  BY <1>6, SubsFacts, LenProperties
<1>8. \A i \in DOMAIN subs' : i \in DOMAIN subs \/ i = Len(subs) + 1
  BY <1>7
<1>9. \A i \in DOMAIN subs : subs[i].reader # "waiting"
  BY <1>3 DEF OneWatchAtATime, Waiting
<1>10. TypeInv'
  BY <1>1, <1>3, <1>6 DEF TypeInv
<1>11. OneWatchAtATime'
  <2>1. starting' = 0 /\ inbox' = <<>> /\ Len(inbox') = 0
    BY <1>1, <1>3, <1>4
  <2>2. \A i \in DOMAIN subs' : Waiting(i)' => i = Len(subs')
    BY <1>6, <1>7, <1>8, <1>9 DEF Waiting
  <2> QED BY <2>1, <2>2 DEF OneWatchAtATime
<1>12. NilErrorsAfterCancel' /\ PanicsOnlyAfterCancel'
  <2>1. NewSub.errCh = "open"
    BY DEF NewSub
  <2> QED BY <1>1, <1>6, <1>7, <1>8, <2>1 DEF NilErrorsAfterCancel, PanicsOnlyAfterCancel
<1>13. StreamsInOrder'
  <2>1. InOrder(NewSub, emitted)
    BY <1>5 DEF InOrder, NewSub
  <2> QED BY <1>1, <1>6, <1>7, <1>8, <2>1 DEF StreamsInOrder
<1>14. RestIsLater'
  <2>1. AllLater(NewSub)
    BY <1>5 DEF AllLater, NewSub
  <2>2. \A i \in DOMAIN subs' : subs'[i].reader = "waiting" => AllLater(subs[i])'
    BY <1>1, <1>6, <1>7, <1>8, <1>9, <2>1 DEF AllLater
  <2> QED BY <1>1, <2>2 DEF RestIsLater, Later
<1>15. ShownOnceInOrder'
  BY <1>1 DEF ShownOnceInOrder, InLog
<1> QED BY <1>10, <1>11, <1>12, <1>13, <1>14, <1>15

\* The waiting command returns with a message: it was the only watch.
LEMMA DeliverInv ==
    ASSUME Inv, NEW i \in DOMAIN subs, subs[i].reader = "waiting",
           NEW new \in Sub, subs' = [subs EXCEPT ![i] = new],
           NEW msg \in EventMsgs \cup ErrorMsgs, inbox' = Append(inbox, msg),
           UNCHANGED <<ctxDone, emitted, starting, prog, events, shown>>,
           new.errCh = "closed" => ctxDone, new.reader = "gone",
           InOrder(new, emitted), Later(msg), msg = ErrorMsg(TRUE) => ctxDone
    PROVE  Inv'
<1> USE DEF Inv
<1>1. /\ subs' \in Seq(Sub) /\ DOMAIN subs' = DOMAIN subs /\ Len(subs') = Len(subs)
      /\ subs'[i] = new /\ \A j \in DOMAIN subs \ {i} : subs'[j] = subs[j]
  BY ReplaceSub
<1>2. inbox = <<>> /\ starting = 0 /\ \A j \in DOMAIN subs : Waiting(j) => j = i
  BY DEF OneWatchAtATime, Waiting
<1>3. inbox' \in Seq(EventMsgs \cup ErrorMsgs) /\ Len(inbox') = 1 /\ DOMAIN inbox' = {1}
      /\ inbox'[1] = msg
  BY <1>2
<1>4. TypeInv'
  BY <1>1, <1>3 DEF TypeInv
<1>5. OneWatchAtATime'
  BY <1>1, <1>2, <1>3 DEF OneWatchAtATime, Waiting
<1>6. NilErrorsAfterCancel' /\ PanicsOnlyAfterCancel'
  BY <1>1, <1>3 DEF NilErrorsAfterCancel, PanicsOnlyAfterCancel
<1>7. StreamsInOrder'
  BY <1>1 DEF StreamsInOrder
<1>8. RestIsLater'
  BY <1>1, <1>3 DEF RestIsLater, AllLater, Later
<1>9. ShownOnceInOrder'
  BY DEF ShownOnceInOrder, InLog
<1> QED BY <1>4, <1>5, <1>6, <1>7, <1>8, <1>9

LEMMA WatchDockerEventsInv ==
    ASSUME Inv, NEW i \in DOMAIN subs, watchDockerEvents(i) PROVE Inv'
<1>0. /\ subs[i] \in Sub /\ InOrder(subs[i], emitted) /\ subs[i].reader = "waiting"
      /\ AllLater(subs[i]) /\ (subs[i].errCh = "closed" => ctxDone)
  BY SubsFacts DEF Inv, StreamsInOrder, RestIsLater, NilErrorsAfterCancel, watchDockerEvents
<1> DEFINE gone == [subs[i] EXCEPT !.reader = "gone"]
<1>1. /\ gone \in Sub /\ gone.errCh = subs[i].errCh /\ gone.reader = "gone"
      /\ InOrder(gone, emitted)
  BY <1>0 DEF Sub, InOrder
<1>2. CASE subs' = [subs EXCEPT ![i].reader = "gone"] /\ UNCHANGED inbox
  <2>1. subs' = [subs EXCEPT ![i] = gone]
    BY <1>2
  <2> HIDE DEF gone
  <2> QED BY <1>0, <1>1, <1>2, <2>1, OneSubStep DEF watchDockerEvents
<1>3. CASE /\ subs[i].errCh # "open"
           /\ subs' = [subs EXCEPT ![i].reader = "gone"]
           /\ inbox' = Append(inbox, ErrorMsg(subs[i].errCh = "closed"))
  <2> DEFINE msg == ErrorMsg(subs[i].errCh = "closed")
  <2>1. subs' = [subs EXCEPT ![i] = gone]
    BY <1>3
  <2>2. msg \in EventMsgs \cup ErrorMsgs /\ msg.type = "error" /\ msg.nil = (subs[i].errCh = "closed")
    BY DEF ErrorMsg, ErrorMsgs
  <2>3. Later(msg)
    BY <2>2 DEF Later
  <2>4. msg = ErrorMsg(TRUE) => ctxDone
    BY <1>0, <2>2 DEF ErrorMsg
  <2>5. inbox' = Append(inbox, msg)
    BY <1>3
  <2> HIDE DEF gone, msg
  <2> QED BY <1>0, <1>1, <2>1, <2>2, <2>3, <2>4, <2>5, DeliverInv DEF watchDockerEvents
<1>4. CASE /\ subs[i].pc = "sending"
           /\ subs' = [subs EXCEPT ![i].reader = "gone", ![i].pc = "loop", ![i].hold = 0]
           /\ inbox' = Append(inbox, EventMsg(subs[i].hold))
  <2> DEFINE new == [subs[i] EXCEPT !.reader = "gone", !.pc = "loop", !.hold = 0]
             msg == EventMsg(subs[i].hold)
  <2>1. /\ new \in Sub /\ new.errCh = subs[i].errCh /\ new.reader = "gone" /\ new.pc = "loop"
        /\ new.msgs = subs[i].msgs
    BY <1>0 DEF Sub
  <2>2. InOrder(new, emitted)
    BY <1>0, <2>1 DEF InOrder
  <2>3. subs[i].hold \in 1..emitted /\ emitted \in Nat
    BY <1>0, <1>4 DEF InOrder, Inv, TypeInv
  <2>4. msg \in EventMsgs \cup ErrorMsgs /\ msg.type = "event" /\ msg.event = subs[i].hold
    BY <2>3 DEF EventMsg, EventMsgs, Number
  <2>5. Later(msg)
    BY <1>0, <1>4, <2>3, <2>4 DEF Later, AllLater
  <2>6. msg # ErrorMsg(TRUE)
    BY <2>4 DEF ErrorMsg
  <2>7. subs' = [subs EXCEPT ![i] = new] /\ inbox' = Append(inbox, msg)
    BY <1>4
  <2> HIDE DEF new, msg
  <2> QED BY <1>0, <2>1, <2>2, <2>4, <2>5, <2>6, <2>7, DeliverInv DEF watchDockerEvents
<1> QED BY <1>2, <1>3, <1>4 DEF watchDockerEvents

-----------------------------------------------------------------------------
\* A log with a new entry in front, and the same cut to its limit.
LEMMA PrependFacts ==
    ASSUME NEW log \in Seq(Nat), NEW e \in Nat
    PROVE  /\ <<e>> \o log \in Seq(Nat) /\ Len(<<e>> \o log) = Len(log) + 1
           /\ DOMAIN (<<e>> \o log) = 1..(Len(log) + 1)
           /\ (<<e>> \o log)[1] = e
           /\ \A i \in 1..Len(log) : (<<e>> \o log)[i + 1] = log[i]
<1>1. <<e>> \in Seq(Nat) /\ Len(<<e>>) = 1 /\ <<e>>[1] = e /\ Len(log) \in Nat
  BY LenProperties
<1>2. /\ <<e>> \o log \in Seq(Nat) /\ Len(<<e>> \o log) = 1 + Len(log)
      /\ \A i \in 1..(1 + Len(log)) :
            (<<e>> \o log)[i] = IF i <= 1 THEN <<e>>[i] ELSE log[i - 1]
  BY <1>1, ConcatProperties
<1>3. DOMAIN (<<e>> \o log) = 1..Len(<<e>> \o log)
  BY <1>2, LenProperties
<1> DEFINE t == <<e>> \o log
<1>4. t[1] = e
  BY <1>1, <1>2
<1>5. ASSUME NEW i \in 1..Len(log) PROVE t[i + 1] = log[i]
  <2>1. i + 1 \in 1..(1 + Len(log)) /\ ~(i + 1 <= 1) /\ (i + 1) - 1 = i
    BY <1>1
  <2> QED BY <1>2, <2>1
<1> QED BY <1>1, <1>2, <1>3, <1>4, <1>5

LEMMA CutFacts ==
    ASSUME NEW log \in Seq(Nat)
    PROVE  /\ Cut(log) \in Seq(Nat)
           /\ Len(Cut(log)) = IF Len(log) > EventCap THEN EventCap ELSE Len(log)
           /\ DOMAIN Cut(log) = 1..Len(Cut(log))
           /\ \A i \in DOMAIN Cut(log) : Cut(log)[i] = log[i]
<1>1. Len(log) \in Nat /\ DOMAIN log = 1..Len(log) /\ \A i \in 1..Len(log) : log[i] \in Nat
  BY LenProperties, ElementOfSeq
<1>2. EventCap \in Nat /\ EventCap >= 1
  BY EventAssumption
<1>3. CASE Len(log) > EventCap
  <2>1. \A i \in 1..EventCap : log[i] \in Nat
    BY <1>1, <1>2, <1>3
  <2>2. /\ SubSeq(log, 1, EventCap) \in Seq(Nat) /\ Len(SubSeq(log, 1, EventCap)) = EventCap
        /\ \A i \in 1..EventCap : SubSeq(log, 1, EventCap)[i] = log[i]
    <3>1. /\ SubSeq(log, 1, EventCap) \in Seq(Nat)
          /\ Len(SubSeq(log, 1, EventCap)) = IF 1 <= EventCap THEN EventCap - 1 + 1 ELSE 0
          /\ \A i \in 1..(EventCap - 1 + 1) : SubSeq(log, 1, EventCap)[i] = log[1 + i - 1]
      BY <1>2, <2>1, SubSeqProperties
    <3> QED BY <1>2, <3>1
  <2> QED BY <1>3, <2>2, LenProperties DEF Cut
<1>4. CASE ~(Len(log) > EventCap)
  BY <1>1, <1>4 DEF Cut
<1> QED BY <1>3, <1>4

\* An event is handled: it is the newest, and if the cut drops an entry, that
\* is the oldest.
LEMMA ShowEvent ==
    ASSUME TypeInv, ShownOnceInOrder, NEW e \in Number, \A j \in DOMAIN shown : shown[j] < e,
           events' = Cut(<<e>> \o events), shown' = Append(shown, e)
    PROVE  events' \in Seq(Nat) /\ shown' \in Seq(Number) /\ ShownOnceInOrder'
<1> DEFINE n == Len(events)
           s == Len(shown)
           c == Len(events')
<1>1. /\ events \in Seq(Nat) /\ n \in Nat /\ DOMAIN events = 1..n
      /\ \A i \in 1..n : events[i] \in Nat
      /\ shown \in Seq(Number) /\ s \in Nat /\ DOMAIN shown = 1..s
      /\ \A i \in 1..s : shown[i] \in Number
  BY LenProperties, ElementOfSeq DEF TypeInv
<1>2. /\ shown' \in Seq(Number) /\ Len(shown') = s + 1 /\ DOMAIN shown' = 1..(s + 1)
      /\ \A i \in 1..s : shown'[i] = shown[i]
      /\ shown'[s + 1] = e
  BY <1>1, AppendProperties, LenProperties
<1>3. /\ events' \in Seq(Nat) /\ c \in Nat /\ DOMAIN events' = 1..c
      /\ c = IF n + 1 > EventCap THEN EventCap ELSE n + 1
      /\ 1 \in 1..c /\ events'[1] = e
      /\ \A i \in 2..c : i - 1 \in 1..n /\ events'[i] = events[i - 1]
  <2> DEFINE t == <<e>> \o events
  <2>1. e \in Nat
    BY DEF Number
  <2>2. /\ t \in Seq(Nat) /\ Len(t) = n + 1 /\ t[1] = e
        /\ \A i \in 1..n : t[i + 1] = events[i]
    BY <1>1, <2>1, PrependFacts
  <2> HIDE DEF t
  <2>3. /\ Cut(t) \in Seq(Nat)
        /\ Len(Cut(t)) = IF n + 1 > EventCap THEN EventCap ELSE n + 1
        /\ DOMAIN Cut(t) = 1..Len(Cut(t))
        /\ \A i \in DOMAIN Cut(t) : Cut(t)[i] = t[i]
    BY <2>2, CutFacts
  <2>4. events' = Cut(t)
    BY DEF t
  <2>5. EventCap \in Nat /\ EventCap >= 1
    BY EventAssumption
  <2>6. c \in Nat /\ 1 <= c /\ c <= n + 1
    BY <1>1, <2>3, <2>4, <2>5
  <2>7. ASSUME NEW i \in 2..c PROVE i - 1 \in 1..n /\ events'[i] = events[i - 1]
    <3>1. i - 1 \in 1..n /\ i \in 1..c /\ (i - 1) + 1 = i
      BY <1>1, <2>6
    <3>2. events'[i] = t[i] /\ t[(i - 1) + 1] = events[i - 1]
      BY <2>2, <2>3, <2>4, <3>1
    <3> QED BY <3>1, <3>2
  <2>8. 1 \in 1..c /\ 1 \in DOMAIN Cut(t)
    BY <2>3, <2>4, <2>6
  <2>9. events'[1] = e
    <3>1. Cut(t)[1] = t[1]
      BY <2>3, <2>8
    <3>2. t[1] = e
      BY <2>2
    <3> QED BY <2>4, <3>1, <3>2
  <2>10. /\ events' \in Seq(Nat) /\ DOMAIN events' = 1..c
         /\ c = IF n + 1 > EventCap THEN EventCap ELSE n + 1
    BY <2>3, <2>4
  <2> HIDE DEF n, c
  <2> QED BY <2>6, <2>7, <2>8, <2>9, <2>10
<1> HIDE DEF n, s, c
<1>4. \A i \in 1..c : i = 1 \/ i \in 2..c
  BY <1>3
<1>5. \A k \in 1..(s + 1) : k \in 1..s \/ k = s + 1
  BY <1>1
<1>6. e \in Nat /\ IsEvent(e) /\ \A i \in 1..n : IsEvent(events[i]) => events[i] < e
  <2>1. \A i \in 1..n : IsEvent(events[i]) => \E k \in 1..s : shown[k] = events[i]
    BY <1>1 DEF ShownOnceInOrder
  <2> QED BY <1>1, <2>1 DEF IsEvent, Number
<1>7. \A j, k \in DOMAIN shown' : j < k => shown'[j] < shown'[k]
  <2>1. \A j, k \in 1..s : j < k => shown[j] < shown[k]
    BY <1>1 DEF ShownOnceInOrder
  <2>2. \A j \in 1..s : shown'[j] < e
    BY <1>1, <1>2
  <2>3. \A j, k \in 1..(s + 1) : j < k => j \in 1..s
    BY <1>1
  <2> QED BY <1>1, <1>2, <1>5, <2>1, <2>2, <2>3
<1>8. \A i, j \in DOMAIN events' :
         i < j /\ IsEvent(events'[i]) /\ IsEvent(events'[j]) => events'[i] > events'[j]
  <2> SUFFICES ASSUME NEW i \in 1..c, NEW j \in 1..c, i < j,
                      IsEvent(events'[i]), IsEvent(events'[j])
               PROVE  events'[i] > events'[j]
    BY <1>3
  <2>1. j \in 2..c
    BY <1>3
  <2>2. j - 1 \in 1..n /\ events'[j] = events[j - 1]
    BY <1>3, <2>1
  <2>3. CASE i = 1
    BY <1>1, <1>3, <1>6, <2>2, <2>3
  <2>4. CASE i \in 2..c
    <3>0. i - 1 < j - 1
      BY <2>1, <2>4
    <3>1. i - 1 \in 1..n /\ events'[i] = events[i - 1] /\ i - 1 < j - 1
      BY <1>3, <2>4, <3>0
    <3> QED BY <1>1, <2>2, <3>1 DEF ShownOnceInOrder
  <2> QED BY <1>4, <2>3, <2>4
<1>9. \A j \in DOMAIN events' :
         IsEvent(events'[j]) => \E k \in DOMAIN shown' : shown'[k] = events'[j]
  <2> SUFFICES ASSUME NEW j \in 1..c, IsEvent(events'[j])
               PROVE  \E k \in 1..(s + 1) : shown'[k] = events'[j]
    BY <1>2, <1>3
  <2>1. CASE j = 1
    BY <1>1, <1>2, <1>3, <2>1
  <2>2. CASE j \in 2..c
    <3>1. PICK k \in 1..s : shown[k] = events[j - 1]
      BY <1>1, <1>3, <2>2 DEF ShownOnceInOrder
    <3>2. k \in 1..(s + 1)
      BY <1>1
    <3> QED BY <1>2, <1>3, <2>2, <3>1, <3>2
  <2> QED BY <1>4, <2>1, <2>2
<1>10. ASSUME NEW k \in 1..(s + 1)
       PROVE  \/ \E i \in 1..c : events'[i] = shown'[k]
              \/ /\ k < s + 1 /\ c >= EventCap
                 /\ \A j \in 1..c : IsEvent(events'[j]) => events'[j] > shown'[k]
  <2>1. CASE k = s + 1
    BY <1>2, <1>3, <2>1
  <2>2. CASE k \in 1..s
    <3>0. shown'[k] = shown[k] /\ shown[k] \in Number /\ shown[k] < e /\ k < s + 1
      <4>1. k < s + 1
        BY <1>1, <2>2
      <4>2. shown'[k] = shown[k] /\ shown[k] \in Number
        BY <1>1, <1>2, <2>2
      <4>3. k \in DOMAIN shown
        BY <1>1, <2>2
      <4> QED BY <4>1, <4>2, <4>3
    <3>1. CASE \E i \in 1..n : events[i] = shown[k]
      <4>1. PICK i \in 1..n : events[i] = shown[k]
        BY <3>1
      <4>2. CASE i + 1 <= c
        <5>1. i + 1 \in 2..c /\ i + 1 \in 1..c /\ (i + 1) - 1 = i
          BY <1>1, <1>3, <4>2
        <5>2. events'[i + 1] = shown'[k]
          BY <1>3, <3>0, <4>1, <5>1
        <5> QED BY <5>1, <5>2
      <4>3. CASE ~(i + 1 <= c)
        <5>1. EventCap \in Nat /\ c >= EventCap
          BY <1>1, <1>3, <4>3, EventAssumption
        <5>2. ASSUME NEW j \in 2..c, IsEvent(events'[j]) PROVE events'[j] > shown'[k]
          <6>0. j - 1 < i
            <7>1. i \in Int /\ c \in Int /\ j \in Int /\ j <= c /\ ~(i + 1 <= c)
              BY <1>3, <4>3
            <7> QED BY <7>1
          <6>1. j - 1 \in 1..n /\ j - 1 < i /\ events'[j] = events[j - 1]
            BY <1>3, <6>0
          <6>2. IsEvent(events[i])
            BY <3>0, <4>1 DEF IsEvent, Number
          <6> QED BY <1>1, <3>0, <4>1, <5>2, <6>1, <6>2 DEF ShownOnceInOrder
        <5>3. events'[1] > shown'[k]
          BY <1>3, <1>6, <3>0 DEF Number
        <5> QED BY <1>4, <3>0, <5>1, <5>2, <5>3
      <4> QED BY <4>2, <4>3
    <3>2. CASE ~\E i \in 1..n : events[i] = shown[k]
      <4>1. n >= EventCap /\ \A j \in 1..n : IsEvent(events[j]) => events[j] > shown[k]
        BY <1>1, <2>2, <3>2 DEF ShownOnceInOrder, InLog, n
      <4>2. c >= EventCap
        BY <1>1, <1>3, <4>1, EventAssumption
      <4>3. \A j \in 2..c : IsEvent(events'[j]) => events'[j] > shown'[k]
        BY <1>3, <3>0, <4>1
      <4>4. events'[1] > shown'[k]
        BY <1>3, <1>6, <3>0 DEF Number
      <4> QED BY <1>4, <3>0, <4>2, <4>3, <4>4
    <3> QED BY <3>1, <3>2
  <2> QED BY <1>5, <2>1, <2>2
<1>11. \A k \in DOMAIN shown' :
          \/ InLog(shown[k])'
          \/ /\ k < Len(shown') /\ Len(events') >= EventCap
             /\ \A j \in DOMAIN events' : IsEvent(events'[j]) => events'[j] > shown'[k]
  BY ZenonT(40), <1>2, <1>3, <1>10 DEF InLog, c
<1> QED BY <1>2, <1>3, <1>7, <1>8, <1>9, <1>11 DEF ShownOnceInOrder

\* An error is logged in front of the events, which it does not touch.
LEMMA ShowError ==
    ASSUME TypeInv, ShownOnceInOrder, events' = << 0 >> \o events, shown' = shown
    PROVE  events' \in Seq(Nat) /\ ShownOnceInOrder'
<1> DEFINE n == Len(events)
<1>1. /\ events \in Seq(Nat) /\ n \in Nat /\ DOMAIN events = 1..n
      /\ \A i \in 1..n : events[i] \in Nat
  BY LenProperties, ElementOfSeq DEF TypeInv
<1>2. /\ events' \in Seq(Nat) /\ Len(events') = n + 1 /\ DOMAIN events' = 1..(n + 1)
      /\ ~IsEvent(events'[1])
      /\ \A i \in 1..n : events'[i + 1] = events[i]
  BY <1>1, PrependFacts DEF IsEvent
<1>3. \A j \in 1..(n + 1) : IsEvent(events'[j]) => j - 1 \in 1..n /\ events'[j] = events[j - 1]
  <2> SUFFICES ASSUME NEW j \in 1..(n + 1), IsEvent(events'[j])
               PROVE  j - 1 \in 1..n /\ events'[j] = events[j - 1]
    OBVIOUS
  <2>1. j # 1
    BY <1>2
  <2>2. j - 1 \in 1..n /\ (j - 1) + 1 = j
    BY <1>1, <2>1
  <2> QED BY <1>2, <2>2
<1>4. \A i \in 1..n : i + 1 \in 1..(n + 1)
  BY <1>1
<1>5. \A k \in DOMAIN shown : InLog(shown[k]) => InLog(shown[k])'
  BY <1>1, <1>2, <1>4 DEF InLog
<1> HIDE DEF n
<1>6. \A i, j \in 1..(n + 1) : i < j /\ i - 1 \in 1..n /\ j - 1 \in 1..n => i - 1 < j - 1
  BY <1>1
<1>7. \A i, j \in DOMAIN events' :
         i < j /\ IsEvent(events'[i]) /\ IsEvent(events'[j]) => events'[i] > events'[j]
  <2> SUFFICES ASSUME NEW i \in 1..(n + 1), NEW j \in 1..(n + 1), i < j,
                      IsEvent(events'[i]), IsEvent(events'[j])
               PROVE  events'[i] > events'[j]
    BY <1>2
  <2>1. /\ i - 1 \in 1..n /\ events'[i] = events[i - 1]
        /\ j - 1 \in 1..n /\ events'[j] = events[j - 1]
    BY <1>3
  <2> QED BY <1>1, <1>6, <2>1 DEF ShownOnceInOrder
<1>8. \A j \in DOMAIN events' :
         IsEvent(events'[j]) => \E k \in DOMAIN shown' : shown'[k] = events'[j]
  BY <1>1, <1>2, <1>3 DEF ShownOnceInOrder
<1>9. \A k \in DOMAIN shown' :
         \/ InLog(shown[k])'
         \/ /\ k < Len(shown') /\ Len(events') >= EventCap
            /\ \A j \in DOMAIN events' : IsEvent(events'[j]) => events'[j] > shown'[k]
  <2> SUFFICES ASSUME NEW k \in DOMAIN shown, ~InLog(shown[k])
               PROVE  /\ k < Len(shown) /\ n + 1 >= EventCap
                      /\ \A j \in 1..(n + 1) : IsEvent(events'[j]) => events'[j] > shown[k]
    BY <1>2, <1>5
  <2>1. /\ k < Len(shown) /\ n >= EventCap
        /\ \A j \in DOMAIN events : IsEvent(events[j]) => events[j] > shown[k]
    BY DEF ShownOnceInOrder, n
  <2>2. n + 1 >= EventCap
    BY <1>1, <2>1, EventAssumption
  <2> QED BY <1>1, <1>3, <2>1, <2>2
<1>10. \A j, k \in DOMAIN shown' : j < k => shown'[j] < shown'[k]
  BY DEF ShownOnceInOrder
<1> QED BY <1>2, <1>7, <1>8, <1>9, <1>10 DEF ShownOnceInOrder

\* Update takes the one result there is.
LEMMA UpdateInv == ASSUME Inv, Update PROVE Inv'
<1> USE DEF Inv
<1> DEFINE m == Head(inbox)
<1>1. /\ inbox \in Seq(EventMsgs \cup ErrorMsgs) /\ inbox # <<>> /\ inbox' = Tail(inbox)
      /\ starting \in Nat
      /\ prog = "running" /\ UNCHANGED <<ctxDone, emitted, subs>>
  BY DEF Update, TypeInv
<1>2. Len(inbox) = 1 /\ starting = 0
  <2>1. Len(inbox) \in Nat \ {0}
    BY <1>1, EmptySeq
  <2>2. starting + Len(inbox) <= 1
    BY DEF OneWatchAtATime
  <2>3. \A x \in Nat, y \in Nat \ {0} : x + y <= 1 => y = 1 /\ x = 0
    OBVIOUS
  <2> QED BY <1>1, <2>1, <2>2, <2>3
<1>3. /\ inbox' \in Seq(EventMsgs \cup ErrorMsgs) /\ Len(inbox') = 0 /\ inbox' = <<>>
      /\ DOMAIN inbox' = {}
  BY <1>1, <1>2, HeadTailProperties, EmptySeq
<1>4. m \in EventMsgs \cup ErrorMsgs /\ m = inbox[1] /\ 1 \in DOMAIN inbox
  BY <1>1, <1>2, HeadTailProperties, LenProperties
<1>5. \A i \in DOMAIN subs : subs[i].reader # "waiting"
  BY <1>1 DEF OneWatchAtATime, Waiting
<1>6. (m.type = "event" /\ handleDockerEventMsg(m.event))
      \/ (m.type = "error" /\ handleDockerErrorMsg(m.nil))
  BY DEF Update
<1> HIDE DEF m
<1>7. CASE m.type = "event" /\ handleDockerEventMsg(m.event)
  <2>1. m.event \in Number /\ m.event <= emitted /\ \A j \in DOMAIN shown : shown[j] < m.event
    BY <1>4, <1>7 DEF RestIsLater, Later, EventMsgs, ErrorMsgs
  <2>2. /\ events' = Cut(<<m.event>> \o events) /\ shown' = Append(shown, m.event)
        /\ starting' = 1 /\ prog' = prog
    BY <1>2, <1>7 DEF handleDockerEventMsg
  <2>3. events' \in Seq(Nat) /\ shown' \in Seq(Number) /\ ShownOnceInOrder'
    BY <2>1, <2>2, ShowEvent
  <2>4. TypeInv'
    BY <1>1, <1>3, <2>2, <2>3 DEF TypeInv
  <2>5. OneWatchAtATime'
    BY <1>1, <1>3, <1>5, <2>2 DEF OneWatchAtATime, Waiting
  <2>6. NilErrorsAfterCancel' /\ PanicsOnlyAfterCancel'
    BY <1>1, <1>3, <2>2 DEF NilErrorsAfterCancel, PanicsOnlyAfterCancel
  <2>7. StreamsInOrder'
    BY <1>1 DEF StreamsInOrder
  <2>8. \A j \in DOMAIN shown' : shown'[j] <= emitted
    <3>1. shown \in Seq(Number) /\ Len(shown) \in Nat /\ DOMAIN shown = 1..Len(shown)
      BY LenProperties DEF TypeInv
    <3>2. /\ DOMAIN shown' = 1..(Len(shown) + 1) /\ shown'[Len(shown) + 1] = m.event
          /\ \A j \in 1..Len(shown) : shown'[j] = shown[j]
      BY <2>1, <2>2, <2>3, <3>1, AppendProperties, LenProperties
    <3>3. \A j \in 1..(Len(shown) + 1) : j \in 1..Len(shown) \/ j = Len(shown) + 1
      BY <3>1
    <3> QED BY <2>1, <3>1, <3>2, <3>3 DEF RestIsLater
  <2>9. RestIsLater'
    BY <1>1, <1>3, <1>5, <2>8 DEF RestIsLater
  <2> QED BY <2>3, <2>4, <2>5, <2>6, <2>7, <2>9
<1>8. CASE m.type = "error" /\ handleDockerErrorMsg(m.nil)
  <2>1. shown' = shown /\ starting' = starting
    BY <1>8 DEF handleDockerErrorMsg
  <2>2. m.nil \in BOOLEAN /\ m = ErrorMsg(m.nil)
    BY <1>4, <1>8 DEF EventMsgs, ErrorMsgs, ErrorMsg
  <2>3. m.nil => ctxDone
    BY <1>4, <2>2 DEF NilErrorsAfterCancel
  <2>4. /\ events' \in Seq(Nat) /\ ShownOnceInOrder'
        /\ prog' \in {"running", "panicked"} /\ (prog' = "panicked" => m.nil)
    <3>1. CASE m.nil
      BY <1>8, <2>1, <3>1 DEF handleDockerErrorMsg, TypeInv, ShownOnceInOrder, InLog
    <3>2. CASE ~m.nil
      <4>1. events' = <<0>> \o events /\ prog' = prog
        BY <1>8, <3>2 DEF handleDockerErrorMsg
      <4> QED BY <1>1, <2>1, <4>1, ShowError
    <3> QED BY <3>1, <3>2
  <2>5. TypeInv'
    BY <1>1, <1>3, <2>1, <2>4 DEF TypeInv
  <2>6. OneWatchAtATime'
    <3>1. starting' + Len(inbox') <= 1
      BY <1>2, <1>3, <2>1
    <3>2. \A i \in DOMAIN subs' : ~Waiting(i)'
      BY <1>1, <1>5 DEF Waiting
    <3> QED BY <3>1, <3>2 DEF OneWatchAtATime
  <2>7. NilErrorsAfterCancel' /\ PanicsOnlyAfterCancel'
    BY <1>1, <1>3, <2>3, <2>4 DEF NilErrorsAfterCancel, PanicsOnlyAfterCancel
  <2>8. StreamsInOrder' /\ RestIsLater'
    BY <1>1, <1>3, <1>5, <2>1 DEF StreamsInOrder, RestIsLater
  <2> QED BY <2>4, <2>5, <2>6, <2>7, <2>8
<1> QED BY <1>6, <1>7, <1>8

-----------------------------------------------------------------------------
LEMMA StepInv == ASSUME Inv, [Next]_evars PROVE Inv'
<1>1. CASE Emit
  BY <1>1, EmitInv
<1>2. CASE WatchEvents
  BY <1>2, WatchEventsInv
<1>3. CASE Update
  BY <1>3, UpdateInv
<1>4. CASE Cancel \/ Quit \/ UNCHANGED evars
  <2>1. /\ UNCHANGED <<emitted, subs, starting, inbox, events, shown>>
        /\ ctxDone' \in BOOLEAN /\ prog' \in {"running", "quit", "panicked"}
        /\ (ctxDone => ctxDone') /\ (prog' = "panicked" => prog = "panicked")
    BY <1>4 DEF Cancel, Quit, evars, Inv, TypeInv
  <2>2. TypeInv' /\ OneWatchAtATime' /\ NilErrorsAfterCancel' /\ PanicsOnlyAfterCancel'
    BY <2>1 DEF Inv, TypeInv, OneWatchAtATime, Waiting, NilErrorsAfterCancel,
                PanicsOnlyAfterCancel
  <2>3. StreamsInOrder' /\ RestIsLater' /\ ShownOnceInOrder'
    BY <2>1 DEF Inv, StreamsInOrder, RestIsLater, AllLater, Later, ShownOnceInOrder, InLog
  <2> QED BY <2>2, <2>3 DEF Inv
<1>5. ASSUME NEW i \in DOMAIN subs, StreamFails(i) \/ Forward(i) \/ watchDockerEvents(i)
      PROVE  Inv'
  BY <1>5, StreamFailsInv, ForwardInv, WatchDockerEventsInv
<1> QED BY <1>1, <1>2, <1>3, <1>4, <1>5 DEF Next

THEOREM EventWatchInv == Spec => []Inv
BY InitInv, StepInv, PTL DEF Spec

\* tui.go, watchDockerEvents and handleDockerEventMsg: one watch is under way at
\* a time, however often the stream ends and whenever the context is cancelled.
THEOREM OneWatch == Spec => []OneWatchAtATime
<1>1. Inv => OneWatchAtATime
  BY DEF Inv
<1> QED BY <1>1, EventWatchInv, PTL

\* Events are shown once and in order over all subscriptions, and the log holds
\* the latest of them.
THEOREM ShownInOrder == Spec => []ShownOnceInOrder
<1>1. Inv => ShownOnceInOrder
  BY DEF Inv
<1> QED BY <1>1, EventWatchInv, PTL

\* tui.go, handleDockerErrorMsg: the nil error that brings the program down comes
\* only from a context that has been cancelled.
THEOREM PanicOnlyAfterCancel == Spec => []PanicsOnlyAfterCancel
<1>1. Inv => PanicsOnlyAfterCancel
  BY DEF Inv
<1> QED BY <1>1, EventWatchInv, PTL

=============================================================================
