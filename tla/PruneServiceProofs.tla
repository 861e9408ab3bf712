------------------------- MODULE PruneServiceProofs -------------------------
(***************************************************************************)
(* Proofs about PruneService: the store inside the agent is EventStore, so *)
(* what EventStoreProofs shows of the store holds in the agent.            *)
(***************************************************************************)
EXTENDS PruneService, EventStoreProofs

LEMMA StepIsStoreStep == [PruneNext]_pvars => [StoreNext]_store
<1> SUFFICES ASSUME [PruneNext]_pvars PROVE [StoreNext]_store
  OBVIOUS
<1>1. CASE PassTime \/ checkAndPrune \/ PruneReturns \/ PrunerStops \/ Signal \/ TuiReturns
           \/ MainExits \/ Terminated \/ UNCHANGED pvars
  BY <1>1 DEF PassTime, checkAndPrune, PruneReturns, PrunerStops, Signal, TuiReturns,
     MainExits, Terminated, pvars
<1>2. CASE PrunerSaves
  BY <1>2, ActorsAssumption DEF PrunerSaves, StoreNext
<1>3. CASE MainCloses
  BY <1>3, ActorsAssumption DEF MainCloses, StoreNext
<1>4. CASE WriteWorker
  BY <1>4 DEF WriteWorker, StoreNext
<1> QED
  BY <1>1, <1>2, <1>3, <1>4 DEF PruneNext, Main

(* The store that the pruner and main share behaves as EventStore. *)
THEOREM AgentUsesStore == PruneSpec => StoreSpec
<1>1. PruneInit => StoreInit
  BY DEF PruneInit
<1> QED
  BY <1>1, StepIsStoreStep, PTL DEF PruneSpec, StoreSpec

-----------------------------------------------------------------------------
(* main has passed store.Close(), and the pruner's clock is the one it     *)
(* compares with.                                                          *)
ClosedBeforeExit ==
    mainPc \in {"closed", "stopping", "exited"} => closing["main"] = "returned"
LastPruneIsTheEnd == lastPrune = pruneEnd

PruneInv ==
    /\ now \in Nat
    /\ pruneEnd \in Nat \cup {Never}
    /\ once \in {"unused", "running", "done"}
    /\ closing \in [Closers -> {"idle", "holding", "blocked", "returned"}]
    /\ ClosedBeforeExit
    /\ LastPruneIsTheEnd

LEMMA PruneInvStep == PruneInv /\ [PruneNext]_pvars => PruneInv'
<1> SUFFICES ASSUME PruneInv, [PruneNext]_pvars PROVE PruneInv'
  OBVIOUS
<1> USE DEF PruneInv, ClosedBeforeExit, LastPruneIsTheEnd
<1>1. CASE PassTime
  BY <1>1, PruneAssumption DEF PassTime, store
<1>2. CASE checkAndPrune \/ PruneReturns \/ PrunerStops \/ Signal \/ TuiReturns \/ MainExits
  BY <1>2 DEF checkAndPrune, PruneReturns, PrunerStops, Signal, TuiReturns, MainExits, store
<1>3. CASE PrunerSaves
  BY <1>3 DEF PrunerSaves, SaveEvent
<1>4. CASE MainCloses
  <2>1. CASE CloseBegin("main")
    <3>1. closing["main"] = "idle" /\ mainPc = "closing" /\ mainPc' = mainPc
      BY <1>4, <2>1 DEF MainCloses, CloseBegin, CloseFinish
    <3>2. once' \in {"unused", "running", "done"}
      BY <2>1 DEF CloseBegin
    <3>3. closing' \in [Closers -> {"idle", "holding", "blocked", "returned"}]
      BY <2>1 DEF CloseBegin
    <3>4. now' = now /\ lastPrune' = lastPrune /\ pruneEnd' = pruneEnd
      BY <1>4 DEF MainCloses
    <3> QED
      BY <3>1, <3>2, <3>3, <3>4
  <2>2. CASE CloseFinish("main")
    BY <1>4, <2>2, ActorsAssumption DEF MainCloses, CloseFinish
  <2> QED
    BY <1>4, <2>1, <2>2 DEF MainCloses
<1>5. CASE WriteWorker
  BY <1>5 DEF WriteWorker, prune, Worker, WorkerReceive, WorkerInsert, WorkerExit
<1>6. CASE Terminated \/ UNCHANGED pvars
  BY <1>6 DEF Terminated, pvars, prune, store
<1> QED
  BY <1>1, <1>2, <1>3, <1>4, <1>5, <1>6 DEF PruneNext, Main

THEOREM PruneInvariant == PruneSpec => []PruneInv
<1>1. PruneInit => PruneInv
  BY DEF PruneInit, StoreInit, PruneInv, ClosedBeforeExit, LastPruneIsTheEnd
<1> QED
  BY <1>1, PruneInvStep, PTL DEF PruneSpec

(* When the process ends normally, every accepted record has been written  *)
(* or failed to be.                                                        *)
THEOREM ExitIsClean == PruneSpec => []ExitLosesNothing
<1>1. PruneInv /\ CloseFlushes => ExitLosesNothing
  BY ActorsAssumption DEF PruneInv, ClosedBeforeExit, CloseFlushes, ExitLosesNothing
<1> QED
  BY <1>1, PruneInvariant, AgentUsesStore, CloseFlushesAll, PTL

(* No cleanup starts within an hour of the end of the previous one. *)
THEOREM Spacing == PruneSpec => PrunesAreSpaced
<1> DEFINE Spaced == prunerPc = "select" /\ prunerPc' = "pruning" =>
                        pruneEnd = Never \/ pruneEnd + MinGap <= now
<1>1. PruneInv /\ [PruneNext]_pvars => [Spaced]_pvars
  <2> SUFFICES ASSUME PruneInv, PruneNext, prunerPc = "select", prunerPc' = "pruning",
                      pruneEnd # Never
               PROVE  pruneEnd + MinGap <= now
    OBVIOUS
  <2>1. checkAndPrune
    BY DEF PruneNext, PassTime, PruneReturns, PrunerSaves, PrunerStops, Signal, TuiReturns,
       Main, MainCloses, MainExits, WriteWorker, prune, Terminated, pvars
  <2>2. ~RanRecently
    BY <2>1 DEF checkAndPrune
  <2> QED
    BY <2>2, PruneAssumption DEF RanRecently, PruneInv, LastPruneIsTheEnd
<1> QED
  BY <1>1, PruneInvariant, PTL DEF PruneSpec, PrunesAreSpaced

=============================================================================
