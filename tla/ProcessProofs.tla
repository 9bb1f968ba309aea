---------------------------- MODULE ProcessProofs ----------------------------
(***************************************************************************)
(* Proofs about Process, for every number of monitors, workers and         *)
(* connections.  A step of the process is a step of the scheduler, or      *)
(* Hang, or leaves the scheduler alone: what SchedulerProofs knows of the  *)
(* engine's end holds in the process as well.                              *)
(***************************************************************************)
EXTENDS Process, SchedulerProofs

LEMMA SchedulerSteps ==
    ASSUME [ProcNext]_procVars
    PROVE  [Next]_vars \/ Hang
BY DEF ProcNext, procVars, Signal, MainStep, LoadConfig, NewPool, ServerError, Shutdown,
       ShutdownDone, ShutdownTimesOut, SchedulerDrained, DrainTimesOut, CloseDone,
       ListenFails, Accept, Query, QueryDone, Finish, Request, RunStep, WorkerStep,
       ConsumerStep, Next

-----------------------------------------------------------------------------
(* The engine.  A consumer that hangs has not left, so Run has not         *)
(* returned; main closes the database after it has, unless it gives up.    *)

HangInv == hung => consumer = "record"

CloseInv == ClosedInOrder => sched = "stopped"

ShutInv == QuietInv /\ P!HandsEmpty /\ HangInv /\ CloseInv

LEMMA ShutInit == ProcInit => ShutInv
BY QuietInit, SameSteps, P!HandsInit, PoolAssumed
   DEF ProcInit, Init, ShutInv, HangInv, CloseInv, ClosedInOrder

\* Hang records the check as Record does, and changes nothing else of the engine.
LEMMA HangQuiet == QuietInv /\ Hang => QuietInv'
<1> SUFFICES ASSUME QuietInv, Hang PROVE QuietInv'
  OBVIOUS
<1>1. /\ UNCHANGED <<poolVars, clockVars, active, sched, roundVars, consumerVars>>
      /\ consumer = "record"
      /\ persisted' = persisted \/ persisted' = persisted \cup {held}
  BY DEF Hang
<1>2. P!PlacesInv' /\ P!ControlInv'
  <2>1. UNCHANGED P!vars
    BY <1>1 DEF poolVars, P!vars, P!channels, P!workers, P!history
  <2>2. P!PlacesInv /\ P!ControlInv
    BY DEF QuietInv, EngineInv
  <2>3. QED
    BY <2>1, <2>2, PoolAssumed, P!PlacesStep, P!ControlStep
<1>3. OwnTypes' /\ HeldInv'
  <2>1. UNCHANGED Pool!Check
    BY DEF Pool!Check, Pool!Status
  <2>2. held \in Pool!Check /\ persisted \subseteq Pool!Check
    BY <1>1 DEF QuietInv, EngineInv, OwnTypes, HeldInv
  <2>3. OwnTypes'
    BY <1>1, <2>1, <2>2
       DEF QuietInv, EngineInv, OwnTypes, clockVars, roundVars, consumerVars
  <2>4. HeldInv'
    BY <1>1, <2>1 DEF QuietInv, EngineInv, HeldInv, consumerVars
  <2>5. QED
    BY <2>3, <2>4
<1>4. QED
  BY <1>1, <1>2, <1>3 DEF QuietInv, EngineInv, poolVars, consumerVars

\* Run does not begin anew.
LEMMA StoppedForGood ==
    ASSUME sched = "stopped", [Next]_vars \/ Hang
    PROVE  sched' = "stopped"
BY DEF Hang, Next, Run, Consumer, vars, Cancel, Fire, SetActive, RunDueChecks,
       RunDueChecksFails, SubmitNext, GiveUp, Advance, RoundDone, BeginDrain,
       FinishDrain, Stop, Worker, ConsumerReceive, Record, RecordFails, RecordDone,
       ConsumerExit

LEMMA ShutStep == ShutInv /\ [ProcNext]_procVars => ShutInv'
<1> SUFFICES ASSUME ShutInv, [ProcNext]_procVars PROVE ShutInv'
  OBVIOUS
<1>1. QuietInv'
  BY SchedulerSteps, QuietStep, HangQuiet DEF ShutInv
<1>2. HangInv'
  <2>1. CASE UNCHANGED <<hung, consumer>>
    BY <2>1 DEF ShutInv, HangInv
  <2>2. CASE Hang
    BY <2>2 DEF Hang, HangInv, consumerVars
  <2>3. CASE ConsumerStep
    BY <2>3 DEF ConsumerStep, mainVars, HangInv
  <2>4. CASE Signal \/ RunStep \/ \E w \in Workers : WorkerStep(w)
    <3>1. UNCHANGED <<mainVars, consumerVars>>
      BY <2>4
         DEF Signal, RunStep, WorkerStep, Cancel, Fire, Run, RunDueChecks,
             RunDueChecksFails, SubmitNext, GiveUp, Advance, RoundDone, BeginDrain,
             FinishDrain, Stop, Worker
    <3>2. QED
      BY <2>1, <3>1 DEF mainVars, consumerVars
  <2>5. CASE MainStep \/ ListenFails
             \/ \E c \in Conns : Accept(c) \/ Query(c) \/ QueryDone(c) \/ Finish(c)
    <3>1. UNCHANGED <<vars, hung>>
      BY <2>5
         DEF MainStep, LoadConfig, NewPool, Exit, ServerError, Shutdown, ShutdownDone,
             ShutdownTimesOut, SchedulerDrained, DrainTimesOut, CloseDone, ListenFails,
             Accept, Query, QueryDone, Finish, Request
    <3>2. QED
      BY <2>1, <3>1 DEF vars, consumerVars
  <2>6. CASE UNCHANGED procVars
    BY <2>1, <2>6 DEF procVars, vars, consumerVars, mainVars
  <2>7. QED
    BY <2>2, <2>3, <2>4, <2>5, <2>6 DEF ProcNext
<1>3. CloseInv'
  <2>1. ClosedInOrder' => ClosedInOrder \/ (main = "await" /\ sched = "stopped")
    BY DEF ClosedInOrder, ProcNext, procVars, mainVars, Signal, MainStep, LoadConfig,
           NewPool, Exit, ServerError, Shutdown, ShutdownDone, ShutdownTimesOut,
           SchedulerDrained, DrainTimesOut, CloseDone, ListenFails, Accept, Query,
           QueryDone, Finish, Request, RunStep, WorkerStep, ConsumerStep, Hang
  <2>2. QED
    BY <2>1, SchedulerSteps, StoppedForGood DEF ShutInv, CloseInv
<1>4. P!HandsEmpty'
  <2>1. P!TypeInv /\ P!HandsEmpty
    BY DEF ShutInv, QuietInv, EngineInv, P!PlacesInv
  <2>2. [P!Next]_(P!vars)
    <3>1. Hang => UNCHANGED P!vars
      BY DEF Hang, poolVars, P!vars, P!channels, P!workers, P!history
    <3>2. QED
      BY <3>1, SchedulerSteps, PoolStep DEF ShutInv, QuietInv
  <2>3. QED
    BY <2>1, <2>2, P!HandsStep, PoolAssumed
<1>5. QED
  BY <1>1, <1>2, <1>3, <1>4 DEF ShutInv

LEMMA ShutKeeps == ShutInv => EngineKeepsItsDatabase
<1> SUFFICES ASSUME ShutInv, ClosedInOrder
             PROVE  /\ sched = "stopped" /\ consumer = "exited" /\ ~hung
                    /\ results = <<>> /\ \A w \in Workers : task[w] = NoJob
  BY DEF EngineKeepsItsDatabase
<1>1. sched = "stopped" /\ consumer = "exited" /\ results = <<>> /\ resultsClosed
  BY DEF ShutInv, CloseInv, QuietInv
<1>2. ~hung
  BY <1>1 DEF ShutInv, HangInv
<1>3. \A w \in Workers : pc[w] = "exited"
  BY <1>1 DEF ShutInv, QuietInv, P!ControlInv, P!ClosedIsQuiet, P!AllExited
<1>4. \A w \in Workers : task[w] = NoJob
  BY <1>3 DEF ShutInv, P!HandsEmpty
<1>5. QED
  BY <1>1, <1>2, <1>4

\* Unless a limit ran out, main closes the database when the engine is at rest: Run
\* has returned, its consumer and workers have left, and nothing is in a channel.
THEOREM EngineDrainsFirst == ProcSpec => []EngineKeepsItsDatabase
BY ShutInit, ShutStep, ShutKeeps, PTL DEF ProcSpec

-----------------------------------------------------------------------------
(* The history.  A hanging consumer has stored what it holds and stays     *)
(* where it is, so what StoredInv says of it holds only until it hangs.    *)

StoredUnlessHung ==
    /\ persisted \subseteq delivered
    /\ consumer = "record" => held \in delivered
    /\ consumer = "record" /\ ~hung => held \notin persisted

ProcHistoryInv == ShutInv /\ PlanInv /\ StoredUnlessHung

LEMMA ProcHistoryInit == ProcInit => ProcHistoryInv /\ History!Init
BY ShutInit, HistoryInit
   DEF ProcInit, ProcHistoryInv, StoredUnlessHung, HistoryInv, StoredInv

\* Hang leaves the rounds and the channels alone, and stores as Record does.
LEMMA HangPlan ==
    ASSUME PlanInv, EngineInv', Hang
    PROVE  PlanInv'
<1>1. /\ UNCHANGED <<poolVars, clockVars, active, sched, roundVars, consumerVars>>
      /\ consumer = "record"
      /\ persisted' = persisted \/ (~cancelled /\ persisted' = persisted \cup {held})
  BY DEF Hang
<1>2. \A j \in CheckJob : Pool!Accepted(j)' <=> Pool!Accepted(j)
  BY <1>1 DEF poolVars, Pool!Accepted, Pool!Queued, Pool!HeldBy, Pool!Reported,
              Pool!Delivered, Pool!Lost
<1>3. RoundInv'
  BY <1>1, <1>2 DEF PlanInv, RoundInv, JobsBehind, PendingDue, SpacingByTick,
                    NextRunBacked, roundVars, poolVars
<1>4. CleanInv'
  BY <1>1 DEF PlanInv, CleanInv, NoneSent, NoneReported, NoneHeld,
              NoArtefactPersisted, poolVars, consumerVars
<1>5. DrainingInv'
  BY <1>1 DEF PlanInv, DrainingInv, poolVars
<1>6. QED
  BY <1>3, <1>4, <1>5 DEF PlanInv

\* What Hang stores is the row of a slot that had none.
LEMMA HangStores ==
    ASSUME PlanInv, StoredUnlessHung, Hang
    PROVE  [History!Next]_(History!vars)
<1>1. /\ UNCHANGED <<poolVars, sched, consumerVars>> /\ consumer = "record" /\ ~hung
      /\ persisted' = persisted \/ (~cancelled /\ persisted' = persisted \cup {held})
  BY DEF Hang
<1>2. Scheduled' = Scheduled
  BY <1>1 DEF Scheduled, poolVars
<1>3. CASE persisted' = persisted
  BY <1>1, <1>2, <1>3 DEF History!vars, poolVars
<1>4. CASE ~cancelled /\ persisted' = persisted \cup {held}
  <2>1. /\ held \in Pool!Check /\ held \in delivered /\ held \notin persisted
        /\ persisted \subseteq delivered
    BY <1>1 DEF PlanInv, RoundInv, EngineInv, HeldInv, StoredUnlessHung
  <2>2. /\ held = [job |-> held.job, status |-> held.status]
        /\ held.status \in Genuine
    BY <1>1, <1>4, <2>1
       DEF Pool!Check, Pool!Status, PlanInv, CleanInv, NoneHeld
  <2>3. held.job \in Scheduled
    BY <2>1 DEF Scheduled
  <2>4. \A c \in persisted : c.job # held.job
    BY <2>1 DEF PlanInv, RoundInv, EngineInv, P!PlacesInv, P!SinglePlace,
                P!HistoryDistinct
  <2>5. History!Store(held.job, held.status)
    BY <1>1, <1>2, <1>4, <2>2, <2>3, <2>4 DEF History!Store, poolVars
  <2>6. QED
    BY <2>2, <2>3, <2>5 DEF History!Next
<1>5. QED
  BY <1>1, <1>3, <1>4

\* The consumer moves only in ConsumerStep, and only while it does not hang.
LEMMA ConsumerAlone ==
    ASSUME [ProcNext]_procVars
    PROVE  \/ ConsumerStep
           \/ Hang
           \/ UNCHANGED <<persisted, consumer, held, hung>>
BY DEF ProcNext, procVars, mainVars, Signal, MainStep, LoadConfig, NewPool, Exit,
       ServerError, Shutdown, ShutdownDone, ShutdownTimesOut, SchedulerDrained,
       DrainTimesOut, CloseDone, ListenFails, Accept, Query, QueryDone, Finish, Request,
       RunStep, WorkerStep, vars, dbVars, consumerVars, Cancel, Fire, Run, RunDueChecks,
       RunDueChecksFails, SubmitNext, GiveUp, Advance, RoundDone, BeginDrain,
       FinishDrain, Stop, Worker

LEMMA ProcHistoryStep ==
    ASSUME ProcHistoryInv, [ProcNext]_procVars
    PROVE  ProcHistoryInv' /\ [History!Next]_(History!vars)
<1>1. ShutInv'
  BY ShutStep DEF ProcHistoryInv
<1>2. EngineInv /\ EngineInv'
  BY <1>1 DEF ProcHistoryInv, ShutInv, QuietInv
<1>3. CASE Hang
  <2>1. PlanInv' /\ [History!Next]_(History!vars)
    BY <1>2, <1>3, HangPlan, HangStores DEF ProcHistoryInv
  <2>2. StoredUnlessHung'
    BY <1>3 DEF Hang, poolVars, consumerVars, ProcHistoryInv, StoredUnlessHung
  <2>3. QED
    BY <1>1, <2>1, <2>2 DEF ProcHistoryInv
<1>4. CASE ConsumerStep
  <2>1. [Next]_vars /\ ~hung /\ hung' = hung
    BY <1>4 DEF ConsumerStep, Next, mainVars
  <2>2. StoredInv
    BY <2>1 DEF ProcHistoryInv, StoredUnlessHung, StoredInv
  <2>3. PlanInv' /\ StoredInv' /\ [History!Next]_(History!vars)
    BY <1>2, <2>1, <2>2, PlanStep, StoredStep, HistoryStep DEF ProcHistoryInv
  <2>4. QED
    BY <1>1, <2>3 DEF ProcHistoryInv, StoredInv, StoredUnlessHung
<1>5. CASE ~Hang /\ UNCHANGED <<persisted, consumer, held, hung>>
  <2>1. [Next]_vars
    BY <1>5, SchedulerSteps
  <2>2. ~Record /\ ~ConsumerReceive
    BY <1>5 DEF Record, RecordDone, ConsumerReceive
  <2>3. PlanInv' /\ [History!Next]_(History!vars)
    BY <2>1, <2>2, PlanStep, HistoryStep DEF ProcHistoryInv
  <2>4. StoredUnlessHung'
    BY <1>5, <2>1, <2>2, DeliveredGrows DEF ProcHistoryInv, StoredUnlessHung
  <2>5. QED
    BY <1>1, <2>3, <2>4 DEF ProcHistoryInv
<1>6. QED
  BY <1>3, <1>4, <1>5, ConsumerAlone

\* In the process, too, the checks table is a history of the slots: failing starts,
\* a database closed under the engine and a notification that hangs make no check
\* appear twice, out of turn, with a verdict of the shutdown's, or after the signal.
THEOREM ProcessKeepsHistory == ProcSpec => ImplementsHistory
<1>1. ProcHistoryInv /\ [ProcNext]_procVars =>
         ProcHistoryInv' /\ [History!Next]_(History!vars)
  BY ProcHistoryStep
<1>2. QED
  BY <1>1, ProcHistoryInit, PTL DEF ProcSpec, ImplementsHistory, History!Spec

\* What SchedulerProofs shows of the engine alone is true of it in the process: its
\* checks are spaced, no slot is wasted and a shutdown leaves no aborted check.
THEOREM EngineInProcess ==
    ProcSpec => [](SpacingByTick /\ NextRunBacked /\ NoArtefactPersisted)
<1>1. ProcHistoryInv => SpacingByTick /\ NextRunBacked /\ NoArtefactPersisted
  BY DEF ProcHistoryInv, PlanInv, RoundInv, CleanInv
<1>2. ProcHistoryInv /\ [ProcNext]_procVars => ProcHistoryInv'
  BY ProcHistoryStep
<1>3. QED
  BY <1>1, <1>2, ProcHistoryInit, PTL DEF ProcSpec

\* The ledger of jobs as well: neither main nor a consumer that hangs does anything to
\* the pool that WorkerPool does not allow.
THEOREM ProcessKeepsLedger == ProcSpec => ImplementsLedger
<1>1. ProcInit => P!Init
  BY SameSteps DEF ProcInit, Init
<1>2. ShutInv /\ [ProcNext]_procVars => [P!Next]_(P!vars)
  <2>1. Hang => UNCHANGED P!vars
    BY DEF Hang, poolVars, P!vars, P!channels, P!workers, P!history
  <2>2. QED
    BY <2>1, SchedulerSteps, PoolStep DEF ShutInv, QuietInv
<1>3. ProcSpec => P!Spec
  BY <1>1, <1>2, ShutInit, ShutStep, PTL DEF ProcSpec, P!Spec
<1>4. QED
  BY <1>3, PoolAssumed, P!PoolImplementsLedger, SamePromise, PTL DEF ImplementsLedger

-----------------------------------------------------------------------------
(* The requests.  The server listens only while main waits for the end, and *)
(* the database is open until main has waited for the requests.             *)

NoRequests == \A c \in Conns : handler[c] = "none"

ServeInv ==
    /\ handler \in [Conns -> {"none", "open", "query"}]
    /\ server = "listening" => main = "serve"
    /\ main \in {"serve", "shutdown", "await"} => dbOpen
    /\ main \in {"load", "connect", "await", "close"} => forced \/ NoRequests
    /\ RequestsKeepTheirDatabase

LEMMA ServeInit == ProcInit => ServeInv
BY DEF ProcInit, ServeInv, NoRequests, RequestsKeepTheirDatabase

\* A request that is taken finds a database; one under way goes on with what it has.
LEMMA RequestServed ==
    ASSUME ServeInv, NEW c \in Conns,
           Accept(c) \/ Query(c) \/ QueryDone(c) \/ Finish(c)
    PROVE  ServeInv'
<1>1. UNCHANGED <<main, server, dbOpen, forced>>
  BY DEF Accept, Query, QueryDone, Finish, Request
<1>2. PICK s \in {"none", "open", "query"} :
        /\ handler' = [handler EXCEPT ![c] = s]
        /\ handler[c] = "none" => main = "serve" /\ dbOpen
  BY DEF Accept, Query, QueryDone, Finish, Request, ServeInv
<1>3. /\ handler' \in [Conns -> {"none", "open", "query"}]
      /\ \A d \in Conns : d # c => handler'[d] = handler[d]
  BY <1>2 DEF ServeInv
<1>4. main \in {"load", "connect", "await", "close"} => forced \/ NoRequests'
  BY <1>2, <1>3 DEF ServeInv, NoRequests
<1>5. RequestsKeepTheirDatabase'
  BY <1>1, <1>2, <1>3 DEF ServeInv, RequestsKeepTheirDatabase
<1>6. QED
  BY <1>1, <1>3, <1>4, <1>5 DEF ServeInv

LEMMA ServeStep == ServeInv /\ [ProcNext]_procVars => ServeInv'
<1> SUFFICES ASSUME ServeInv, [ProcNext]_procVars PROVE ServeInv'
  OBVIOUS
<1> USE DEF ServeInv, NoRequests, RequestsKeepTheirDatabase
<1>1. CASE LoadConfig \/ NewPool
  BY <1>1 DEF LoadConfig, NewPool, Exit
<1>2. CASE ServerError
  BY <1>2 DEF ServerError, Exit
<1>3. CASE Shutdown
  BY <1>3 DEF Shutdown
<1>4. CASE ShutdownDone \/ ShutdownTimesOut
  BY <1>4 DEF ShutdownDone, ShutdownTimesOut
<1>5. CASE SchedulerDrained \/ DrainTimesOut
  BY <1>5 DEF SchedulerDrained, DrainTimesOut
<1>6. CASE CloseDone
  BY <1>6 DEF CloseDone
<1>7. CASE ListenFails
  BY <1>7 DEF ListenFails
<1>8. ASSUME NEW c \in Conns, Accept(c) \/ Query(c) \/ QueryDone(c) \/ Finish(c)
      PROVE  ServeInv'
  BY <1>8, RequestServed
<1>9. CASE UNCHANGED <<main, server, handler, dbOpen, forced>>
  BY <1>9
<1>10. QED
  BY <1>1, <1>2, <1>3, <1>4, <1>5, <1>6, <1>7, <1>8, <1>9
     DEF ProcNext, procVars, mainVars, Signal, MainStep, RunStep, WorkerStep,
         ConsumerStep, Hang

\* A request that was taken has a database until it is answered, unless it outlived
\* the 15 seconds of srv.Shutdown, for any number of connections.
THEOREM RequestsAreServed == ProcSpec => []RequestsKeepTheirDatabase
<1>1. ServeInv => RequestsKeepTheirDatabase
  BY DEF ServeInv
<1>2. QED
  BY <1>1, ServeInit, ServeStep, PTL DEF ProcSpec
=============================================================================
