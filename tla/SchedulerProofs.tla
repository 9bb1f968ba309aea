--------------------------- MODULE SchedulerProofs ---------------------------
(***************************************************************************)
(* Proofs about Scheduler, for every number of monitors, workers and ticks *)
(* and all intervals.                                                      *)
(*                                                                         *)
(* What the pool does inside the scheduler has been proved of the pool     *)
(* alone.  P is the pool with its theorems; the first section shows that   *)
(* it is the instance Pool of Scheduler, and that each step of Scheduler   *)
(* is one of the pool, or none.                                            *)
(***************************************************************************)
EXTENDS Scheduler, TLAPS

P == INSTANCE WorkerPoolRefinement WITH Job <- CheckJob

\* The assumptions of WorkerPool hold for these jobs.
LEMMA PoolAssumed ==
    /\ P!IsFiniteSet(Workers)
    /\ BufferPerWorker \in Nat \ {0}
    /\ NoJob \notin CheckJob
    /\ Genuine # {} /\ "aborted" \notin Genuine
<1>1. IsFiniteSet(Workers) => P!IsFiniteSet(Workers)
  BY DEF IsFiniteSet, P!IsFiniteSet
<1>2. QED
  BY <1>1, SchedulerPoolAssumption

LEMMA SameData ==
    /\ Pool!Check = P!Check /\ Pool!Status = P!Status
    /\ \A j : Pool!Accepted(j) <=> P!Accepted(j)
    /\ Pool!AllExited <=> P!AllExited
BY DEF Pool!Check, P!Check, Pool!Status, P!Status, Pool!AllExited, P!AllExited,
       Pool!Accepted, P!Accepted, Pool!Queued, P!Queued, Pool!HeldBy, P!HeldBy,
       Pool!Reported, P!Reported, Pool!Delivered, P!Delivered, Pool!Lost, P!Lost

LEMMA SameAcceptedNext == \A j : Pool!Accepted(j)' <=> P!Accepted(j)'
BY DEF Pool!Accepted, P!Accepted, Pool!Queued, P!Queued, Pool!HeldBy, P!HeldBy,
       Pool!Reported, P!Reported, Pool!Delivered, P!Delivered, Pool!Lost, P!Lost

LEMMA SameCapacity == Pool!Capacity = P!Capacity
<1>1. Pool!Cardinality(Workers) = P!Cardinality(Workers)
  BY DEF Pool!Cardinality, P!Cardinality
<1>2. QED
  BY <1>1 DEF Pool!Capacity, P!Capacity

LEMMA SameTypes == Pool!TypeOK <=> P!TypeOK
BY SameCapacity, SameData DEF Pool!TypeOK, P!TypeOK

LEMMA SameSteps ==
    /\ Pool!Init <=> P!Init
    /\ Pool!Cancel <=> P!Cancel
    /\ \A j : Pool!Submit(j) <=> P!Submit(j)
    /\ \A w : Pool!Worker(w) <=> P!Worker(w)
    /\ Pool!Receive <=> P!Receive
    /\ Pool!CloseJobs <=> P!CloseJobs
    /\ Pool!CloseResults <=> P!CloseResults
<1> USE DEF Pool!channels, P!channels, Pool!workers, P!workers, Pool!history, P!history
<1>1. Pool!Init <=> P!Init
  BY DEF Pool!Init, P!Init
<1>2. Pool!Cancel <=> P!Cancel
  BY DEF Pool!Cancel, P!Cancel
<1>3. \A j : Pool!Submit(j) <=> P!Submit(j)
  BY SameCapacity, SameData DEF Pool!Submit, P!Submit
<1>4. ASSUME NEW w PROVE Pool!Worker(w) <=> P!Worker(w)
  <2>1. /\ Pool!TakeJob(w) <=> P!TakeJob(w)
        /\ Pool!TakeJobLate(w) <=> P!TakeJobLate(w)
        /\ Pool!ExitOnClose(w) <=> P!ExitOnClose(w)
    BY DEF Pool!TakeJob, P!TakeJob, Pool!TakeJobLate, P!TakeJobLate,
           Pool!ExitOnClose, P!ExitOnClose
  <2>2. Pool!FinishCheck(w) <=> P!FinishCheck(w)
    BY SameData DEF Pool!FinishCheck, P!FinishCheck
  <2>3. Pool!SendResult(w) <=> P!SendResult(w)
    BY SameCapacity DEF Pool!SendResult, P!SendResult, Pool!CheckOf, P!CheckOf
  <2>4. Pool!DropResult(w) <=> P!DropResult(w)
    BY DEF Pool!DropResult, P!DropResult, Pool!CheckOf, P!CheckOf
  <2>5. QED
    BY <2>1, <2>2, <2>3, <2>4 DEF Pool!Worker, P!Worker
<1>5. Pool!Receive <=> P!Receive
  BY DEF Pool!Receive, P!Receive
<1>6. (Pool!CloseJobs <=> P!CloseJobs) /\ (Pool!CloseResults <=> P!CloseResults)
  BY SameData DEF Pool!CloseJobs, P!CloseJobs, Pool!CloseResults, P!CloseResults
<1>7. QED
  BY <1>1, <1>2, <1>3, <1>4, <1>5, <1>6

\* The steps of Scheduler, by what the pool sees of them.
LEMMA PoolSees ==
    ASSUME [Next]_vars
    PROVE  \/ UNCHANGED poolVars
           \/ P!Cancel
           \/ \E m \in Monitors : SubmitNext(m) /\ P!Submit(JobFor(m))
           \/ \E w \in Workers : P!Worker(w)
           \/ P!Receive
           \/ P!CloseJobs \/ P!CloseResults
<1>1. CASE UNCHANGED vars
  BY <1>1 DEF vars
<1>2. CASE Cancel
  BY <1>2, SameSteps DEF Cancel
<1>3. CASE Fire \/ \E m \in Monitors : SetActive(m)
  BY <1>3 DEF Fire, SetActive
<1>4. CASE Run
  BY <1>4, SameSteps
     DEF Run, RunDueChecks, RunDueChecksFails, SubmitNext, GiveUp, RoundDone,
         BeginDrain, FinishDrain, Stop
<1>5. CASE \E w \in Workers : Worker(w)
  BY <1>5, SameSteps DEF Worker
<1>6. CASE Consumer
  BY <1>6, SameSteps
     DEF Consumer, ConsumerReceive, Record, RecordFails, RecordDone, ConsumerExit
<1>7. QED
  BY <1>1, <1>2, <1>3, <1>4, <1>5, <1>6 DEF Next

-----------------------------------------------------------------------------
(* Types.  The pool brings its own invariant; the consumer holds a check   *)
(* exactly while it records.                                               *)

OwnTypes ==
    /\ time \in Time /\ ticker \in Time \cup {NoTick} /\ now \in Time
    /\ active \subseteq Monitors /\ pending \subseteq Monitors
    /\ persisted \subseteq Pool!Check
    /\ sched \in {"select", "submit", "draining", "awaitConsumer", "stopped"}
    /\ nextRun \in [Monitors -> Nat]
    /\ consumer \in {"range", "record", "exited"}

HeldInv == IF consumer = "record" THEN held \in Pool!Check ELSE held = NoCheck

EngineInv == P!PlacesInv /\ OwnTypes /\ HeldInv

LEMMA EngineTypes == EngineInv => TypeOK
BY SameTypes DEF EngineInv, P!PlacesInv, P!TypeInv, OwnTypes, HeldInv, TypeOK

LEMMA JobForType == OwnTypes => \A m \in Monitors : JobFor(m) \in CheckJob
BY DEF OwnTypes, JobFor, CheckJob

LEMMA HeadOfResults ==
    ASSUME P!PlacesInv, results # <<>>
    PROVE  Head(results) \in Pool!Check
BY SameData DEF P!PlacesInv, P!TypeInv, P!TypeOK

LEMMA PoolStep == EngineInv /\ [Next]_vars => [P!Next]_(P!vars) /\ P!PlacesInv'
<1> SUFFICES ASSUME EngineInv, [Next]_vars PROVE [P!Next]_(P!vars) /\ P!PlacesInv'
  OBVIOUS
<1>1. \A m \in Monitors : JobFor(m) \in CheckJob
  BY JobForType DEF EngineInv
<1>2. UNCHANGED poolVars => UNCHANGED P!vars
  BY DEF poolVars, P!vars, P!channels, P!workers, P!history
<1>3. [P!Next]_(P!vars)
  BY <1>1, <1>2, PoolSees DEF P!Next
<1>4. QED
  BY <1>3, PoolAssumed, P!PlacesStep DEF EngineInv

LEMMA EngineInit == Init => EngineInv
<1> SUFFICES ASSUME Init PROVE EngineInv
  OBVIOUS
<1>1. P!PlacesInv
  BY PoolAssumed, SameSteps, P!PlacesInit DEF Init
<1>2. 1 \in Time
  BY SchedulerAssumption DEF Time
<1>3. QED
  BY <1>1, <1>2 DEF Init, EngineInv, OwnTypes, HeldInv

LEMMA EngineStep == EngineInv /\ [Next]_vars => EngineInv'
<1> SUFFICES ASSUME EngineInv, [Next]_vars PROVE OwnTypes' /\ HeldInv'
  BY PoolStep DEF EngineInv
<1> USE DEF EngineInv, OwnTypes, HeldInv
<1>c. UNCHANGED Pool!Check
  BY DEF Pool!Check, Pool!Status
<1>1. CASE UNCHANGED vars
  BY <1>1, <1>c DEF vars, clockVars, dbVars, roundVars, consumerVars
<1>2. CASE Cancel \/ \E w \in Workers : Worker(w)
  BY <1>2, <1>c DEF Cancel, Worker, clockVars, dbVars, roundVars, consumerVars
<1>3. CASE Fire
  <2>1. time' \in Time /\ ticker' \in Time \cup {NoTick}
    BY <1>3, SchedulerAssumption DEF Fire, Time
  <2>2. QED
    BY <1>3, <1>c, <2>1 DEF Fire, dbVars, roundVars, consumerVars
<1>4. ASSUME NEW m \in Monitors, SetActive(m) PROVE OwnTypes' /\ HeldInv'
  BY <1>4, <1>c DEF SetActive, clockVars, roundVars, consumerVars
<1>5. CASE RunDueChecks
  BY <1>5, <1>c DEF RunDueChecks, dbVars, consumerVars
<1>6. CASE RunDueChecksFails
  BY <1>6, <1>c DEF RunDueChecksFails, dbVars, roundVars, consumerVars
<1>7. ASSUME NEW m \in Monitors, SubmitNext(m) \/ GiveUp(m)
      PROVE  OwnTypes' /\ HeldInv'
  <2>1. Advance(m)
    BY <1>7 DEF SubmitNext, GiveUp
  <2>2. now + Interval[m] \in Nat
    BY SchedulerAssumption DEF Time
  <2>3. sched' = sched
    BY <2>1 DEF Advance
  <2>4. QED
    BY <1>c, <2>1, <2>2 DEF Advance, clockVars, dbVars, consumerVars
<1>8. CASE RoundDone \/ BeginDrain \/ FinishDrain \/ Stop
  BY <1>8, <1>c
     DEF RoundDone, BeginDrain, FinishDrain, Stop, clockVars, dbVars, roundVars,
         consumerVars
<1>9. CASE ConsumerReceive
  <2>1. Head(results) \in Pool!Check
    BY <1>9, HeadOfResults, SameSteps DEF ConsumerReceive, P!Receive
  <2>2. QED
    BY <1>9, <1>c, <2>1 DEF ConsumerReceive, clockVars, dbVars, roundVars
<1>10. CASE Record \/ RecordFails
  BY <1>10, <1>c DEF Record, RecordFails, RecordDone, clockVars, roundVars
<1>11. CASE ConsumerExit
  BY <1>11, <1>c DEF ConsumerExit, clockVars, dbVars, roundVars
<1>12. QED
  BY <1>1, <1>2, <1>3, <1>4, <1>5, <1>6, <1>7, <1>8, <1>9, <1>10, <1>11
     DEF Next, Run, Consumer

LEMMA EngineAlways == Spec => []EngineInv
BY EngineInit, EngineStep, PTL DEF Spec

\* Every variable of the engine keeps its type and both channels their bounds, for
\* any number of monitors and workers.
THEOREM EngineTypeCorrect == Spec => []TypeOK
BY EngineAlways, EngineTypes, PTL

-----------------------------------------------------------------------------
(* Rounds.  nextRun lies an interval after every accepted job of its       *)
(* monitor, and not after the round for a monitor that is still pending.   *)

JobsBehind ==
    \A j \in CheckJob : Pool!Accepted(j) =>
        j.tick + Interval[j.monitor] <= nextRun[j.monitor]

PendingDue == \A m \in pending : nextRun[m] <= now

RoundInv == EngineInv /\ JobsBehind /\ PendingDue /\ SpacingByTick /\ NextRunBacked

LEMMA JobParts ==
    ASSUME NEW j \in CheckJob
    PROVE  /\ j.monitor \in Monitors /\ j.tick \in Nat
           /\ Interval[j.monitor] \in Nat /\ Interval[j.monitor] > 0
BY SchedulerAssumption DEF CheckJob, Time

\* The only step that accepts a job is SubmitNext, and no step forgets one.
LEMMA AcceptedKept ==
    ASSUME EngineInv, [Next]_vars,
           ~\E m \in Monitors : SubmitNext(m)
    PROVE  \A j \in CheckJob : Pool!Accepted(j)' <=> Pool!Accepted(j)
<1>1. \/ \E w \in Workers : P!Worker(w)
      \/ P!Receive \/ P!Cancel \/ P!CloseJobs \/ P!CloseResults \/ UNCHANGED P!vars
  BY PoolSees DEF poolVars, P!vars, P!channels, P!workers, P!history
<1>2. \A j \in CheckJob : P!Accepted(j)' <=> P!Accepted(j)
  BY <1>1, PoolAssumed, P!OthersAccept DEF EngineInv
<1>3. QED
  BY <1>2, SameData, SameAcceptedNext

LEMMA AcceptedNext ==
    ASSUME EngineInv, NEW m \in Monitors, SubmitNext(m)
    PROVE  /\ JobFor(m) \in CheckJob
           /\ \A j \in CheckJob : Pool!Accepted(j)' <=> Pool!Accepted(j) \/ j = JobFor(m)
<1>1. JobFor(m) \in CheckJob /\ P!Submit(JobFor(m))
  BY JobForType, SameSteps DEF SubmitNext, EngineInv
<1>2. \A j \in CheckJob : P!Accepted(j)' <=> P!Accepted(j) \/ j = JobFor(m)
  BY <1>1, PoolAssumed, P!SubmitAccepts DEF EngineInv
<1>3. QED
  BY <1>1, <1>2, SameData, SameAcceptedNext

\* Passing m moves its nextRun forward, and no other.
LEMMA Advanced ==
    ASSUME EngineInv, PendingDue, NEW m \in pending, Advance(m)
    PROVE  /\ m \in Monitors /\ nextRun'[m] = now + Interval[m]
           /\ now \in Nat /\ Interval[m] \in Nat /\ nextRun[m] \in Nat
           /\ nextRun[m] <= now
           /\ \A n \in Monitors : n # m => nextRun'[n] = nextRun[n]
           /\ PendingDue'
<1>1. m \in Monitors /\ now \in Nat /\ Interval[m] \in Nat /\ nextRun \in [Monitors -> Nat]
  BY SchedulerAssumption DEF EngineInv, OwnTypes, Time
<1>2. nextRun'[m] = now + Interval[m] /\ \A n \in Monitors : n # m => nextRun'[n] = nextRun[n]
  BY <1>1 DEF Advance
<1>3. PendingDue'
  BY <1>1, <1>2 DEF Advance, PendingDue, EngineInv, OwnTypes
<1>4. QED
  BY <1>1, <1>2, <1>3 DEF PendingDue

LEMMA RoundInit == Init => RoundInv
<1> SUFFICES ASSUME Init PROVE RoundInv
  OBVIOUS
<1>1. \A j \in CheckJob : ~Pool!Accepted(j)
  BY DEF Init, Pool!Init, Pool!Accepted, Pool!Queued, Pool!HeldBy, Pool!Reported,
         Pool!Delivered, Pool!Lost
<1>2. pending = {} /\ \A m \in Monitors : nextRun[m] = 0
  BY DEF Init
<1>3. QED
  BY <1>1, <1>2, EngineInit
     DEF RoundInv, JobsBehind, PendingDue, SpacingByTick, NextRunBacked

LEMMA RoundStep == RoundInv /\ [Next]_vars => RoundInv'
<1> SUFFICES ASSUME RoundInv, [Next]_vars
             PROVE  JobsBehind' /\ PendingDue' /\ SpacingByTick' /\ NextRunBacked'
  BY EngineStep DEF RoundInv
<1>1. ASSUME NEW m \in Monitors, SubmitNext(m)
      PROVE  JobsBehind' /\ PendingDue' /\ SpacingByTick' /\ NextRunBacked'
  <2> DEFINE new == JobFor(m)
  <2>1. /\ new \in CheckJob /\ new.monitor = m /\ new.tick = now
        /\ \A j \in CheckJob : Pool!Accepted(j)' <=> Pool!Accepted(j) \/ j = new
    BY <1>1, AcceptedNext DEF RoundInv, JobFor
  <2>2. m \in pending /\ Advance(m)
    BY <1>1 DEF SubmitNext
  <2>3. /\ nextRun'[m] = now + Interval[m] /\ nextRun[m] <= now
        /\ now \in Nat /\ Interval[m] \in Nat /\ nextRun[m] \in Nat
        /\ \A n \in Monitors : n # m => nextRun'[n] = nextRun[n]
        /\ PendingDue'
    BY <2>2, Advanced DEF RoundInv
  <2>4. \A j \in CheckJob : Pool!Accepted(j) /\ j.monitor = m =>
            j.tick + Interval[m] <= now
    <3> SUFFICES ASSUME NEW j \in CheckJob, Pool!Accepted(j), j.monitor = m
                 PROVE  j.tick + Interval[m] <= now
      OBVIOUS
    <3>1. j.tick + Interval[m] <= nextRun[m] /\ j.tick \in Nat
      BY JobParts DEF RoundInv, JobsBehind
    <3>2. QED
      BY <2>3, <3>1
  <2>5. JobsBehind'
    <3> SUFFICES ASSUME NEW j \in CheckJob, Pool!Accepted(j)'
                 PROVE  j.tick + Interval[j.monitor] <= nextRun'[j.monitor]
      BY DEF JobsBehind
    <3>1. CASE j = new
      BY <2>1, <2>3, <3>1
    <3>2. CASE j # new /\ j.monitor = m
      BY <2>1, <2>3, <2>4, <3>2, JobParts
    <3>3. CASE j # new /\ j.monitor # m
      BY <2>1, <2>3, <3>3, JobParts DEF RoundInv, JobsBehind
    <3>4. QED
      BY <3>1, <3>2, <3>3
  <2>6. SpacingByTick'
    <3> SUFFICES ASSUME NEW j \in CheckJob, NEW k \in CheckJob,
                        Pool!Accepted(j)', Pool!Accepted(k)',
                        j.monitor = k.monitor, j.tick < k.tick
                 PROVE  k.tick >= j.tick + Interval[j.monitor]
      BY DEF SpacingByTick
    <3>1. CASE k = new
      BY <2>1, <2>3, <2>4, <3>1, JobParts
    <3>2. CASE k # new /\ j = new
      BY <2>1, <2>3, <2>4, <3>2, JobParts
    <3>3. CASE k # new /\ j # new
      BY <2>1, <3>3 DEF RoundInv, SpacingByTick
    <3>4. QED
      BY <3>1, <3>2, <3>3
  <2>7. NextRunBacked'
    <3> SUFFICES ASSUME ~cancelled', NEW n \in Monitors, nextRun'[n] # 0
                 PROVE  \E j \in CheckJob :
                          /\ j.monitor = n /\ j.tick + Interval[n] = nextRun'[n]
                          /\ Pool!Accepted(j)'
      BY DEF NextRunBacked
    <3>1. CASE n = m
      BY <2>1, <2>3, <3>1
    <3>2. CASE n # m
      <4>1. ~cancelled
        BY <1>1 DEF SubmitNext, Pool!Submit
      <4>2. QED
        BY <2>1, <2>3, <3>2, <4>1 DEF RoundInv, NextRunBacked
    <3>3. QED
      BY <3>1, <3>2
  <2>8. QED
    BY <2>3, <2>5, <2>6, <2>7
<1>2. CASE ~\E m \in Monitors : SubmitNext(m)
  <2>1. \A j \in CheckJob : Pool!Accepted(j)' <=> Pool!Accepted(j)
    BY <1>2, AcceptedKept DEF RoundInv
  <2>2. SpacingByTick'
    BY <2>1 DEF RoundInv, SpacingByTick
  <2>3. ASSUME NEW m \in Monitors, GiveUp(m)
        PROVE  JobsBehind' /\ PendingDue' /\ NextRunBacked'
    <3>1. m \in pending /\ Advance(m) /\ cancelled /\ cancelled' = cancelled
      BY <2>3 DEF GiveUp, poolVars
    <3>2. /\ nextRun'[m] = now + Interval[m] /\ nextRun[m] <= now
          /\ now \in Nat /\ Interval[m] \in Nat /\ nextRun[m] \in Nat
          /\ \A n \in Monitors : n # m => nextRun'[n] = nextRun[n]
          /\ PendingDue'
      BY <3>1, Advanced DEF RoundInv
    <3>3. JobsBehind'
      <4> SUFFICES ASSUME NEW j \in CheckJob, Pool!Accepted(j)
                   PROVE  j.tick + Interval[j.monitor] <= nextRun'[j.monitor]
        BY <2>1 DEF JobsBehind
      <4>1. /\ j.tick + Interval[j.monitor] <= nextRun[j.monitor]
            /\ j.monitor \in Monitors /\ j.tick \in Nat /\ Interval[j.monitor] \in Nat
        BY JobParts DEF RoundInv, JobsBehind
      <4>2. CASE j.monitor = m
        BY <3>2, <4>1, <4>2
      <4>3. CASE j.monitor # m
        BY <3>2, <4>1, <4>3
      <4>4. QED
        BY <4>2, <4>3
    <3>4. QED
      BY <3>1, <3>2, <3>3 DEF NextRunBacked
  <2>4. CASE RunDueChecks
    <3>1. PendingDue'
      BY <2>4 DEF RunDueChecks, PendingDue, isDue
    <3>2. nextRun' = nextRun /\ cancelled' = cancelled
      BY <2>4 DEF RunDueChecks, poolVars
    <3>3. QED
      BY <2>1, <2>2, <3>1, <3>2 DEF RoundInv, JobsBehind, NextRunBacked
  <2>5. CASE UNCHANGED <<nextRun, pending, now>> /\ (cancelled => cancelled')
    BY <2>1, <2>2, <2>5 DEF RoundInv, JobsBehind, NextRunBacked, PendingDue
  <2>6. ASSUME NEW w \in Workers, Worker(w) PROVE cancelled' = cancelled
    BY <2>6 DEF Worker, Pool!Worker, Pool!TakeJob, Pool!TakeJobLate, Pool!FinishCheck,
                Pool!SendResult, Pool!DropResult, Pool!ExitOnClose
  <2>7. QED
    BY <1>2, <2>2, <2>3, <2>4, <2>5, <2>6
       DEF Next, Run, Consumer, vars, roundVars, poolVars, Cancel, Fire, SetActive,
           RunDueChecksFails, RoundDone, BeginDrain, FinishDrain, Stop, Worker,
           ConsumerReceive, Record, RecordFails, RecordDone, ConsumerExit,
           Pool!Cancel, Pool!CloseJobs, Pool!CloseResults, Pool!Receive
<1>3. QED
  BY <1>1, <1>2

LEMMA RoundAlways == Spec => []RoundInv
BY RoundInit, RoundStep, PTL DEF Spec

\* Two checks of a monitor are at least its interval apart, whatever blocks or is
\* late, for any number of monitors and workers and all intervals.
THEOREM ChecksAreSpaced == Spec => []SpacingByTick
<1>1. RoundInv => SpacingByTick
  BY DEF RoundInv
<1>2. QED
  BY <1>1, RoundAlways, PTL

\* No slot of nextRun is consumed without a job of its own, unless ctx is done.
THEOREM NoSlotWasted == Spec => []NextRunBacked
<1>1. RoundInv => NextRunBacked
  BY DEF RoundInv
<1>2. QED
  BY <1>1, RoundAlways, PTL

-----------------------------------------------------------------------------
(* Artefacts of a shutdown.  While ctx is live none is on its way to the   *)
(* recorder; once it is done nothing is recorded.                          *)

NoneSent     == \A w \in Workers : pc[w] = "send" => verdict[w] # "aborted"
NoneReported == \A i \in DOMAIN results : results[i].status # "aborted"
NoneHeld     == consumer = "record" => held.status # "aborted"

CleanInv ==
    /\ EngineInv
    /\ ~cancelled => NoneSent /\ NoneReported /\ NoneHeld
    /\ NoArtefactPersisted

LEMMA ChannelTypes ==
    ASSUME EngineInv
    PROVE  /\ results \in Seq(Pool!Check)
           /\ pc \in [Workers -> {"range", "check", "send", "exited"}]
           /\ verdict \in [Workers -> Pool!Status]
BY EngineTypes DEF TypeOK, Pool!TypeOK

LEMMA CleanInit == Init => CleanInv
BY EngineInit DEF Init, Pool!Init, CleanInv, NoneSent, NoneReported, NoneHeld,
                  NoArtefactPersisted

\* A worker sends what RunCheck returned, and RunCheck aborts under ctx only.
LEMMA WorkerClean ==
    ASSUME CleanInv, NEW w \in Workers, Pool!Worker(w)
    PROVE  cancelled' = cancelled /\ (~cancelled => NoneSent' /\ NoneReported')
<1>1. /\ results \in Seq(Pool!Check)
      /\ pc \in [Workers -> {"range", "check", "send", "exited"}]
      /\ verdict \in [Workers -> Pool!Status]
  BY ChannelTypes DEF CleanInv
<1>2. "aborted" \notin Genuine
  BY SchedulerPoolAssumption
<1>3. CASE Pool!TakeJob(w) \/ Pool!TakeJobLate(w)
  BY <1>1, <1>3 DEF Pool!TakeJob, Pool!TakeJobLate, CleanInv, NoneSent, NoneReported
<1>4. CASE Pool!FinishCheck(w)
  <2>1. /\ cancelled' = cancelled /\ results' = results
        /\ pc' = [pc EXCEPT ![w] = "send"]
        /\ ~cancelled => \E s \in Genuine : verdict' = [verdict EXCEPT ![w] = s]
    BY <1>4 DEF Pool!FinishCheck, Pool!channels
  <2>2. QED
    BY <1>1, <1>2, <2>1 DEF CleanInv, NoneSent, NoneReported
<1>5. CASE Pool!SendResult(w)
  <2>1. /\ cancelled' = cancelled /\ verdict' = verdict
        /\ pc[w] = "send" /\ pc' = [pc EXCEPT ![w] = "range"]
        /\ results' = Append(results, Pool!CheckOf(w))
        /\ Pool!CheckOf(w).status = verdict[w]
    BY <1>5 DEF Pool!SendResult, Pool!CheckOf
  <2>2. /\ DOMAIN results' = DOMAIN results \cup {Len(results) + 1}
        /\ results'[Len(results) + 1] = Pool!CheckOf(w)
        /\ \A i \in DOMAIN results : results'[i] = results[i]
    <3>1. DOMAIN results = 1..Len(results) /\ Len(results) \in Nat
      BY <1>1
    <3>2. QED
      BY <1>1, <2>1, <3>1
  <2>3. QED
    BY <1>1, <2>1, <2>2 DEF CleanInv, NoneSent, NoneReported
<1>6. CASE Pool!DropResult(w) \/ Pool!ExitOnClose(w)
  BY <1>1, <1>6
     DEF Pool!DropResult, Pool!ExitOnClose, Pool!channels, CleanInv, NoneSent,
         NoneReported
<1>7. QED
  BY <1>3, <1>4, <1>5, <1>6 DEF Pool!Worker

LEMMA ReceiveClean ==
    ASSUME CleanInv, ConsumerReceive
    PROVE  cancelled' = cancelled /\ (~cancelled => NoneSent' /\ NoneReported' /\ NoneHeld')
<1>1. /\ results \in Seq(Pool!Check) /\ results # <<>> /\ results' = Tail(results)
      /\ UNCHANGED <<cancelled, pc, verdict>> /\ held' = Head(results)
  BY ChannelTypes DEF CleanInv, ConsumerReceive, Pool!Receive, Pool!workers
<1>2. /\ Len(results) \in Nat \ {0} /\ DOMAIN results = 1..Len(results)
      /\ DOMAIN results' = 1..(Len(results) - 1)
      /\ \A i \in 1..(Len(results) - 1) : results'[i] = results[i + 1]
      /\ held' = results[1]
  BY <1>1
<1>3. QED
  BY <1>1, <1>2 DEF CleanInv, NoneSent, NoneReported, NoneHeld

LEMMA CleanStep == CleanInv /\ [Next]_vars => CleanInv'
<1> SUFFICES ASSUME CleanInv, [Next]_vars
             PROVE  /\ ~cancelled' => NoneSent' /\ NoneReported' /\ NoneHeld'
                    /\ NoArtefactPersisted'
  BY EngineStep DEF CleanInv
<1> USE DEF CleanInv
<1>1. CASE Cancel
  BY <1>1 DEF Cancel, Pool!Cancel, dbVars, NoArtefactPersisted
<1>2. ASSUME NEW w \in Workers, Worker(w)
      PROVE  /\ ~cancelled' => NoneSent' /\ NoneReported' /\ NoneHeld'
             /\ NoArtefactPersisted'
  BY <1>2, WorkerClean DEF Worker, dbVars, consumerVars, NoneHeld, NoArtefactPersisted
<1>3. CASE ConsumerReceive
  BY <1>3, ReceiveClean DEF ConsumerReceive, dbVars, NoArtefactPersisted
<1>4. CASE Record \/ RecordFails
  BY <1>4 DEF Record, RecordFails, RecordDone, poolVars, NoneSent, NoneReported,
              NoneHeld, NoArtefactPersisted
<1>5. CASE UNCHANGED <<cancelled, pc, verdict, results, persisted, consumerVars>>
  BY <1>5 DEF consumerVars, NoneSent, NoneReported, NoneHeld, NoArtefactPersisted
<1>6. CASE ConsumerExit
  BY <1>6 DEF ConsumerExit, poolVars, dbVars, NoneSent, NoneReported, NoneHeld,
              NoArtefactPersisted
<1>7. QED
  BY <1>1, <1>2, <1>3, <1>4, <1>5, <1>6
     DEF Next, Run, Consumer, vars, poolVars, dbVars, Fire, SetActive, RunDueChecks,
         RunDueChecksFails, SubmitNext, GiveUp, Advance, RoundDone, BeginDrain,
         FinishDrain, Stop, Pool!Submit, Pool!workers, Pool!CloseJobs,
         Pool!CloseResults

\* No check that the shutdown cut short is ever stored, for any number of workers.
THEOREM ShutdownLeavesNoTrace == Spec => []NoArtefactPersisted
<1>1. CleanInv => NoArtefactPersisted
  BY DEF CleanInv
<1>2. QED
  BY <1>1, CleanInit, CleanStep, PTL DEF Spec

-----------------------------------------------------------------------------
(* The end.  Closing goes down the pipeline: jobs, workers, results,       *)
(* consumer, Run.                                                          *)

QuietInv ==
    /\ EngineInv /\ P!ControlInv
    /\ sched \in {"awaitConsumer", "stopped"} => resultsClosed
    /\ consumer = "exited" => resultsClosed /\ results = <<>>
    /\ sched = "stopped" => consumer = "exited"

LEMMA QuietInit == Init => QuietInv
BY EngineInit, PoolAssumed, SameSteps, P!ControlInit DEF Init, QuietInv

LEMMA QuietStep == QuietInv /\ [Next]_vars => QuietInv'
<1> SUFFICES ASSUME QuietInv, [Next]_vars PROVE QuietInv'
  OBVIOUS
<1>1. EngineInv' /\ P!ControlInv'
  BY EngineStep, PoolStep, PoolAssumed, P!ControlStep DEF QuietInv
<1>2. resultsClosed => Pool!AllExited
  BY SameData DEF QuietInv, P!ControlInv, P!ClosedIsQuiet
<1>3. resultsClosed => resultsClosed'
  BY PoolSees DEF poolVars, P!Cancel, P!Submit, P!Worker, P!TakeJob, P!TakeJobLate,
         P!FinishCheck, P!SendResult, P!DropResult, P!ExitOnClose, P!Receive,
         P!CloseJobs, P!CloseResults, P!channels
<1>4. resultsClosed /\ results = <<>> => results' = <<>>
  <2> SUFFICES ASSUME resultsClosed, results = <<>> PROVE results' = <<>>
    OBVIOUS
  <2>1. \A w \in Workers : pc[w] = "exited"
    BY <1>2 DEF Pool!AllExited
  <2>2. QED
    BY <2>1, PoolSees
       DEF poolVars, P!Cancel, P!Submit, P!Worker, P!TakeJob, P!TakeJobLate,
           P!FinishCheck, P!SendResult, P!DropResult, P!ExitOnClose, P!Receive,
           P!CloseJobs, P!CloseResults, P!channels
<1>5. /\ consumer = "exited" => consumer' = "exited"
      /\ consumer' = "exited" => consumer = "exited" \/ (resultsClosed /\ results = <<>>)
  BY DEF Next, Run, Consumer, vars, consumerVars, Cancel, Fire, SetActive,
         RunDueChecks, RunDueChecksFails, SubmitNext, GiveUp, Advance, RoundDone,
         BeginDrain, FinishDrain, Stop, Worker, ConsumerReceive, Record, RecordFails,
         RecordDone, ConsumerExit
<1>6. /\ sched' \in {"awaitConsumer", "stopped"} =>
            sched \in {"awaitConsumer", "stopped"} \/ resultsClosed'
      /\ sched' = "stopped" => sched = "stopped" \/ consumer = "exited"
  BY DEF Next, Run, Consumer, vars, Cancel, Fire, SetActive, RunDueChecks,
         RunDueChecksFails, SubmitNext, GiveUp, Advance, RoundDone, BeginDrain,
         FinishDrain, Stop, Worker, ConsumerReceive, Record, RecordFails, RecordDone,
         ConsumerExit, Pool!CloseResults
<1>7. QED
  BY <1>1, <1>3, <1>4, <1>5, <1>6 DEF QuietInv

\* When Run has returned, no goroutine of the engine is left and nothing is in its
\* channels, for any number of workers: the database pool may be closed.
THEOREM NothingOutlivesRun == Spec => []StopIsQuiescent
<1>1. QuietInv => StopIsQuiescent
  BY SameData DEF QuietInv, EngineInv, HeldInv, P!ControlInv, P!ClosedIsQuiet,
                  StopIsQuiescent
<1>2. QED
  BY <1>1, QuietInit, QuietStep, PTL DEF Spec
-----------------------------------------------------------------------------
(* The history.  What the consumer holds was delivered and is not stored   *)
(* yet, and a job is delivered once: so a slot is stored once.             *)

StoredInv ==
    /\ persisted \subseteq delivered
    /\ consumer = "record" => held \in delivered \ persisted

DrainingInv == sched \in {"draining", "awaitConsumer", "stopped"} => cancelled

PlanInv == RoundInv /\ CleanInv /\ DrainingInv

HistoryInv == PlanInv /\ StoredInv

\* Scheduled is the set of accepted jobs.
LEMMA ScheduledAccepted ==
    /\ \A j : j \in Scheduled <=> Pool!Accepted(j)
    /\ \A j : j \in Scheduled' <=> Pool!Accepted(j)'
BY DEF Scheduled, Pool!Accepted, Pool!Queued, Pool!HeldBy, Pool!Reported,
       Pool!Delivered, Pool!Lost

LEMMA ScheduledJobs == EngineInv => Scheduled \subseteq CheckJob
<1> SUFFICES ASSUME EngineInv PROVE Scheduled \subseteq CheckJob
  OBVIOUS
<1>1. Pool!TypeOK /\ P!HoldersHaveJobs
  BY EngineTypes DEF TypeOK, EngineInv, P!PlacesInv, P!TypeInv
<1>2. \A c \in Pool!Check : c.job \in CheckJob
  BY DEF Pool!Check
<1>3. /\ \A i \in DOMAIN jobs : jobs[i] \in CheckJob
      /\ \A i \in DOMAIN results : results[i] \in Pool!Check
      /\ delivered \cup lost \subseteq Pool!Check
  BY <1>1 DEF Pool!TypeOK
<1>4. \A w \in Workers : pc[w] \in {"check", "send"} => task[w] \in CheckJob
  BY <1>1 DEF P!HoldersHaveJobs
<1>5. QED
  BY <1>2, <1>3, <1>4 DEF Scheduled

LEMMA ScheduledJobsNext == EngineInv' => (Scheduled \subseteq CheckJob)'
BY ScheduledJobs, PTL

\* No step takes back what was delivered, and one adds to it.
LEMMA DeliveredGrows ==
    ASSUME [Next]_vars
    PROVE  ConsumerReceive \/ UNCHANGED delivered
BY DEF Next, Run, Consumer, vars, poolVars, Cancel, Fire, SetActive, RunDueChecks,
       RunDueChecksFails, SubmitNext, GiveUp, RoundDone, BeginDrain, FinishDrain, Stop,
       Worker, Record, RecordFails, RecordDone, ConsumerExit, Pool!Cancel, Pool!Submit,
       Pool!CloseJobs, Pool!CloseResults, Pool!Worker, Pool!TakeJob, Pool!TakeJobLate,
       Pool!FinishCheck, Pool!SendResult, Pool!DropResult, Pool!ExitOnClose,
       Pool!history

LEMMA ConsumerMoves ==
    ASSUME [Next]_vars
    PROVE  \/ ConsumerReceive \/ Record \/ RecordFails \/ ConsumerExit
           \/ UNCHANGED <<persisted, consumer, held>>
BY DEF Next, Run, Consumer, vars, dbVars, consumerVars, Cancel, Fire, SetActive,
       RunDueChecks, RunDueChecksFails, SubmitNext, GiveUp, Advance, RoundDone,
       BeginDrain, FinishDrain, Stop, Worker

\* The check the consumer receives is of a job that was not delivered before.
LEMMA NewlyDelivered ==
    ASSUME EngineInv, ConsumerReceive
    PROVE  /\ Head(results) \in Pool!Check
           /\ delivered' = delivered \cup {Head(results)}
           /\ Head(results) \notin delivered
<1>1. results # <<>> /\ delivered' = delivered \cup {Head(results)}
  BY DEF ConsumerReceive, Pool!Receive
<1>2. /\ results \in Seq(Pool!Check) /\ Head(results) \in Pool!Check
      /\ Head(results) = results[1] /\ 1 \in DOMAIN results
  BY <1>1, ChannelTypes, HeadOfResults DEF EngineInv
<1>3. Head(results).job \in CheckJob /\ P!Reported(Head(results).job)
  BY <1>2 DEF Pool!Check, P!Reported
<1>4. ~P!Delivered(Head(results).job)
  BY <1>3 DEF EngineInv, P!PlacesInv, P!SinglePlace, P!PlacesDisjoint
<1>5. QED
  BY <1>1, <1>2, <1>4 DEF P!Delivered

LEMMA StoredStep == EngineInv /\ StoredInv /\ [Next]_vars => StoredInv'
<1> SUFFICES ASSUME EngineInv, StoredInv, [Next]_vars PROVE StoredInv'
  OBVIOUS
<1>1. CASE ConsumerReceive
  BY <1>1, NewlyDelivered DEF StoredInv, ConsumerReceive, dbVars
<1>2. CASE Record \/ RecordFails
  BY <1>2 DEF Record, RecordFails, RecordDone, poolVars, StoredInv
<1>3. CASE ConsumerExit
  BY <1>3 DEF ConsumerExit, poolVars, dbVars, StoredInv
<1>4. CASE UNCHANGED <<persisted, consumer, held>>
  BY <1>4, DeliveredGrows, <1>1 DEF StoredInv
<1>5. QED
  BY <1>1, <1>2, <1>3, <1>4, ConsumerMoves

\* ctx is done once and for all, and Run leaves its loop only then.
LEMMA DrainingStep ==
    ASSUME DrainingInv, [Next]_vars
    PROVE  DrainingInv' /\ (cancelled => cancelled')
BY DEF DrainingInv, Next, Run, Consumer, vars, poolVars, Cancel, Fire, SetActive,
       RunDueChecks, RunDueChecksFails, SubmitNext, GiveUp, Advance, RoundDone,
       BeginDrain, FinishDrain, Stop, Worker, ConsumerReceive, Record, RecordFails,
       RecordDone, ConsumerExit, Pool!Cancel, Pool!Submit, Pool!Receive,
       Pool!CloseJobs, Pool!CloseResults, Pool!Worker, Pool!TakeJob, Pool!TakeJobLate,
       Pool!FinishCheck, Pool!SendResult, Pool!DropResult, Pool!ExitOnClose,
       Pool!channels

LEMMA HistoryInit == Init => HistoryInv /\ History!Init
<1> SUFFICES ASSUME Init PROVE HistoryInv /\ History!Init
  OBVIOUS
<1>1. HistoryInv
  BY RoundInit, CleanInit DEF Init, HistoryInv, PlanInv, StoredInv, DrainingInv
<1>2. Scheduled = {} /\ ~cancelled /\ persisted = {} /\ sched # "stopped"
  BY DEF Init, Pool!Init, Scheduled
<1>3. cancelled = FALSE
  BY DEF Init, Pool!Init
<1>4. QED
  BY <1>1, <1>2, <1>3 DEF History!Init

LEMMA PlanStep == PlanInv /\ [Next]_vars => PlanInv'
BY RoundStep, CleanStep, DrainingStep DEF PlanInv

LEMMA HistoryInvStep == HistoryInv /\ [Next]_vars => HistoryInv'
BY PlanStep, StoredStep DEF HistoryInv, PlanInv, RoundInv

\* Queueing a job schedules a slot that is an interval after those before it.
LEMMA SubmitSchedules ==
    ASSUME PlanInv, PlanInv', NEW m \in Monitors, SubmitNext(m)
    PROVE  \E t \in Time : History!Schedule(m, t)
<1>1. /\ JobFor(m) \in CheckJob
      /\ \A j \in CheckJob : Pool!Accepted(j)' <=> Pool!Accepted(j) \/ j = JobFor(m)
  BY AcceptedNext DEF PlanInv, RoundInv
<1>2. Scheduled \subseteq CheckJob /\ Scheduled' \subseteq CheckJob
  BY ScheduledJobs, ScheduledJobsNext DEF PlanInv, RoundInv, CheckJob
<1>3. Scheduled' = Scheduled \cup {JobFor(m)}
  BY <1>1, <1>2, ScheduledAccepted DEF CheckJob
<1>4. JobFor(m) = [monitor |-> m, tick |-> now]
  BY DEF JobFor
<1>5. /\ now \in Time /\ now \in Nat /\ nextRun \in [Monitors -> Nat]
      /\ Interval \in [Monitors -> Nat \ {0}]
  BY SchedulerAssumption DEF PlanInv, RoundInv, EngineInv, OwnTypes, Time
<1>6. ASSUME NEW s \in Scheduled, s.monitor = m PROVE s.tick + Interval[m] <= now
  <2>1. s.tick + Interval[m] <= nextRun[m] /\ s.tick \in Nat
    BY <1>2, <1>6, ScheduledAccepted, JobParts DEF PlanInv, RoundInv, JobsBehind
  <2>2. nextRun[m] <= now
    BY DEF SubmitNext, PlanInv, RoundInv, PendingDue
  <2>3. QED
    BY <1>5, <2>1, <2>2
<1>7. UNCHANGED <<persisted, cancelled, sched>> /\ sched = "submit"
  BY DEF SubmitNext, Advance, Pool!Submit, dbVars
<1>8. History!Schedule(m, now)
  BY <1>3, <1>4, <1>6, <1>7 DEF History!Schedule
<1>9. QED
  BY <1>5, <1>8

\* Recording stores a slot that has no row, with a verdict about the target.
LEMMA RecordStores ==
    ASSUME PlanInv, StoredInv, Record, Scheduled' = Scheduled
    PROVE  \E s \in Scheduled, v \in Genuine : History!Store(s, v)
<1>1. /\ consumer = "record" /\ ~cancelled /\ persisted' = persisted \cup {held}
      /\ UNCHANGED <<cancelled, sched>>
  BY DEF Record, RecordDone, poolVars
<1>2. held \in Pool!Check /\ held \in delivered /\ held \notin persisted
  BY <1>1 DEF PlanInv, RoundInv, EngineInv, HeldInv, StoredInv
<1>3. /\ held = [job |-> held.job, status |-> held.status]
      /\ held.job \in CheckJob /\ held.status \in Genuine \cup {"aborted"}
  BY <1>2 DEF Pool!Check, Pool!Status
<1>4. held.status \in Genuine
  BY <1>1, <1>3 DEF PlanInv, CleanInv, NoneHeld
<1>5. held.job \in Scheduled
  BY <1>2 DEF Scheduled
<1>6. \A c \in persisted : c.job # held.job
  BY <1>2 DEF StoredInv, PlanInv, RoundInv, EngineInv, P!PlacesInv, P!SinglePlace,
              P!HistoryDistinct
<1>7. History!Store(held.job, held.status)
  BY <1>1, <1>3, <1>5, <1>6 DEF History!Store
<1>8. QED
  BY <1>4, <1>5, <1>7

\* Every step is one of the history; only Record needs to know what is stored.
LEMMA HistoryStep ==
    ASSUME PlanInv, [Next]_vars, Record => StoredInv
    PROVE  [History!Next]_(History!vars)
<1>p. PlanInv'
  BY PlanStep
<1>1. ASSUME NEW m \in Monitors, SubmitNext(m) PROVE History!Next
  BY <1>p, <1>1, SubmitSchedules DEF History!Next
<1>2. CASE ~\E m \in Monitors : SubmitNext(m)
  <2>1. Scheduled \subseteq CheckJob /\ Scheduled' \subseteq CheckJob
    BY <1>p, ScheduledJobs, ScheduledJobsNext DEF PlanInv, RoundInv, CheckJob
  <2>2. \A j \in CheckJob : Pool!Accepted(j)' <=> Pool!Accepted(j)
    BY <1>2, AcceptedKept DEF PlanInv, RoundInv
  <2>3. Scheduled' = Scheduled
    BY <2>1, <2>2, ScheduledAccepted DEF CheckJob
  <2>4. CASE Record
    BY <2>3, <2>4, RecordStores DEF History!Next
  <2>5. CASE Cancel
    BY <2>3, <2>5 DEF Cancel, Pool!Cancel, dbVars, History!Cancel, History!Next
  <2>6. CASE Stop
    <3>1. cancelled /\ sched = "awaitConsumer"
      BY <2>6 DEF Stop, PlanInv, DrainingInv
    <3>2. History!Stop
      BY <2>3, <2>6, <3>1 DEF Stop, poolVars, dbVars, History!Stop
    <3>3. QED
      BY <3>2 DEF History!Next
  <2>7. CASE UNCHANGED <<persisted, cancelled>> /\ (sched' = "stopped" <=> sched = "stopped")
    BY <2>3, <2>7 DEF History!vars
  <2>8. QED
    BY <1>2, <2>4, <2>5, <2>6, <2>7
       DEF Next, Run, Consumer, vars, poolVars, dbVars, Fire, SetActive, RunDueChecks,
           RunDueChecksFails, GiveUp, Advance, RoundDone, BeginDrain, FinishDrain,
           Worker, ConsumerReceive, RecordFails, RecordDone, ConsumerExit,
           Pool!Receive, Pool!CloseJobs, Pool!CloseResults, Pool!Worker, Pool!TakeJob,
           Pool!TakeJobLate, Pool!FinishCheck, Pool!SendResult, Pool!DropResult,
           Pool!ExitOnClose, Pool!channels
<1>3. QED
  BY <1>1, <1>2

\* The checks table is a history of the slots, for any number of monitors and
\* workers and all intervals: one row a slot at most, slots an interval apart, no
\* verdict but of the target, and nothing after ctx is done.
THEOREM EngineKeepsHistory == Spec => ImplementsHistory
<1>1. HistoryInv /\ [Next]_vars => [History!Next]_(History!vars)
  BY HistoryStep DEF HistoryInv
<1>2. QED
  BY <1>1, HistoryInit, HistoryInvStep, PTL DEF Spec, ImplementsHistory, History!Spec

-----------------------------------------------------------------------------
(* The ledger.  The engine uses the pool as WorkerPool says that it is     *)
(* used, so what was proved of the pool alone holds of it in the engine;   *)
(* the rest shows that the ledger of P is that of Pool.                    *)

LEMMA SameStages ==
    /\ [j \in CheckJob |-> Pool!StageOf(j)] = [j \in CheckJob |-> P!StageOf(j)]
    /\ [j \in CheckJob |-> Pool!StageOf(j)]' = [j \in CheckJob |-> P!StageOf(j)]'
<1> USE DEF Pool!StageOf, P!StageOf, Pool!Queued, P!Queued, Pool!HeldBy, P!HeldBy,
            Pool!Reported, P!Reported, Pool!Delivered, P!Delivered, Pool!Lost, P!Lost
<1>1. [j \in CheckJob |-> Pool!StageOf(j)] = [j \in CheckJob |-> P!StageOf(j)]
  OBVIOUS
<1>2. [j \in CheckJob |-> Pool!StageOf(j)]' = [j \in CheckJob |-> P!StageOf(j)]'
  OBVIOUS
<1>3. QED
  BY <1>1, <1>2

LEMMA SameMoves ==
    \A j, from, to : P!Ledger!Move(j, from, to) <=> Pool!Ledger!Move(j, from, to)
BY SameStages DEF P!Ledger!Move, Pool!Ledger!Move

LEMMA SameLedgerSteps ==
    [P!Ledger!Next]_(P!Ledger!vars) => [Pool!Ledger!Next]_(Pool!Ledger!vars)
<1>1. P!Ledger!Cancel <=> Pool!Ledger!Cancel
  BY SameStages DEF P!Ledger!Cancel, Pool!Ledger!Cancel
<1>2. P!Ledger!Close <=> Pool!Ledger!Close
  BY SameStages DEF P!Ledger!Close, Pool!Ledger!Close
<1>3. ASSUME NEW j
      PROVE  /\ P!Ledger!Accept(j) <=> Pool!Ledger!Accept(j)
             /\ P!Ledger!Run(j) <=> Pool!Ledger!Run(j)
             /\ P!Ledger!Complete(j) <=> Pool!Ledger!Complete(j)
             /\ P!Ledger!Deliver(j) <=> Pool!Ledger!Deliver(j)
             /\ P!Ledger!Lose(j) <=> Pool!Ledger!Lose(j)
  BY SameMoves DEF P!Ledger!Accept, Pool!Ledger!Accept, P!Ledger!Run, Pool!Ledger!Run,
     P!Ledger!Complete, Pool!Ledger!Complete, P!Ledger!Deliver, Pool!Ledger!Deliver,
     P!Ledger!Lose, Pool!Ledger!Lose
<1>4. UNCHANGED P!Ledger!vars <=> UNCHANGED Pool!Ledger!vars
  BY SameStages DEF P!Ledger!vars, Pool!Ledger!vars
<1>5. P!Ledger!Next <=> Pool!Ledger!Next
  BY <1>1, <1>2, <1>3 DEF P!Ledger!Next, Pool!Ledger!Next
<1>6. QED
  BY <1>4, <1>5

\* Seen from the pool, every behaviour of the engine is one of the pool alone: a job
\* is submitted at most once, by an owner that has not called Shutdown.
THEOREM EngineUsesPool == Spec => P!Spec
<1>1. Init => P!Init
  BY SameSteps DEF Init
<1>2. QED
  BY <1>1, PoolStep, EngineAlways, PTL DEF Spec, P!Spec

LEMMA SamePromise == P!ImplementsLedger => Pool!ImplementsLedger
<1>1. P!Ledger!Init => Pool!Ledger!Init
  BY SameStages DEF P!Ledger!Init, Pool!Ledger!Init
<1>2. QED
  BY <1>1, SameLedgerSteps, PTL
     DEF P!ImplementsLedger, Pool!ImplementsLedger, P!Ledger!Spec, Pool!Ledger!Spec

\* The engine keeps the ledger of jobs: for any number of monitors and workers, no slot
\* is run or reported twice, nor lost before ctx was done.
THEOREM EngineKeepsLedger == Spec => ImplementsLedger
BY EngineUsesPool, PoolAssumed, P!PoolImplementsLedger, SamePromise, PTL DEF ImplementsLedger
=============================================================================
