----------------------------- MODULE Scheduler -----------------------------
(***************************************************************************)
(* scheduler.Scheduler (src/internal/scheduler/scheduler.go) at work with  *)
(* its worker pool: the Run loop that turns ticks into jobs, the consumer  *)
(* goroutine that records results, the repositories behind them, and the   *)
(* drain that follows a cancellation of the context they all share.        *)
(*                                                                         *)
(* Time is counted in ticks of the scheduler's ticker and saturates at     *)
(* MaxTime, so that the ticker never stops.  A job is identified by its    *)
(* monitor and the tick it was submitted for.  The database is external:   *)
(* a call fails whenever ctx is done (the driver checks it first), and     *)
(* otherwise only if DBMayFail.                                            *)
(***************************************************************************)
EXTENDS Naturals, Sequences, FiniteSets

CONSTANTS
    Monitors,         \* the monitors users have created
    Interval,         \* their IntervalSeconds, in ticks
    MaxTime,          \* bound on the clock
    DBMayFail,        \* whether a query may fail while ctx is live
    Workers, NoJob, BufferPerWorker, Genuine,     \* see WorkerPool
    NoTick,           \* the ticker's channel is empty
    NoCheck           \* the consumer holds no check

Time == 1..MaxTime
CheckJob == [monitor : Monitors, tick : Time]

VARIABLES
    cancelled, jobs, jobsClosed, results, resultsClosed,   \* see WorkerPool
    pc, task, verdict, delivered, lost,
    time,             \* the clock
    ticker,           \* ticker.C, a channel of one element
    active,           \* database: the monitors with active = true
    persisted,        \* database: the rows of the checks table
    sched,            \* where Run is
    now,              \* the tick runDueChecks works for
    pending,          \* the due monitors its loop has not come to yet
    nextRun,          \* s.nextRun; 0 stands for a missing entry
    consumer,         \* where the consumer goroutine is
    held              \* the check it is recording

Pool == INSTANCE WorkerPool WITH Job <- CheckJob

ASSUME SchedulerAssumption ==
    /\ IsFiniteSet(Monitors)
    /\ Interval \in [Monitors -> Nat \ {0}]
    /\ MaxTime \in Nat \ {0}
    /\ DBMayFail \in BOOLEAN
    /\ NoTick \notin Nat
    /\ NoCheck \notin Pool!Check

\* PoolAssumption of WorkerPool, for these jobs.
ASSUME SchedulerPoolAssumption ==
    /\ IsFiniteSet(Workers)
    /\ BufferPerWorker \in Nat \ {0}
    /\ NoJob \notin CheckJob
    /\ Genuine # {} /\ "aborted" \notin Genuine

poolVars     == <<cancelled, jobs, jobsClosed, results, resultsClosed,
                  pc, task, verdict, delivered, lost>>
clockVars    == <<time, ticker>>
dbVars       == <<active, persisted>>
roundVars    == <<now, pending, nextRun>>
consumerVars == <<consumer, held>>
vars == <<poolVars, clockVars, dbVars, sched, roundVars, consumerVars>>

-----------------------------------------------------------------------------
Init ==
    /\ Pool!Init
    /\ time = 1 /\ ticker = NoTick
    /\ active \in SUBSET Monitors /\ persisted = {}
    /\ sched = "select"
    /\ now = 1 /\ pending = {} /\ nextRun = [m \in Monitors |-> 0]
    /\ consumer = "range" /\ held = NoCheck

-----------------------------------------------------------------------------
(* The environment: signals, time, and the API changing monitors.          *)

Cancel ==
    /\ Pool!Cancel
    /\ UNCHANGED <<clockVars, dbVars, sched, roundVars, consumerVars>>

\* A time.Ticker drops the tick when its channel is full.
Fire ==
    /\ time' = IF time < MaxTime THEN time + 1 ELSE time
    /\ ticker' = IF ticker = NoTick THEN time ELSE ticker
    /\ time' # time \/ ticker' # ticker
    /\ UNCHANGED <<poolVars, dbVars, sched, roundVars, consumerVars>>

\* A user pauses or resumes a monitor.
SetActive(m) ==
    /\ active' \in {active \cup {m}, active \ {m}} \ {active}
    /\ UNCHANGED <<poolVars, clockVars, persisted, sched, roundVars, consumerVars>>

-----------------------------------------------------------------------------
(* The Run loop.                                                           *)

\* A fault that MonitorsGetChecked excludes: a missing entry read as "not due".
isDueOnceSeen(m, t) == nextRun[m] # 0 /\ nextRun[m] <= t

\* A fault that SpacingByTick excludes: no look at nextRun.
isDueAlways(m, t) == TRUE

isDue(m, t) == nextRun[m] <= t

\* `case now := <-ticker.C`, and ListActive succeeds.  The loop below only
\* changes the nextRun of a monitor it has passed, so what is due is known here.
RunDueChecks ==
    /\ sched = "select" /\ ticker # NoTick
    /\ ~cancelled
    /\ now' = ticker /\ ticker' = NoTick
    /\ pending' = {m \in active : isDue(m, ticker)}
    /\ sched' = "submit"
    /\ UNCHANGED <<poolVars, time, dbVars, nextRun, consumerVars>>

\* The same, and ListActive returns an error: this tick is skipped.
RunDueChecksFails ==
    /\ sched = "select" /\ ticker # NoTick
    /\ cancelled \/ DBMayFail
    /\ ticker' = NoTick
    /\ UNCHANGED <<poolVars, time, dbVars, sched, roundVars, consumerVars>>

JobFor(m) == [monitor |-> m, tick |-> now]

\* The loop body has done with m: its next run is an interval after this tick.
Advance(m) ==
    /\ nextRun' = [nextRun EXCEPT ![m] = now + Interval[m]]
    /\ pending' = pending \ {m}
    /\ UNCHANGED <<clockVars, dbVars, sched, now, consumerVars>>

\* Submit, its send case.
SubmitNext(m) ==
    /\ sched = "submit" /\ m \in pending
    /\ Pool!Submit(JobFor(m))
    /\ Advance(m)

\* Faults that NextRunBacked and ShutdownCompletes exclude: Submit with a default
\* case, and Submit without a second case.
GiveUpWhenFull(m) ==
    /\ sched = "submit" /\ m \in pending /\ Len(jobs) = Pool!Capacity
    /\ Advance(m)
    /\ UNCHANGED poolVars

GiveUpNever(m) == FALSE

\* Submit, its ctx.Done() case: the job is given up, nextRun advances anyway.
GiveUp(m) ==
    /\ sched = "submit" /\ m \in pending /\ cancelled
    /\ Advance(m)
    /\ UNCHANGED poolVars

RoundDone ==
    /\ sched = "submit" /\ pending = {}
    /\ sched' = "select"
    /\ UNCHANGED <<poolVars, clockVars, dbVars, roundVars, consumerVars>>

\* `case <-ctx.Done()`: Shutdown closes jobs ...
BeginDrain ==
    /\ sched = "select" /\ cancelled
    /\ Pool!CloseJobs
    /\ sched' = "draining"
    /\ UNCHANGED <<clockVars, dbVars, roundVars, consumerVars>>

\* ... waits for the workers and closes results ...
FinishDrain ==
    /\ sched = "draining"
    /\ Pool!CloseResults
    /\ sched' = "awaitConsumer"
    /\ UNCHANGED <<clockVars, dbVars, roundVars, consumerVars>>

\* A fault that StopIsQuiescent excludes: no <-consumerDone.
StopAtOnce ==
    /\ sched = "awaitConsumer"
    /\ sched' = "stopped"
    /\ UNCHANGED <<poolVars, clockVars, dbVars, roundVars, consumerVars>>

\* ... and `<-consumerDone`: Run returns.
Stop ==
    /\ sched = "awaitConsumer" /\ consumer = "exited"
    /\ sched' = "stopped"
    /\ UNCHANGED <<poolVars, clockVars, dbVars, roundVars, consumerVars>>

-----------------------------------------------------------------------------
(* The workers, as in WorkerPool.                                          *)

Worker(w) ==
    /\ Pool!Worker(w)
    /\ UNCHANGED <<clockVars, dbVars, sched, roundVars, consumerVars>>

-----------------------------------------------------------------------------
(* The consumer goroutine.                                                 *)

\* `for check := range s.pool.Results()`.
ConsumerReceive ==
    /\ consumer = "range"
    /\ Pool!Receive
    /\ held' = Head(results)
    /\ consumer' = "record"
    /\ UNCHANGED <<clockVars, dbVars, sched, roundVars>>

RecordDone ==
    /\ consumer' = "range" /\ held' = NoCheck
    /\ UNCHANGED <<poolVars, clockVars, active, sched, roundVars>>

\* A fault that NoArtefactPersisted excludes: recording with a context of its own.
RecordDetached ==
    /\ consumer = "record"
    /\ persisted' = persisted \cup {held}
    /\ RecordDone

\* Record(ctx, check): the row is inserted while ctx is live ...
Record ==
    /\ consumer = "record" /\ ~cancelled
    /\ persisted' = persisted \cup {held}
    /\ RecordDone

\* A fault that JobsAreRecorded excludes: the consumer leaves on an error.
RecordFailsForGood ==
    /\ consumer = "record"
    /\ cancelled \/ DBMayFail
    /\ consumer' = "exited" /\ held' = NoCheck
    /\ UNCHANGED <<poolVars, clockVars, dbVars, sched, roundVars>>

\* ... or the insert fails, which is logged and swallowed.
RecordFails ==
    /\ consumer = "record"
    /\ cancelled \/ DBMayFail
    /\ UNCHANGED persisted
    /\ RecordDone

\* The range ends on a closed and empty channel; close(consumerDone).
ConsumerExit ==
    /\ consumer = "range" /\ results = <<>> /\ resultsClosed
    /\ consumer' = "exited"
    /\ UNCHANGED <<poolVars, clockVars, dbVars, sched, roundVars, held>>

Consumer == ConsumerReceive \/ Record \/ RecordFails \/ ConsumerExit

-----------------------------------------------------------------------------
Run ==
    \/ RunDueChecks \/ RunDueChecksFails
    \/ \E m \in Monitors : SubmitNext(m) \/ GiveUp(m)
    \/ RoundDone \/ BeginDrain \/ FinishDrain \/ Stop

Next ==
    \/ Cancel \/ Fire
    \/ \E m \in Monitors : SetActive(m)
    \/ Run
    \/ \E w \in Workers : Worker(w)
    \/ Consumer

Spec == Init /\ [][Next]_vars

\* The goroutines run, the ticker ticks, and a database call returns.  A select
\* that has ctx.Done() ready at every turn takes it some time, since Go picks a
\* ready case at random; and a database that fails now and then also answers now
\* and then.
Fairness ==
    /\ WF_vars(Fire)
    /\ WF_vars(Run) /\ WF_vars(BeginDrain) /\ SF_vars(RunDueChecks)
    /\ \A w \in Workers : WF_vars(Worker(w))
    /\ WF_vars(Consumer)

FairSpec == Spec /\ Fairness

-----------------------------------------------------------------------------
(* Properties.                                                             *)

\* Every variable has its type; the channels keep to their buffers.
TypeOK ==
    /\ Pool!TypeOK
    /\ time \in Time /\ ticker \in Time \cup {NoTick} /\ now \in Time
    /\ active \subseteq Monitors /\ pending \subseteq Monitors
    /\ persisted \subseteq Pool!Check
    /\ sched \in {"select", "submit", "draining", "awaitConsumer", "stopped"}
    /\ nextRun \in [Monitors -> Nat]
    /\ consumer \in {"range", "record", "exited"}
    /\ held \in Pool!Check \cup {NoCheck}

\* A check that the shutdown itself cut short is a "down" check with ctx.Err()
\* for its error.  None is ever stored: a restart leaves no false outage in the
\* history, since what aborts a check also fails its insert (scheduler.go:73).
NoArtefactPersisted == \A c \in persisted : c.status # "aborted"

\* When Run has returned, nothing of the engine is left running: main may close
\* the database pool (main.go:196-210).
StopIsQuiescent ==
    sched = "stopped" =>
        /\ Pool!AllExited /\ jobsClosed /\ resultsClosed
        /\ consumer = "exited" /\ results = <<>> /\ held = NoCheck

\* Two checks of a monitor are at least its interval apart, counted by the ticks
\* they were submitted for, however long Submit blocks and whatever ticks are
\* dropped or late (scheduler.go:17-22).
SpacingByTick ==
    \A j, k \in CheckJob :
        /\ Pool!Accepted(j) /\ Pool!Accepted(k)
        /\ j.monitor = k.monitor /\ j.tick < k.tick
        => k.tick >= j.tick + Interval[j.monitor]

\* While ctx is live, nextRun never promises a check that was not queued: the
\* monitor's last slot is one whose job the pool has accepted.
NextRunBacked ==
    ~cancelled =>
        \A m \in Monitors : nextRun[m] # 0 =>
            \E j \in CheckJob :
                /\ j.monitor = m /\ j.tick + Interval[m] = nextRun[m]
                /\ Pool!Accepted(j)

\* The jobs that the pool has accepted, place by place.
Scheduled ==
    {jobs[i] : i \in DOMAIN jobs}
    \cup {task[w] : w \in {v \in Workers : pc[v] \in {"check", "send"}}}
    \cup {results[i].job : i \in DOMAIN results}
    \cup {c.job : c \in delivered \cup lost}

History == INSTANCE CheckHistory
             WITH slots <- Scheduled, rows <- persisted,
                  stopped <- (sched = "stopped"), Times <- Time

\* Queue, workers, results and consumer together keep the history of CheckHistory:
\* a stored check is the only one of a slot that was due and queued, with a verdict
\* about the target, and it was stored before ctx was done.
ImplementsHistory == History!Spec

\* The pool keeps its ledger for the jobs of the rounds, though it is cancelled from
\* outside, its owner stops submitting in the middle of a round and another goroutine
\* receives: no slot is run twice, reported twice, or dropped before ctx was done.
ImplementsLedger == Pool!ImplementsLedger

\* A cancelled engine stops: no goroutine waits for another that has left, with
\* the queue full, a round half submitted, or results nobody has read yet.
ShutdownCompletes == cancelled ~> sched = "stopped"

\* A monitor that stays active is submitted for its last slot before the end of
\* the clock, unless ctx is cancelled: no other monitor, no slow check and no
\* failing query starves it for good.
MonitorsGetChecked ==
    \A m \in Monitors :
        <>[](m \in active) => <>(cancelled \/ nextRun[m] > MaxTime)

\* Every queued job is checked, its check received and Record done with it, unless
\* ctx is cancelled first, though the ticker and failing queries compete with it.
JobsAreRecorded ==
    \A j \in CheckJob :
        Pool!Queued(j) ~>
            \/ cancelled
            \/ \E c \in delivered : c.job = j /\ held # c

-----------------------------------------------------------------------------
(* What a comment promises and the code does not keep.                     *)

\* scheduler.go:87: the drain waits "for every already-completed result to
\* actually be recorded", so what the consumer received is stored when Run ends.
DrainRecordsResults ==
    sched = "stopped" =>
        \A c \in delivered : c.status # "aborted" => c \in persisted
=============================================================================
