----------------------------- MODULE WorkerPool -----------------------------
(***************************************************************************)
(* checker.WorkerPool (src/internal/checker/pool.go): a fixed set of       *)
(* goroutines that take jobs off one buffered channel and send one result  *)
(* per job into another, under a context that may be cancelled at any      *)
(* moment, and the Shutdown call that closes both channels.                *)
(*                                                                         *)
(* A buffered Go channel is a sequence of at most Capacity elements and a  *)
(* flag: a receive takes the head, also from a closed channel until it is  *)
(* empty.  A select with several ready cases takes any of them, so each    *)
(* case is an action of its own.                                           *)
(*                                                                         *)
(* RunCheck is one step here, its outcome a choice; an "aborted" check is  *)
(* the "down" check whose Error is ctx.Err().                              *)
(***************************************************************************)
EXTENDS Naturals, Sequences, FiniteSets

CONSTANTS
    Workers,          \* the worker goroutines (workerCount of them)
    Job,              \* the jobs that may be submitted, each at most once
    NoJob,            \* the task of a worker that has none
    BufferPerWorker,  \* channel slots per worker; the code says 2
    Genuine           \* the statuses of checks that ran: "up", "slow", "down"

ASSUME PoolAssumption ==
    /\ IsFiniteSet(Workers)
    /\ BufferPerWorker \in Nat \ {0}
    /\ NoJob \notin Job
    /\ Genuine # {} /\ "aborted" \notin Genuine

VARIABLES
    cancelled,        \* ctx is done
    jobs,             \* p.jobs, and whether it is closed
    jobsClosed,
    results,          \* p.results, and whether it is closed
    resultsClosed,
    pc,               \* where each worker is in its loop
    task,             \* the job a worker is busy with
    verdict,          \* the status of the check a worker wants to send
    delivered,        \* history: the checks received from Results()
    lost              \* history: the checks a worker dropped

channels == <<jobs, jobsClosed, results, resultsClosed>>
workers  == <<pc, task, verdict>>
history  == <<delivered, lost>>
vars     == <<cancelled, channels, workers, history>>

\* make(chan ..., workerCount*2).
Capacity == BufferPerWorker * Cardinality(Workers)

Status == Genuine \cup {"aborted"}
Check  == [job : Job, status : Status]

-----------------------------------------------------------------------------
Init ==
    /\ cancelled = FALSE
    /\ jobs = <<>> /\ jobsClosed = FALSE
    /\ results = <<>> /\ resultsClosed = FALSE
    /\ pc = [w \in Workers |-> "range"]
    /\ task = [w \in Workers |-> NoJob]
    /\ verdict = [w \in Workers |-> "aborted"]
    /\ delivered = {} /\ lost = {}

-----------------------------------------------------------------------------
(* Where a job can be.                                                     *)

Queued(j)    == \E i \in DOMAIN jobs : jobs[i] = j
HeldBy(w, j) == pc[w] \in {"check", "send"} /\ task[w] = j
Reported(j)  == \E i \in DOMAIN results : results[i].job = j
Delivered(j) == \E c \in delivered : c.job = j
Lost(j)      == \E c \in lost : c.job = j

Accepted(j) ==
    \/ Queued(j) \/ Reported(j) \/ Delivered(j) \/ Lost(j)
    \/ \E w \in Workers : HeldBy(w, j)

-----------------------------------------------------------------------------
(* The context.                                                            *)

Cancel ==
    /\ ~cancelled
    /\ cancelled' = TRUE
    /\ UNCHANGED <<channels, workers, history>>

\* A fault that TypeOK excludes: a backlog without backpressure.
SubmitUnbounded(j) ==
    /\ ~jobsClosed
    /\ ~Accepted(j)
    /\ jobs' = Append(jobs, j)
    /\ UNCHANGED <<cancelled, jobsClosed, results, resultsClosed, workers, history>>

(* Submit: the send case of its select.  The other case, <-ctx.Done(),     *)
(* leaves the pool as it is.                                               *)
Submit(j) ==
    /\ ~jobsClosed
    /\ ~Accepted(j)
    /\ Len(jobs) < Capacity
    /\ jobs' = Append(jobs, j)
    /\ UNCHANGED <<cancelled, jobsClosed, results, resultsClosed, workers, history>>

-----------------------------------------------------------------------------
(* The worker loop.                                                        *)

\* A fault that SinglePlace excludes: the element stays in the channel.
TakeJobPeek(w) ==
    /\ pc[w] = "range" /\ jobs # <<>> /\ ~cancelled
    /\ task' = [task EXCEPT ![w] = Head(jobs)]
    /\ pc' = [pc EXCEPT ![w] = "check"]
    /\ UNCHANGED <<cancelled, channels, verdict, history>>

\* `for job := range p.jobs`, an element is there: RunCheck starts.
TakeJob(w) ==
    /\ pc[w] = "range" /\ jobs # <<>> /\ ~cancelled
    /\ jobs' = Tail(jobs)
    /\ task' = [task EXCEPT ![w] = Head(jobs)]
    /\ pc' = [pc EXCEPT ![w] = "check"]
    /\ UNCHANGED <<cancelled, jobsClosed, results, resultsClosed, verdict, history>>

\* The same once ctx is done: the request fails before it is sent, ctx errors
\* are not retried, RunCheck returns downCheck(m, ctx.Err()).
TakeJobLate(w) ==
    /\ pc[w] = "range" /\ jobs # <<>> /\ cancelled
    /\ jobs' = Tail(jobs)
    /\ task' = [task EXCEPT ![w] = Head(jobs)]
    /\ verdict' = [verdict EXCEPT ![w] = "aborted"]
    /\ pc' = [pc EXCEPT ![w] = "send"]
    /\ UNCHANGED <<cancelled, jobsClosed, results, resultsClosed, history>>

\* RunCheck returns.  A cancellation aborts the check, unless the response was
\* already in.
FinishCheck(w) ==
    /\ pc[w] = "check"
    /\ \E s \in (IF cancelled THEN Status ELSE Genuine) :
          verdict' = [verdict EXCEPT ![w] = s]
    /\ pc' = [pc EXCEPT ![w] = "send"]
    /\ UNCHANGED <<cancelled, channels, task, history>>

CheckOf(w) == [job |-> task[w], status |-> verdict[w]]

\* `case p.results <- check`.
SendResult(w) ==
    /\ pc[w] = "send" /\ Len(results) < Capacity
    /\ results' = Append(results, CheckOf(w))
    /\ pc' = [pc EXCEPT ![w] = "range"]
    /\ task' = [task EXCEPT ![w] = NoJob]
    /\ UNCHANGED <<cancelled, jobs, jobsClosed, resultsClosed, verdict, history>>

\* Faults that ImplementsLedger, and ShutdownReturns, exclude:
\* a default case in the place of ctx.Done(), and no second case at all.
DropResultDefault(w) ==
    /\ pc[w] = "send" /\ Len(results) = Capacity
    /\ lost' = lost \cup {CheckOf(w)}
    /\ pc' = [pc EXCEPT ![w] = "range"]
    /\ task' = [task EXCEPT ![w] = NoJob]
    /\ UNCHANGED <<cancelled, channels, verdict, delivered>>

DropResultNever(w) == FALSE

\* `case <-ctx.Done()`: the result is dropped and the worker returns, whatever
\* is left in p.jobs.
DropResult(w) ==
    /\ pc[w] = "send" /\ cancelled
    /\ lost' = lost \cup {CheckOf(w)}
    /\ pc' = [pc EXCEPT ![w] = "exited"]
    /\ task' = [task EXCEPT ![w] = NoJob]
    /\ UNCHANGED <<cancelled, channels, verdict, delivered>>

\* Faults that CapacityPreserved and ShutdownIsLossless exclude: a receive that
\* does not wait, and a closed flag that is looked at before the queue.
ExitWhenIdle(w) ==
    /\ pc[w] = "range" /\ jobs = <<>>
    /\ pc' = [pc EXCEPT ![w] = "exited"]
    /\ UNCHANGED <<cancelled, channels, task, verdict, history>>

ExitAtOnce(w) ==
    /\ pc[w] = "range" /\ jobsClosed
    /\ pc' = [pc EXCEPT ![w] = "exited"]
    /\ UNCHANGED <<cancelled, channels, task, verdict, history>>

\* The range loop ends on a closed and empty channel; wg.Done().
ExitOnClose(w) ==
    /\ pc[w] = "range" /\ jobs = <<>> /\ jobsClosed
    /\ pc' = [pc EXCEPT ![w] = "exited"]
    /\ UNCHANGED <<cancelled, channels, task, verdict, history>>

Worker(w) ==
    \/ TakeJob(w) \/ TakeJobLate(w) \/ FinishCheck(w)
    \/ SendResult(w) \/ DropResult(w) \/ ExitOnClose(w)

-----------------------------------------------------------------------------
(* The owner's side: receiving from Results(), and Shutdown.               *)

Receive ==
    /\ results # <<>>
    /\ results' = Tail(results)
    /\ delivered' = delivered \cup {Head(results)}
    /\ UNCHANGED <<cancelled, jobs, jobsClosed, resultsClosed, workers, lost>>

\* close(p.jobs).
CloseJobs ==
    /\ ~jobsClosed
    /\ jobsClosed' = TRUE
    /\ UNCHANGED <<cancelled, jobs, results, resultsClosed, workers, history>>

\* p.wg.Wait(), close(p.results).
AllExited == \A w \in Workers : pc[w] = "exited"

\* A fault that ClosedIsQuiet excludes: no Wait().
CloseResultsEarly ==
    /\ jobsClosed /\ ~resultsClosed
    /\ resultsClosed' = TRUE
    /\ UNCHANGED <<cancelled, jobs, jobsClosed, results, workers, history>>

CloseResults ==
    /\ jobsClosed /\ ~resultsClosed
    /\ AllExited
    /\ resultsClosed' = TRUE
    /\ UNCHANGED <<cancelled, jobs, jobsClosed, results, workers, history>>

Next ==
    \/ Cancel
    \/ \E j \in Job : Submit(j)
    \/ \E w \in Workers : Worker(w)
    \/ Receive
    \/ CloseJobs
    \/ CloseResults

Spec == Init /\ [][Next]_vars

-----------------------------------------------------------------------------
(* Fairness.  A worker always gets on: the runtime schedules every         *)
(* goroutine, and RunCheck ends because each attempt has a timeout and     *)
(* there are at most three.  Shutdown, once called, is one goroutine       *)
(* waiting.  Whether anybody reads Results() is the owner's affair, so     *)
(* that is an assumption of the property that needs it.                    *)

WorkersRun == \A w \in Workers : WF_vars(Worker(w))

FairSpec == Spec /\ WorkersRun /\ WF_vars(CloseResults)

-----------------------------------------------------------------------------
(* Properties.                                                             *)

\* Every variable has its type and neither channel holds more than its buffer.
TypeOK ==
    /\ cancelled \in BOOLEAN
    /\ jobs \in Seq(Job) /\ Len(jobs) <= Capacity
    /\ results \in Seq(Check) /\ Len(results) <= Capacity
    /\ jobsClosed \in BOOLEAN /\ resultsClosed \in BOOLEAN
    /\ pc \in [Workers -> {"range", "check", "send", "exited"}]
    /\ task \in [Workers -> Job \cup {NoJob}]
    /\ verdict \in [Workers -> Status]
    /\ delivered \subseteq Check /\ lost \subseteq Check

JobsDistinct    == \A i, k \in DOMAIN jobs : jobs[i] = jobs[k] => i = k
ResultsDistinct == \A i, k \in DOMAIN results : results[i].job = results[k].job => i = k
HoldersDistinct == \A v, w \in Workers : \A j \in Job :
                        HeldBy(v, j) /\ HeldBy(w, j) => v = w
HistoryDistinct == \A c, d \in delivered \cup lost : c.job = d.job => c = d

Held(j) == \E w \in Workers : HeldBy(w, j)
PlacesDisjoint ==
    \A j \in Job :
        /\ Queued(j)   => ~Held(j) /\ ~Reported(j) /\ ~Delivered(j) /\ ~Lost(j)
        /\ Held(j)     => ~Reported(j) /\ ~Delivered(j) /\ ~Lost(j)
        /\ Reported(j) => ~Delivered(j) /\ ~Lost(j)
        /\ ~(Delivered(j) /\ Lost(j))

\* A job is in one place: once in one channel, or with one worker, or handed
\* over, or dropped.  So no check runs twice and none is reported twice.
SinglePlace ==
    /\ JobsDistinct /\ ResultsDistinct /\ HoldersDistinct /\ HistoryDistinct
    /\ PlacesDisjoint

\* pool.go:122-125: once results is closed no worker is left that could still
\* send into it (which would panic), and none can come back to life.
ClosedIsQuiet == resultsClosed => jobsClosed /\ AllExited

\* The pool keeps all its workers until it is shut down or cancelled: no
\* backlog, slow consumer or check outcome costs it one.
CapacityPreserved ==
    ~cancelled /\ ~jobsClosed => \A w \in Workers : pc[w] # "exited"

\* pool.go:58-61: a Shutdown without cancellation works off everything that was
\* submitted; each job's check is in the results channel or was received.
ShutdownIsLossless ==
    resultsClosed /\ ~cancelled =>
        \A j \in Job : Accepted(j) => Reported(j) \/ Delivered(j)

\* A cancelled pool that was told to shut down gets there although nobody reads
\* Results() any more and the channel is full (pool.go:85-89).
ShutdownReturns == (cancelled /\ jobsClosed) ~> resultsClosed

-----------------------------------------------------------------------------
(* The pool keeps the ledger of CheckLedger.                               *)

StageOf(j) ==
    CASE Queued(j)    -> "queued"
      [] Delivered(j) -> "delivered"
      [] Lost(j)      -> "lost"
      [] Reported(j)  -> "completed"
      [] \E w \in Workers : HeldBy(w, j) /\ pc[w] = "check" -> "running"
      [] \E w \in Workers : HeldBy(w, j) /\ pc[w] = "send"  -> "completed"
      [] OTHER -> "idle"

Ledger == INSTANCE CheckLedger
             WITH stage <- [j \in Job |-> StageOf(j)], closed <- resultsClosed

\* Channels, goroutines and select statements together implement the ledger:
\* stages only move forward and a check is lost only under cancellation.
ImplementsLedger == Ledger!Spec
=============================================================================
