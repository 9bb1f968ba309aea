# SitePulse: specification and verification

SitePulse is an uptime monitor written in Go. Users create monitors (a URL, an
interval, a timeout, an expected status code); the server checks each one when
it is due, stores the checks, opens and resolves incidents, and notifies. This
directory holds TLA+ models of it, the TLC configurations that check them on
small instances, and theorems proved with TLAPS for instances of every size.

Paths are relative to `src/`. `PROJECT.json` maps every definition to the lines
it models.

## 1. The system

```
 ticker --> Scheduler.Run --Submit--> [jobs] --> worker 1..n --> [results] --> consumer
               |   ^                              (RunCheck)                     |
          ListActive                                                     MultiRecorder
               v   |                                        logs | checks table | IncidentService | CertWatchService
           monitors table  <-- HTTP API (users)                                        |                |
                                                                                       +--> Notifier <--+
 SIGTERM --> ctx, shared by all of the above
```

One process runs the HTTP server and the monitoring engine side by side. They
share the database and one `context.Context`, which a signal cancels. The engine
is a pipeline of goroutines joined by two buffered channels. All durable state is
in PostgreSQL; `nextRun` (when each monitor is due), the certificate watch's
`lastWarned`, and the rate limiter's buckets are in memory only.

| Component | Code | State | Operations | What is hard | What makes it correct | Status |
|---|---|---|---|---|---|---|
| worker pool | `internal/checker/pool.go` | channels `jobs`, `results` (capacity 2 x workers), the workers, the wait group | `Start`, `worker`, `Submit`, `Results`, `Shutdown` | selects against cancellation, full channels, order of closing | a job is in one place; no send on a closed channel; nothing lost without cancellation; `Shutdown` returns | modelled, proved |
| health check | `internal/checker/checker.go` | local variables of the retry loop | `RunCheck`, `attemptRequest`, `isTransient` | cancellation during a request or backoff, retries carrying values over | the verdict is that of the last request; only transient errors are retried; it returns | modelled, safety proved |
| scheduler | `internal/scheduler/scheduler.go` | `nextRun`, the ticker, the consumer goroutine | `Run`, `runDueChecks`, `isDue` | dropped ticks, blocked `Submit`, failing queries, the drain | spacing of checks; no starvation; no artefact of a shutdown is stored; the checks table is a history of the slots; the drain ends and leaves nothing running | modelled, safety proved |
| result recorders | `internal/checker/recorder.go` | none of their own | `Record` | an error is logged and swallowed | every received check is tried | partly: in `Scheduler`, `CheckPath`, `IncidentService` |
| incident detection | `internal/service/incident_service.go`, `repository/postgres/incident_repository.go`, migration 000004 | table `incidents` with a partial unique index | `Record`, `handleDown`, `handleUpOrSlow` | several statements without a transaction, failures between them, deletion of monitors, checks out of order | one open incident per monitor; announced once; repaired by the next check; what users are told was so when the monitor was looked up | modelled, safety proved |
| certificate watch | `internal/service/cert_watch_service.go` | `lastWarned`, in memory | `Record`, `shouldWarn` | the warning is marked before it is sent; restarts | at most one warning per cooldown; none missing before the expiry but for a lost mark | modelled, proved |
| sessions | `internal/service/auth_service.go`, `handler/auth_handler.go`, `refresh_token_repository.go`, `security/jwt.go`, `token.go` | tables `users`, `refresh_tokens` | `Register`, `Login`, `Refresh`, `Logout` | read, revoke and insert are separate statements; lost responses | one good token per family; a logout ends the session; an honest client keeps it | modelled, proved |
| user management | `internal/service/user_service.go`, `handler/user_handler.go` | table `users` | `UpdateRole`; `Me`, `List`, `Get` read | counts admins, then writes; tokens carry an old role | an admin remains | modelled, proved |
| monitor management | `internal/service/monitor_service.go`, `handler/monitor_handler.go` | table `monitors` | `Create`, `Update`, `Delete`; `List`, `Get`, `Checks`, `Stats`, `Incidents` read | read-modify-write of a whole row | rows stay valid; a deleted monitor stays deleted; only the owner or an admin changes one; somebody else's monitor looks like none | modelled, proved |
| check history and dashboard | `internal/service/dashboard_service.go`, `check_repository.go` | reads `monitors`, `checks` | `Summary`, uptime, averages | three statements per monitor while rows change; empty windows | agrees with its definition when nothing changes, old monitors aside; below 100% means an outage | modelled, proved |
| validation | `internal/validation` | none | validators | agreement with the table's CHECKs and types | the interval and the timeout are refused by a validator, not by the database | partly: what monitors need |
| rate limiting | `internal/middleware/ratelimit.go` | a limiter per address, in memory | `getLimiter`, `Limit`, `cleanupLoop` | a limiter is looked up, the map reset, the limiter used | never more than the burst and what was refilled | modelled, proved |
| process life | `cmd/api/main.go` | the context, the server, the database pool | start, signal, shutdown | two time limits, a pool closed under engine and requests, a notification that hangs | the process exits; the pool outlives its users unless a limit ran out | modelled, safety proved |
| notification | `internal/notify/*` | none | `Notify` | reports nothing back, may hang | - | partly: one step |
| middleware, router, handlers | `internal/middleware`, `internal/server`, `internal/handler` | none | authorise, decode, map errors, encode | - | - | partly: what decides |
| database | `repository/postgres/postgres.go`, `migrations` | all durable state | statements | failures, lost answers | - | partly: constraints, opening and closing |
| config, logger | `internal/config`, `internal/logger` | none after start | - | - | - | partly: `Load` succeeds or `main` exits |
| passwords | `internal/security/password.go` | none | - | - | - | not modelled: pure cryptography |

The hazards are listed in `PROJECT.json` under "hazards", each at the line where
it bites, with the properties that cover it.

## 2. The modules

| Module | Models | Extends / instantiates |
|---|---|---|
| `CheckLedger` | what the pool promises: a job is idle, queued, running, completed, then delivered or (only under cancellation) lost | - |
| `WorkerPool` | `pool.go` | instance `Ledger` of `CheckLedger` (refinement mapping `StageOf`) |
| `CheckHistory` | what the engine promises a reader of the checks table: slots an interval apart, each stored once at most, about the target, before the context is done | - |
| `Scheduler` | `scheduler.go` with its pool, consumer, ticker and database | instance `Pool` of `WorkerPool`, a job being a monitor and a tick; instance `History` of `CheckHistory` |
| `Process` | `main.go` around the engine: start, HTTP server, shutdown | `Scheduler` |
| `IncidentLog` | what table and notices promise a reader: incidents begin one at a time, end once and stay as they are; a notice was true when the monitor was last looked at (`Look`), and is told once or dropped | - |
| `IncidentService` | `incident_service.go` over the incidents table | instance `Log` of `IncidentLog` |
| `RunCheck` | `checker.go`: the loop that `WorkerPool` takes as one step | - |
| `CertWatch` | `cert_watch_service.go` | - |
| `CheckPath` | check after check of a monitor, handed on to the certificate watch | `RunCheck`, `CertWatch` |
| `AuthService` | `auth_service.go` and its handler over `users` and `refresh_tokens` | - |
| `UserService` | `UserService.UpdateRole` and its handler | `AuthService` |
| `RateLimiter` | `ratelimit.go` | - |
| `Accounts` | browsers, router and middleware around the three | `UserService`, `RateLimiter` |
| `MonitorService` | `monitor_service.go` and its handler over `monitors` | - |
| `Dashboard` | `DashboardService.Summary` beside changing monitors and new checks | `MonitorService` |
| `MCWorkerPool`, `MCScheduler`, `MCIncidentService`, `MCAccounts`, `MCDashboard`, `MCProcess` | the instances: intervals, request bodies, symmetry | the module of that name |
| `WorkerPoolProofs` | the pool's safety theorems | `WorkerPool`, TLAPS |
| `WorkerPoolRefinement` | that the pool implements the ledger | `WorkerPoolProofs` |
| `SchedulerProofs` | the scheduler's theorems | `Scheduler`, TLAPS; instance `P` of `WorkerPoolRefinement` |
| `ProcessProofs` | the process's theorems, from the scheduler's | `Process`, `SchedulerProofs` |
| `IncidentProofs` | the incident service's theorems: any number of recorders, then one | `IncidentService`, TLAPS |
| `CheckPathProofs` | the theorems of the retry loop and of the certificate watch | `CheckPath`, TLAPS |
| `AccountsProofs` | the theorems of sessions, roles and the limiter | `Accounts`, TLAPS |
| `DashboardProofs` | the theorems of the monitors and of the summary | `Dashboard`, TLAPS |

Every module contains, next to an action, the faults its properties exclude
("A fault that ... excludes"). They are not part of any specification; the
mutants in `PROJECT.json` put one in an action's place to show that the property
notices.

### WorkerPool

A buffered channel is a sequence and a closed flag. `pc[w]` is "range" (waiting
in `for job := range p.jobs`), "check" (in `RunCheck`), "send" (in the select)
or "exited". A select whose cases are both ready takes either, so `SendResult`
and `DropResult`, and `Submit` and giving up, are separate actions. `TakeJob` and
`TakeJobLate` split the receive on whether the context is done: `RunCheck` under
a cancelled context fails before it sends anything, so the check is "aborted",
which stands for the "down" check with `ctx.Err()` for its error. `Shutdown` is
`CloseJobs` followed by `CloseResults`, whose guard is `wg.Wait()`.

The statuses of checks that did run are a constant, `Genuine`, since the pool
treats them alike. `Submit` requires that `jobs` is open: `Scheduler.Run` calls
`Submit` and `Shutdown` from one goroutine, in this order, and the code after a
close would panic. A job is submitted at most once; in `Scheduler` this is
discharged by the tick being part of the job.

### RunCheck

`tries` is the list of the outcomes of the requests so far; `at` is "send",
"wait", "backoff", "judge" or "done". An answer in time, a slow one and an
unexpected code are told apart, as are transient errors, the monitor's timeout
and the cancellation. Times are not measured.

### Scheduler

`sched` is where `Run` is: in its select, in the loop of `runDueChecks`
("submit"), in `Shutdown` ("draining"), at `<-consumerDone` ("awaitConsumer"), or
returned ("stopped"). The ticker's channel holds one tick and drops the others.
`pending` are the due monitors the loop has not reached; the order of
`ListActive` is left open. Every database call fails when the context is done,
as pgx does, and may fail at any other time if `DBMayFail`. The consumer's
`MultiRecorder` is one step, the insert into `checks`.

Simplifications: `IntervalSeconds` does not change while the process runs; the
interval is counted in ticks (of `SCHEDULER_TICK`, five seconds by default) and a job has the tick
its round began with.

### IncidentService

Each call to the database is a step of its own, each recorder a process. A call
can fail without effect (`CallFails`), succeed and lose its answer
(`CreateUnanswered`, `ResolveUnanswered`), or never come because the process
dies (`Crash`). `DeleteMonitor` cascades. `GetByID`, which finds the monitor to
write of, and `Notify` are two steps: a deletion in between takes the incident away and
the notice is sent all the same. `last` is a history variable: what the
last check of a monitor said. `up` stands for `slow` too.

`Skew` says by how many checks a stamp may be older than the newest. One worker
delivers checks in order (`Skew = 0`); with several workers and retries, a check
that takes longer than the interval may be overtaken by its successor, which the
scheduler does not exclude. `WindowsDisjoint` bounds the harm: an outage ends
before it began, or overlaps the next one, by no more than the skew.

### RunCheck with CertWatch: CheckPath

A check that `RunCheck` has made is recorded and the next one begins. It carries
a certificate exactly if its last request was answered, whatever the code
(`TLSSeen`). `Recorders` besides `Consumer` are further goroutines in `Record`,
which `CertWatchService` allows for. The mark of `shouldWarn` is one step, under
the mutex; loading the monitor and notifying are others. `remaining` counts down
to the expiry; `age` is the time since the mark. The history variable `lost` says
that a mark was not followed by its warning.

### AuthService, UserService, RateLimiter: Accounts

A request is a record: the statement it is at, what it came with, what it has
read, and its response. One action is one SQL statement; each may fail
(`CallFails`), and each write may take effect and have its answer lost (the
disjunct `Fail` of the write). A refresh token is the number of its row, which is
what its hash looks up; families are named by their first token. That a token has
expired is decided when it is looked at. Access tokens are the claims they carry,
and keep an old role after it was changed, as they do in the code for fifteen
minutes. `Accounts` adds the browser: one cookie, one access token, several
requests under way, responses that are lost (`Lose`).

Three histories delimit what is promised. `raced`: two refreshes of a family were
at work at once. `slipped`: a family was revoked while a refresh was between its
look at the table and its insert. `rushed`: a role was written by an update whose
look at the accounts was older than the last change. In each of them the code does
break the plain promise, and only there, which is what the properties say.

A limiter is named by its address and the number of resets before it, so that one
that is used after a reset is told from the one in the map.

### MonitorService and Dashboard

The same form of requests. `Load` is `GetByID` with the check of ownership and, in
`Update`, the validation, which follow without another statement; `Written` is a
write that took effect, whose answer may be lost. The CHECKs of migration 000002 are
`Constraint`, and `Encodable` is what comes before them: a Go int that no INT holds is
refused by pgx, a NUL in a name or in the fragment of a URL by PostgreSQL, both before a
row is looked for. `MaxInt4` stands for 2^31 - 1; it is a constant because TLC's own
integers end there. Names are lengths and whether they hold a NUL, URLs a scheme and a
host. `Delete` cascades to the
checks, which are a set: no two of a monitor have the same time. `Summary` is five
actions: the list, three statements per monitor, and the end. Its list is the set
`sum.list` of the ids still to come, of which `Latest` takes the newest, as ListByUser
orders them; a deleted one among them is looked up all the same. Uptimes
are counted in parts of `Whole` and cut to them; the run counts in sixths, which is
exact for its three checks, and the theorems hold for any `Whole`. So
`SummaryIsSnapshot` can ask for equality with a definition in one piece, the averages
over the monitors with a check in the window, as the comment in the code has it;
`excused` says that the code has taken another one in (section 4). The float
arithmetic of the code is not modelled beyond its cuts.

### Process

`Scheduler` runs once `NewPool` has succeeded. `handler[c]` is "open" while a
request runs and "query" while it has a connection of the pool; Close waits for
connections, not for requests. `Hang` is the consumer inside a `Notify` that does
not return: `smtp.SendMail` takes no context. `forced` says that one of the time
limits ran out, `failed` that `os.Exit(1)` was called. The scheduler may go on with
a closed pool after a forced end; its statements then fail, as they do under the
cancelled context.

## 3. The runs

| Run | Question | Instance | Result |
|---|---|---|---|
| `pool` | Is every job in one place, is nothing sent on a closed channel, does the pool keep its workers and, without cancellation, every job? Does it implement the ledger? Does `Shutdown` return with nobody reading? | 2 workers, 4 jobs | holds |
| `sched_rounds` | Are checks spaced, and no slot consumed without a job? Is no artefact stored, and nothing left after `Run`? Does the engine implement the history? | 2 monitors, 3 ticks, 1 worker | holds |
| `sched_liveness` | Does a shutdown complete, is no monitor starved, is every queued check recorded? | 2 monitors, 2 ticks, 1 worker | holds |
| `sched_unrecorded` | Does the drain record what it received? | 2 monitors, 2 ticks, 1 worker | violated: finding 1 |
| `incident_one` | One recorder: does the table follow the checks, is each incident announced once, do outages run forward up to the skew? | 2 monitors, 5 checks, skew 1 | holds |
| `incident_two` | Two recorders: one open incident per monitor? Do they implement the log? | 2 monitors, 4 checks, skew 1 | holds |
| `incident_phantom` | Is an announced incident one that was recorded? | 1 monitor, 3 checks, 2 recorders | violated: finding 2 |
| `check_path` | Does a check say what its last request came to, and return? Are warnings spaced, and is there one before the expiry? | 2 retries; a certificate for 5 ticks, window 4, cooldown 2; 2 goroutines | holds |
| `accounts` | Has a family one good token, does a logout end it, does an honest client keep its session? Is an admin left? Is an address held to its budget? | 1 browser, 4 requests, 2 at a time; 2 accounts, 4 tokens; burst 2, 1 refill, 1 reset | holds |
| `last_admin` | Is an admin left whatever overlaps? | the same, without waiting for the limiter | violated: finding 3 |
| `monitors` | Do rows stay valid, and deleted ones deleted? Does only an owner or an admin change one? Does a validator refuse what the table would? Does the dashboard agree with its definition, and does it only show real outages? | 2 monitors; 3 requests, 2 at a time, or 1 request, 3 checks and summaries | holds |
| `process` | Does the process exit? Do engine and requests keep the database pool unless a limit runs out? | 1 monitor, 2 ticks, 1 worker, 2 connections | holds |

### Bounds

- The code's channels hold 2 per worker. `BufferPerWorker = 1` with two workers
  gives the same capacity, 2, as one worker with the code's factor, with an
  interleaving of two workers on top. Four jobs are enough to fill `results` with
  both workers blocked on it, which is the state that `ShutdownReturns` is about.
  The proofs hold for every factor and every number of jobs.
- `MaxTime` saturates: ticks go on with the last time, so that the ticker never
  stops and liveness is not an artefact of the bound. With intervals 1 and 2 and
  three ticks one monitor is due three times and the other twice: five jobs for a
  pipeline (one worker, both channels, the consumer) that holds four. The runs with
  two ticks have three jobs, enough for `Submit` to wait on a full queue and for a
  worker to wait on a full `results` when the signal comes.
- Five checks suffice for outage, recovery, second outage, recovery and a check
  more; four with two recorders for each of them to be between any two calls of
  the other. A skew of 1 is one check that was overtaken, which is what two workers
  do; a larger one stretches the same bound.
- Five ticks of a certificate with a window of four and a cooldown of two see a
  first warning, a second one, and restarts in between.
- Four requests, two at a time: a login and three refreshes or logouts on its
  family, two of them overlapping; or two logins and two role updates. A burst of
  two lets an address be refused, with one refill and one reset to admit it again.
- For monitors, a create, an update and a delete, or two updates on the same row
  and a third request. The bodies are one for each outcome: two valid ones whose
  mixture is not valid (interval 12 with timeout 50), an unknown type, an interval
  below the limit, an expected status code that is no INT (beyond `MaxInt4`, which is
  100000 in the run and needs to be above the longest interval only), a NUL.
  Summaries see three checks at two times, hence empty windows,
  ties between monitors, a delete in the middle.
- One monitor and two ticks make two jobs, enough for the engine to be draining
  when `main` waits for it; two connections, for one to be in a query while the
  other one is open.

Symmetry (of monitors, recorders and request goroutines) is used where no liveness
is checked. The three refinements (`ImplementsLedger`, `ImplementsHistory`,
`ImplementsLog`) are safety: initial states and steps. The type invariant that a run
checks is the scheduler's, the pool's in it; those of the other components are
theorems (section 5).

### Fairness

Goroutines run, and `RunCheck` ends: each attempt has a timeout and there are at
most three (`check_path` shows that the loop ends, from `WF` of its steps). Hence
`WF` for each worker, the consumer and `Run`. A ticker ticks: `WF(Fire)`. A
`select` with several ready cases picks one at random, so a cancelled `Run` cannot
be busy with ticks for ever: `WF(BeginDrain)`, as an action of its own. A database
that fails now and then answers now and then: `SF(RunDueChecks)`; without it,
`ListActive` could fail for ever and no monitor would be checked. Nothing is assumed
about users, signals, or who reads `Results()`. In the scheduler's runs a recorder
returns; `process` drops that, and everything else about the engine: there `main`
runs, its two timers among it, and a statement that was sent comes back, and that
is enough for `ProcessExits`, with a consumer that hangs in a notification and
requests that never end. `accounts`, `monitors` and `incident_*` check safety only.

### Deadlock

`Scheduler` is checked for deadlock: users can always pause a monitor, so this is
weak, and `ShutdownCompletes` is what rules out waiting for each other. So is
`CheckPath`, where checks never end. In the other runs the check is off because the
system does stop: a pool that was shut down and emptied, recorders, browsers and
users that have used up their bound, a process that has exited.

## 4. Where the code and its comments disagree

1. `sched_unrecorded`. The consumer records with the context that is already
   cancelled, so the inserts of the drain fail and the error is swallowed.
   `scheduler.go:87` says that the drain waits for completed results to be
   recorded. (The same cancelled context is what keeps aborted checks out of the
   history: `NoArtefactPersisted`. A repair has to keep both.)
2. `incident_phantom`. `Create` returns nil on a unique violation, so a recorder
   that lost the race announces an incident it has not inserted, with ID 0.
   `incident_service.go:75` says that an incident is recorded before it is
   announced. It takes two processes on one database.
3. `last_admin`. `UpdateRole` counts the admins and writes in two statements. Two
   admins who demote each other both count two, and both write.
   `user_service.go:83` says that there can never be zero admins. `LastAdminKept`
   shows that nothing but such an overlap does it.

Smaller ones that no run is spent on:

- A worker may drop its result when the context is done although the channel has
  room and the consumer still reads (`DropResult`); `pool.go:86` says nobody drains
  it any more.
- `dashboard_service.go:88-91` says that only monitors with a check in the window enter
  the averages; the test at line 92 is for a check at any time. A monitor that was
  paused for longer than the window counts as 0% and 0 ms. `SummaryIsSnapshot` takes
  the comment's definition and makes this the exception (`excused`); without the
  premise `~excused` TLC finds it violated within seconds, by a monitor with a check
  in the window and another one whose only check is older.
- `MonitorService.Update` hands the type on unseen, so an unknown one is answered
  with 500 by way of the table's CHECK, not with 400 as in `Create`. Neither of the two
  bounds the expected status code, nor looks for a NUL in a name or a URL: these, too,
  are answered with 500. They are the exceptions in `CleanRejections`.
- `incident_service.go:82-87` and `:107-113`: a monitor that is deleted between the two
  calls is written of all the same, with an incident that is no longer there. No comment
  says otherwise; `ImplementsLog` promises what a notice says for the moment of the
  look (`Look`), not for that of the sending.
- `ratelimit.go:87-92` prefers the remote address to headers that a client sets;
  `server.go:45` puts `chimw.RealIP` in front, which writes such a header into
  `RemoteAddr`. So an address is what the request says it is. `Accounts` lets a request
  come from any address, and `WithinBudget` is about an address, not about a client.
- Two refreshes that overlap leave a family with two good tokens, and a logout or a
  reuse that overlaps a refresh leaves one (`raced`, `slipped` in `AuthService`).

## 5. The proofs

The assumptions are those that the modules state of their constants, and nothing
else. TLC evaluates them in every run. They say that sets of goroutines are finite,
that sizes are numbers and that a value which stands for "nothing" is not one of the
somethings; the bounds that make runs finite are constants too, and the theorems
hold for all of their values.

Of the pool (`PoolAssumption`: finitely many workers, at least one slot per
worker, "aborted" is not a genuine status; there may be no workers at all, and any
number of jobs):

- `TypeCorrect`: `TypeOK` alone is not inductive, because a worker that sends must
  have a job for `CheckOf` to be a check. `TypeInv` adds this
  (`HoldersHaveJobs`).
- `SendNeverPanics`, `WorkersStay`, `NothingLostWithoutCancel`: one invariant,
  `ControlInv`. A worker has exited only under a cancellation or with `jobs` closed
  and empty (`ExitInv`), a check is lost only under a cancellation (`LossInv`), and
  `ClosedIsQuiet`. A pool that closed its results without a cancellation then has
  an empty queue and no busy worker, so each accepted job was reported or
  delivered. With no workers the queue is empty because its capacity is 0
  (`NoWorkersNoJobs`).
- `EveryJobOnce`: `SinglePlace` with the type invariant (`PlacesInv`) is inductive.
  One lemma per action says what it does to the places (`...Moves`): a job leaves
  one and enters the next.
- `PoolImplementsLedger`: under `PlacesInv` and `ControlInv` a job's stage is that
  of the place it is in (`StageOfPlace`), and each action of the pool moves one
  job one stage on, or none.

Of the scheduler (`SchedulerAssumption`, `SchedulerPoolAssumption`: intervals are
positive, the sentinels are no values; any number of monitors, any bound on the
clock):

- The pool's theorems are used, not repeated. `P` is the instance of the pool with
  its theorems; `SameSteps` shows that it is the instance `Pool` of `Scheduler`, and
  `PoolSees` that each step of `Scheduler` is one of the pool's or leaves it alone.
  So `PlacesInv` and `ControlInv` hold inside the scheduler.
- `EngineTypeCorrect`: `TypeOK` with `HeldInv` (the consumer holds a check exactly
  while it records) and `PlacesInv`.
- `ChecksAreSpaced`, `NoSlotWasted`: `RoundInv`. Every accepted job lies an interval
  before `nextRun` of its monitor (`JobsBehind`), and a monitor that is still
  pending is due at `now` (`PendingDue`): `now` need not be recent, nor grow. That
  only `Submit` accepts jobs and no step forgets one comes from the pool
  (`SubmitAccepts`, `OthersAccept`).
- `ShutdownLeavesNoTrace`: while the context is live no aborted check is with a
  worker, in `results`, or with the consumer (`CleanInv`); once it is done no insert
  succeeds.
- `NothingOutlivesRun`: closing goes down the pipeline (`QuietInv`). It uses
  `ClosedIsQuiet` of the pool: after `results` is closed nobody refills it.
- `EngineKeepsHistory`: the slots are the jobs that the pool holds or has handed out
  (`Scheduled`), the rows are `persisted`. That a slot lies an interval after those
  before it is `RoundInv`; that a check in the consumer's hands is about the target
  while the context is live is `CleanInv`; together they are `PlanInv`. That it has
  not been stored before is `StoredInv`: what is stored was received, and a job
  is received once (`SinglePlace`, of the pool).
- `EngineUsesPool`, `EngineKeepsLedger`: each behaviour of the engine is one of
  `WorkerPool` alone, so the pool's refinement of the ledger holds in the engine. The
  rest is that the ledger inside `Pool` and the one inside `P` are the same
  (`SameLedgerSteps`).

Of the incident service (`IncidentAssumption`):

- `IncidentTypes`: `TypeOK`, which is inductive as it stands.
- `AtMostOneOpen`: any number of recorders, all failures. The partial index is part
  of `Create`'s guard; the proof is about everything else that touches the table,
  and about row numbers staying unique (`TableInv`).
- `TableFollowsChecks`, `StoryInOrder`, `NoPhantoms`: under `OneRecorder`, the wiring
  of `main.go`, without a bound on checks. `StoryInv` says what the recorder knows
  between two of its calls (`Knows`) and that whatever was said of a monitor comes
  before a further notice on its open incident (`OpenUntold`). `NoConflict` follows:
  with one recorder the index never rejects a row. `incident_phantom` shows that the
  premise is needed.
- `OutagesInOrder`: `WindowsDisjoint` under `OneRecorder`, for every skew. No row has a
  stamp after the newest check, and the check in a recorder's hands is at most the
  skew older than that (`StampsKnown`); with one recorder no newer check arrives
  before it is done. A row that is inserted or resolved is then within the skew of
  all others.
- `RecordersImplementLog`: any number of recorders. `LogInv` says what a recorder means
  by the number in its hands when it is about to look the monitor up (`Means`): an
  incident of its monitor that has been resolved, one that has been opened and may be
  over, or 0 after a lost race. The number was read some statements ago; it stays right
  because rows neither reopen nor change hands (`RowsStay...`), unless they go with
  their monitor, and then `GetByID` fails and nobody is told. A look that succeeds is
  the abstract `Look`; what it has made due (`Due`) no other step touches until it is
  told or dropped. That `Resolve` ends an open incident only is its WHERE clause.

Of the check path (`RetryAssumption`, `CertAssumption`, `ConsumerAssumption`: any
number of retries, of goroutines, and any window, lifetime and positive cooldown):

- `ChecksTellTheLastTry`, `AbortsAreCancellations`: `LoopInv`. While the loop goes on,
  every request so far ended with a transient error and one retry is left (`Retried`);
  a request fails as cancelled only under a done context, and one that begins under it
  fails that way (`ContextSeen`). Without these the properties, which speak of a check
  that is done, are not inductive.
- `OneWarningPerCooldown`, `ExpiryIsAnnounced`: `CertInv`. Marks, not warnings, are what
  a cooldown lies between: a mark is a warning that was sent or is with a goroutine.
  `Spaced` bounds the marks by the time that has passed and the age of the last one.
  `Warned` says where a warning is that has been promised: sent, lost, or in flight.

Of the accounts (`AuthAssumption`, `LimiterAssumption`, `AccountsAssumption`: finitely
many addresses and request goroutines, a burst of at least one, and `None` is no
row, role, route, answer, number or limiter; any number of browsers, of addresses and
of tokens, and any bound on requests, refills and resets):

- `AccountsTypes`: `TypeInv` adds to `TypeOK` what a request is sure of at each
  statement (`Sane`): what it came with, what it has read, that a row it has read is
  stored still, and that it has no response before the reply.
- `AddressesStayInBudget`: `LimiterInv`. For an address in the map, what was admitted
  and what its bucket has left are together within the budget; for one that is not,
  a burst less (`Budget`). A goroutine may hold a limiter of an emptied map, whose
  bucket is not in the sum: its tokens were promised by an earlier map. It cannot hold
  the one of the present map without that being in the map (`LimiterKnown`).
- `AdminsAreKept`: `AdminInv`. An update that is about to demote somebody, and whose
  count is not stale, leaves another admin. A write makes the counts of all others
  stale, so that a second one of them sets `rushed`.
- `OneTokenIsLive`, `RevocationIsFinal`: `SessionInv`. In a family that has not been
  raced, a refresh at work is the only one, and the only token that can be good is the
  one it came with, or none once it has revoked that (`Rotation`). In a family that
  was revoked with nobody at work, nobody has got to work since (`Ended`), because the
  look at the table finds its tokens revoked.
- `HonestClientsAreKept`: `HonestInv`. No two browsers have, have sent or are about to
  get tokens of one family (`Owned`), so that nobody else can revoke the family of
  an honest browser. Such a browser has one request at most; its cookie is good except
  while that request is replacing or deleting it, and the response then carries a good
  token or clears the cookie (`Good`).

Of the process (the assumptions of the scheduler):

- `EngineDrainsFirst`: a step of the process is one of the scheduler, or `Hang`, or
  leaves the engine alone (`SchedulerSteps`), so `QuietInv` of `SchedulerProofs` holds
  in the process as well, once it is shown for `Hang`. Added to it are that a consumer
  which hangs has not left (`HangInv`), that a worker without a check holds no job
  (`HandsEmpty`, of the pool), and that `main` closes in order only after `Run` has
  returned (`CloseInv`).
- `ProcessKeepsHistory`, `ProcessKeepsLedger`, `EngineInProcess`: the scheduler's
  theorems, with a consumer that may hang. It hangs after the insert, so it holds a
  check that is stored already, which `StoredInv` excludes; `StoredUnlessHung` is what
  remains true, and nobody records after that (`ConsumerAlone`).
- `RequestsAreServed`: `ServeInv`, on where `main` is when the server takes requests and
  when the database is open, for any number of connections.

Of monitors and dashboard (`MonitorAssumption`: the fields of a body are of the types
that JSON is decoded to, `None` is no value; any bodies, claims, and number of monitors
and requests; `DashboardAssumption`: response times and bounds are numbers, an uptime
has at least one part; any number of checks):

- `RowsAreValid`, `RejectionsAreClean`: `MonitorInv`. Every row satisfies the validators
  and the CHECKs and holds INTs (`RowsInv`). A request at its write has a body that was
  validated whole, interval and timeout together (`Knows`), so what it writes is valid
  whatever the row has become in between, and small enough for an INT; that leaves the
  type, the status code and a NUL to fail (`Rejected`, `NewRowParts`).
- `DeletedIsGone`: an action property. An id below `nextId` that is empty stays empty: an
  update matches no row, and the sequence hands out no id twice.
- `OwnersOnly`: an action property. `OwnInv`: a request at its write has loaded a row that
  its caller may touch (`Entitled`), and the monitor still has that owner or has gone. It
  needs that ids are not used again, else a request might write to a monitor that has
  taken the place of the one it has loaded, and that `Update` writes the owner it read.
- `DashboardTypes`: with `ChecksInv`, that every check is of a monitor that exists, which
  is what the cascade keeps, and `SumInv`, that the monitors counted, the one in hand and
  those to come are no more than the list had (`Counted`).
- `OutagesAreReal`: `AllUp`. As long as no check was down and no monitor was without
  one in the window, each uptime that is added is a whole one. Between the statements
  the rows may change; that a monitor has checks (`sum.has`) and that none is in the
  window (`excused`) are looked at apart, and a delete in between is `excused`.
- `SummariesAreSnapshots`: `SnapInv`. While nothing changes, the counts are those of the
  monitors seen so far (`Told`), the sums those of the ones averaged so far (`Added`), and
  the one in hand is one of them (`Turning`); unless one is excused, each that was
  averaged has a check in the window (`Covered`). No two checks of a monitor have the same
  time (`CheckInv`), so that there is one latest check (`LatestCheck`). The sums are folds
  over sets. What is needed of them, that adding an element adds its value (`SumRemove`),
  is an induction over finite sets; it is done without the library's induction rule, by
  a minimal counterexample, which exists because the subsets of a finite set are
  well-founded under inclusion (`SomeMinimal`).

### Only model-checked

- Liveness: `ShutdownReturns`, `ShutdownCompletes`, `MonitorsGetChecked`,
  `JobsAreRecorded`, `Returns`, `ProcessExits`. They rest on fairness, and TLAPS does
  not reason about ENABLED.
- A pool without workers (`CHECKER_POOL_SIZE` 0): the safety theorems hold for it. That
  `Run`, blocked in its first `Submit`, still stops is liveness, and no run asks it.
- What the three violated runs refute, which is false.

Every invariant, action property and refinement of the passing runs is a theorem. That no
proof depends on a bound does not make the model complete: what it leaves out is in
section 6.

## 6. Not modelled, and what is left

Not modelled:

- Password hashing, the signing of access tokens and the hashing of refresh tokens:
  cryptography, taken as perfect.
- The formats of e-mail addresses and passwords: `AuthService` begins with valid
  ones.
- Decoding and encoding of requests, CORS, headers, the request log, `/docs` and
  `/healthz`: no state, nothing that interacts.
- `GetChecks`, `GetStats`, `GetIncidents`, `List`, `Me` and the admin listings: they
  read, behind the same look at the row as `Load` or with none.
- Float rounding of averages beyond the cuts to milliseconds and hundredths.
- A negative `CHECKER_POOL_SIZE`, with which `make` panics at start.
- Deleting users: no code does it. `DeleteExpired` is called from nowhere.
- What the monitors of `MonitorService` do to the engine: `Scheduler` has its own
  `SetActive`, and deletion is an action of `IncidentService`. A change of
  `IntervalSeconds` while the process runs is in neither.

Worth doing next:

1. An abstract specification of a session (begun, rotated, ended) that `Accounts`
   implements while nothing is `raced` or `slipped`, checked by TLC first.
2. The deletion of monitors and the change of intervals under the running engine: one
   module with `Scheduler`, `MonitorService` and `IncidentService` on the same tables.
