------------------------------- MODULE Process -------------------------------
(***************************************************************************)
(* main (src/cmd/api/main.go): configuration, database pool, the scheduler *)
(* of module Scheduler in a goroutine, the HTTP server, and what happens   *)
(* on a signal.  The scheduler shares ctx with main and drains by itself;  *)
(* main waits for the requests and for the scheduler, but only so long,    *)
(* and closes the database pool.  Notify may never return: smtp.SendMail   *)
(* has no timeout (email.go:26-49).                                        *)
(***************************************************************************)
EXTENDS Scheduler

CONSTANT Conns        \* connections of the HTTP server

VARIABLES
    main,             \* where main is
    server,           \* the HTTP server
    handler,          \* what the request of each connection is at
    dbOpen,           \* dbPool can be used
    hung,             \* the consumer is in a Notify that does not return
    forced,           \* history: one of the two limits ran out
    failed            \* history: os.Exit(1)

mainVars == <<main, server, handler, dbOpen, hung, forced, failed>>
procVars == <<vars, mainVars>>

ProcInit ==
    /\ Init
    /\ main = "load" /\ server = "new" /\ handler = [c \in Conns |-> "none"]
    /\ dbOpen = FALSE /\ hung = FALSE /\ forced = FALSE /\ failed = FALSE

Running == main \notin {"load", "connect", "exited"}

\* os.Exit(1): no deferred call runs.
Exit ==
    /\ main' = "exited" /\ failed' = TRUE
    /\ UNCHANGED <<server, handler, dbOpen, hung, forced>>

-----------------------------------------------------------------------------
(* Start.                                                                  *)

LoadConfig ==
    /\ main = "load"
    /\ \/ main' = "connect"
          /\ UNCHANGED <<server, handler, dbOpen, hung, forced, failed>>
       \/ Exit
    /\ UNCHANGED vars

\* NewPool pings the database under ctx; then Run and the server are started.
NewPool ==
    /\ main = "connect"
    /\ \/ /\ ~cancelled
          /\ main' = "serve" /\ server' = "listening" /\ dbOpen' = TRUE
          /\ UNCHANGED <<handler, hung, forced, failed>>
       \/ Exit
    /\ UNCHANGED vars

-----------------------------------------------------------------------------
(* The server and its requests.                                            *)

\* ListenAndServe fails: the port is taken, or Accept cannot go on.
ListenFails ==
    /\ main = "serve" /\ server = "listening"
    /\ server' = "failed"
    /\ UNCHANGED <<vars, main, handler, dbOpen, hung, forced, failed>>

Request(c, from, to) ==
    /\ handler[c] = from /\ handler' = [handler EXCEPT ![c] = to]
    /\ UNCHANGED <<vars, main, server, dbOpen, hung, forced, failed>>

Accept(c) == server = "listening" /\ Request(c, "none", "open")

\* A connection of the pool is acquired, and given back.
Query(c) == dbOpen /\ Request(c, "open", "query")
QueryDone(c) == Request(c, "query", "open")

Finish(c) == Request(c, "open", "none")

-----------------------------------------------------------------------------
(* The end.                                                                *)

\* `case err := <-serverErrors`.
ServerError == main = "serve" /\ server = "failed" /\ Exit /\ UNCHANGED vars

\* `case <-ctx.Done()`: srv.Shutdown takes no new requests ...
Shutdown ==
    /\ main = "serve" /\ cancelled
    /\ main' = "shutdown"
    /\ server' = IF server = "failed" THEN "failed" ELSE "closing"
    /\ UNCHANGED <<vars, handler, dbOpen, hung, forced, failed>>

\* A fault that RequestsKeepTheirDatabase excludes: Shutdown in the background.
ShutdownAtOnce ==
    /\ main = "shutdown"
    /\ main' = "await" /\ server' = "closed"
    /\ UNCHANGED <<vars, handler, dbOpen, hung, forced, failed>>

\* ... until those under way are done ...
ShutdownDone ==
    /\ main = "shutdown" /\ \A c \in Conns : handler[c] = "none"
    /\ main' = "await" /\ server' = "closed"
    /\ UNCHANGED <<vars, handler, dbOpen, hung, forced, failed>>

\* ... or for 15 s; srv.Close cuts their connections, their handlers go on.
ShutdownTimesOut ==
    /\ main = "shutdown" /\ \E c \in Conns : handler[c] # "none"
    /\ main' = "await" /\ server' = "closed" /\ forced' = TRUE
    /\ UNCHANGED <<vars, handler, dbOpen, hung, failed>>

\* A fault that EngineKeepsItsDatabase excludes: main does not wait for Run.
ScheduleForgotten ==
    /\ main = "await"
    /\ main' = "close" /\ dbOpen' = FALSE
    /\ UNCHANGED <<vars, server, handler, hung, forced, failed>>

\* `case <-schedDone`; main returns and dbPool.Close() begins ...
SchedulerDrained ==
    /\ main = "await" /\ sched = "stopped"
    /\ main' = "close" /\ dbOpen' = FALSE
    /\ UNCHANGED <<vars, server, handler, hung, forced, failed>>

\* A fault that ProcessExits excludes: a wait without a limit.
WaitForever == FALSE

\* ... or ten seconds.
DrainTimesOut ==
    /\ main = "await" /\ sched # "stopped"
    /\ main' = "close" /\ dbOpen' = FALSE /\ forced' = TRUE
    /\ UNCHANGED <<vars, server, handler, hung, failed>>

\* Close waits for the connections that are in use.
CloseDone ==
    /\ main = "close" /\ \A c \in Conns : handler[c] # "query"
    /\ main' = "exited"
    /\ UNCHANGED <<vars, server, handler, dbOpen, hung, forced, failed>>

-----------------------------------------------------------------------------
(* The scheduler's goroutines, with or without a database.                 *)

\* Record has inserted the row, if it could, and Notify does not return.
Hang ==
    /\ Running /\ consumer = "record" /\ ~hung
    /\ persisted' = IF cancelled \/ ~dbOpen THEN persisted ELSE persisted \cup {held}
    /\ hung' = TRUE
    /\ UNCHANGED <<poolVars, clockVars, active, sched, roundVars, consumerVars>>
    /\ UNCHANGED <<main, server, handler, dbOpen, forced, failed>>

Signal == main # "exited" /\ Cancel /\ UNCHANGED mainVars

RunStep == Running /\ (Fire \/ Run) /\ UNCHANGED mainVars
WorkerStep(w) == Running /\ Worker(w) /\ UNCHANGED mainVars
ConsumerStep == Running /\ ~hung /\ Consumer /\ UNCHANGED mainVars

MainStep ==
    \/ LoadConfig \/ NewPool \/ ServerError \/ Shutdown
    \/ ShutdownDone \/ ShutdownTimesOut
    \/ SchedulerDrained \/ DrainTimesOut \/ CloseDone

ProcNext ==
    \/ Signal \/ MainStep
    \/ ListenFails
    \/ \E c \in Conns : Running /\ (Accept(c) \/ Query(c) \/ QueryDone(c) \/ Finish(c))
    \/ RunStep \/ (\E w \in Workers : WorkerStep(w)) \/ ConsumerStep \/ Hang

\* main runs, its two timers among it, and a query comes back.  Nothing is assumed of
\* requests, of Notify, nor of the scheduler.
ProcSpec ==
    /\ ProcInit /\ [][ProcNext]_procVars
    /\ WF_procVars(MainStep)
    /\ \A c \in Conns : WF_procVars(Running /\ QueryDone(c))

-----------------------------------------------------------------------------
(* Properties.                                                             *)

ClosedInOrder == main \in {"close", "exited"} /\ ~failed /\ ~forced

\* "We don't want main() to return, and defer dbPool.Close() to fire, while a worker
\* might still be mid-flight on a check or the result consumer is still writing"
\* (main.go:196-203): unless one of the limits ran out, the engine is at rest by then,
\* and no check that it has carried out is on its way.
EngineKeepsItsDatabase ==
    ClosedInOrder =>
        /\ sched = "stopped" /\ consumer = "exited" /\ ~hung
        /\ results = <<>> /\ \A w \in Workers : task[w] = NoJob

\* Shutdown "lets in-flight ones finish" (main.go:164-168): a request that was taken
\* has a database until it is answered, unless it outlived the 15 s.
RequestsKeepTheirDatabase ==
    \A c \in Conns : handler[c] # "none" /\ ~dbOpen => forced

\* "A genuinely stuck shutdown still lets the process exit rather than hang forever"
\* (main.go:202-203), whatever hangs: a request, or the consumer in a notification.
ProcessExits == cancelled ~> main = "exited"
=============================================================================
