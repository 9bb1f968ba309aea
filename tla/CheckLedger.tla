---------------------------- MODULE CheckLedger ----------------------------
(***************************************************************************)
(* What the worker pool promises about each job handed to it, without      *)
(* channels or goroutines: a job moves forward through its stages, is      *)
(* handed to the consumer at most once, and is thrown away only when the   *)
(* context has been cancelled.                                             *)
(*                                                                         *)
(* The promises are those of the comments of internal/checker/pool.go:     *)
(* Submit is backpressured but accepts every job, a worker produces one    *)
(* result per job, Shutdown returns only when no check is in flight.       *)
(***************************************************************************)
CONSTANT Job        \* the jobs that may be submitted, each at most once

VARIABLES
    stage,          \* how far each job has got
    cancelled,      \* the context shared by Submit and the workers is done
    closed          \* Shutdown has returned

vars == <<stage, cancelled, closed>>

Stage == {"idle", "queued", "running", "completed", "delivered", "lost"}

TypeOK ==
    /\ stage \in [Job -> Stage]
    /\ cancelled \in BOOLEAN
    /\ closed \in BOOLEAN

Init ==
    /\ stage = [j \in Job |-> "idle"]
    /\ cancelled = FALSE
    /\ closed = FALSE

Move(j, from, to) ==
    /\ stage[j] = from
    /\ stage' = [stage EXCEPT ![j] = to]
    /\ UNCHANGED <<cancelled, closed>>

Accept(j)  == ~closed /\ Move(j, "idle", "queued")
Run(j)     == ~closed /\ Move(j, "queued", "running")
Complete(j) ==
    /\ ~closed
    /\ \/ Move(j, "running", "completed")
       \/ cancelled /\ Move(j, "queued", "completed")
Deliver(j) == Move(j, "completed", "delivered")
Lose(j)    == cancelled /\ ~closed /\ Move(j, "completed", "lost")

Cancel ==
    /\ ~cancelled
    /\ cancelled' = TRUE
    /\ UNCHANGED <<stage, closed>>

\* Shutdown returns when no check is running; without a cancellation it has
\* also worked off the queue.
Close ==
    /\ ~closed
    /\ \A j \in Job : stage[j] # "running"
    /\ cancelled \/ \A j \in Job : stage[j] # "queued"
    /\ closed' = TRUE
    /\ UNCHANGED <<stage, cancelled>>

Next ==
    \/ Cancel
    \/ Close
    \/ \E j \in Job : Accept(j) \/ Run(j) \/ Complete(j) \/ Deliver(j) \/ Lose(j)

Spec == Init /\ [][Next]_vars
=============================================================================
