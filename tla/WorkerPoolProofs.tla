-------------------------- MODULE WorkerPoolProofs --------------------------
(***************************************************************************)
(* Proofs about WorkerPool, for every number of workers, jobs, buffer size *)
(* and set of statuses.                                                    *)
(***************************************************************************)
EXTENDS WorkerPool, SequenceTheorems, FiniteSetTheorems, TLAPS

\* The buffers have a size.
LEMMA CapacityType == Capacity \in Nat
BY PoolAssumption, FS_CardinalityType DEF Capacity

\* A worker in the middle of a check, or about to send one, has its job.
HoldersHaveJobs == \A w \in Workers : pc[w] \in {"check", "send"} => task[w] \in Job

\* The type invariant is inductive only together with HoldersHaveJobs: what
\* SendResult and DropResult put into a channel or a history is a check of
\* some job.
TypeInv == TypeOK /\ HoldersHaveJobs

\* Taking the head off a channel and adding to its tail keep its type; stated
\* as the steps below need them.
LEMMA TailOfChannel ==
    ASSUME NEW S, NEW s \in Seq(S), s # <<>>
    PROVE  /\ Head(s) \in S
           /\ Tail(s) \in Seq(S)
           /\ Len(Tail(s)) <= Len(s)
           /\ Len(s) \in Nat
BY HeadTailProperties, LenProperties, EmptySeq

LEMMA AppendToChannel ==
    ASSUME NEW S, NEW s \in Seq(S), NEW e \in S,
           Capacity \in Nat, Len(s) < Capacity
    PROVE  Append(s, e) \in Seq(S) /\ Len(Append(s, e)) <= Capacity
BY LenProperties, AppendProperties

LEMMA TypeInit == Init => TypeInv
<1> SUFFICES ASSUME Init PROVE TypeInv
  OBVIOUS
<1>1. Capacity >= 0
  BY CapacityType
<1>2. <<>> \in Seq(Job) /\ <<>> \in Seq(Check) /\ Len(<<>>) = 0
  BY EmptySeq
<1>3. QED
  BY <1>1, <1>2 DEF Init, TypeInv, TypeOK, HoldersHaveJobs, Status, Check

LEMMA TypeStep == TypeInv /\ [Next]_vars => TypeInv'
<1> SUFFICES ASSUME TypeInv, [Next]_vars PROVE TypeInv'
  OBVIOUS
<1> USE DEF TypeInv, TypeOK, HoldersHaveJobs, channels, workers, history
<1>c. Capacity \in Nat
  BY CapacityType
<1>1. CASE Cancel
  BY <1>1 DEF Cancel
<1>2. ASSUME NEW j \in Job, Submit(j) PROVE TypeInv'
  <2>1. Append(jobs, j) \in Seq(Job) /\ Len(Append(jobs, j)) <= Capacity
    BY <1>c, <1>2, AppendToChannel DEF Submit
  <2>2. QED
    BY <2>1, <1>2 DEF Submit
<1>3. ASSUME NEW w \in Workers, Worker(w) PROVE TypeInv'
  <2>1. CASE TakeJob(w) \/ TakeJobLate(w)
    <3>1. /\ Head(jobs) \in Job /\ Tail(jobs) \in Seq(Job)
          /\ Len(Tail(jobs)) <= Len(jobs) /\ Len(jobs) \in Nat
      BY <2>1, TailOfChannel DEF TakeJob, TakeJobLate
    <3>2. Len(Tail(jobs)) <= Capacity
      BY <3>1, <1>c, LenProperties
    <3>3. QED
      BY <2>1, <3>1, <3>2 DEF TakeJob, TakeJobLate, Status
  <2>2. CASE FinishCheck(w)
    BY <2>2 DEF FinishCheck, Status
  <2>3. CASE SendResult(w)
    <3>1. CheckOf(w) \in Check
      BY <2>3 DEF SendResult, CheckOf, Check
    <3>2. /\ Append(results, CheckOf(w)) \in Seq(Check)
          /\ Len(Append(results, CheckOf(w))) <= Capacity
      BY <1>c, <2>3, <3>1, AppendToChannel DEF SendResult
    <3>3. QED
      BY <2>3, <3>2 DEF SendResult
  <2>4. CASE DropResult(w)
    <3>1. CheckOf(w) \in Check
      BY <2>4 DEF DropResult, CheckOf, Check
    <3>2. QED
      BY <2>4, <3>1 DEF DropResult
  <2>5. CASE ExitOnClose(w)
    BY <2>5 DEF ExitOnClose
  <2>6. QED
    BY <1>3, <2>1, <2>2, <2>3, <2>4, <2>5 DEF Worker
<1>4. CASE Receive
  <2>1. /\ Head(results) \in Check /\ Tail(results) \in Seq(Check)
        /\ Len(Tail(results)) <= Len(results) /\ Len(results) \in Nat
    BY <1>4, TailOfChannel DEF Receive
  <2>2. Len(Tail(results)) <= Capacity
    BY <2>1, <1>c, LenProperties
  <2>3. QED
    BY <1>4, <2>1, <2>2 DEF Receive
<1>5. CASE CloseJobs
  BY <1>5 DEF CloseJobs
<1>6. CASE CloseResults
  BY <1>6 DEF CloseResults
<1>7. CASE UNCHANGED vars
  BY <1>7 DEF vars, Capacity
<1>8. QED
  BY <1>1, <1>2, <1>3, <1>4, <1>5, <1>6, <1>7 DEF Next

\* The channels never hold more than their buffers, in every behaviour of the
\* pool and for every number of workers.
THEOREM TypeCorrect == Spec => []TypeOK
<1>1. TypeInv => TypeOK
  BY DEF TypeInv
<1>2. QED
  BY <1>1, TypeInit, TypeStep, PTL DEF Spec

-----------------------------------------------------------------------------
(* Only a worker with a job on its hands has one in task.                  *)

HandsEmpty == \A w \in Workers : pc[w] \in {"range", "exited"} => task[w] = NoJob

LEMMA HandsInit == Init => HandsEmpty
BY DEF Init, HandsEmpty

LEMMA HandsStep == TypeInv /\ HandsEmpty /\ [Next]_vars => HandsEmpty'
<1> SUFFICES ASSUME TypeInv, HandsEmpty, [Next]_vars PROVE HandsEmpty'
  OBVIOUS
<1>1. /\ pc \in [Workers -> {"range", "check", "send", "exited"}]
      /\ task \in [Workers -> Job \cup {NoJob}]
  BY DEF TypeInv, TypeOK
<1>2. CASE UNCHANGED workers
  BY <1>2 DEF workers, HandsEmpty
<1>3. ASSUME NEW w \in Workers, Worker(w) PROVE HandsEmpty'
  BY <1>1, <1>3
     DEF HandsEmpty, Worker, TakeJob, TakeJobLate, FinishCheck, SendResult, DropResult,
         ExitOnClose
<1>4. QED
  BY <1>2, <1>3
     DEF Next, vars, Cancel, Submit, Receive, CloseJobs, CloseResults

-----------------------------------------------------------------------------
(* A worker leaves for one of two reasons, and neither goes away: ctx is   *)
(* done, or the jobs channel is closed and was worked off.  A check is     *)
(* dropped for the first reason only.                                      *)

ExitInv ==
    \A w \in Workers : pc[w] = "exited" => cancelled \/ (jobsClosed /\ jobs = <<>>)

LossInv == lost # {} => cancelled

ControlInv == TypeInv /\ ExitInv /\ LossInv /\ ClosedIsQuiet

LEMMA ControlInit == Init => ControlInv
BY TypeInit DEF Init, ControlInv, ExitInv, LossInv, ClosedIsQuiet

LEMMA ControlStep == ControlInv /\ [Next]_vars => ControlInv'
<1> SUFFICES ASSUME ControlInv, [Next]_vars PROVE ControlInv'
  OBVIOUS
<1>t. TypeInv /\ TypeInv'
  BY TypeStep DEF ControlInv
<1> SUFFICES ExitInv' /\ LossInv' /\ ClosedIsQuiet'
  BY <1>t DEF ControlInv
<1>i. ExitInv /\ LossInv /\ ClosedIsQuiet /\ pc \in [Workers -> {"range", "check", "send", "exited"}]
  BY <1>t DEF ControlInv, TypeInv, TypeOK
<1> USE <1>i DEF ExitInv, LossInv, ClosedIsQuiet, AllExited, channels, workers, history
<1>1. CASE Cancel
  BY <1>1 DEF Cancel
<1>2. ASSUME NEW j \in Job, Submit(j) PROVE ExitInv' /\ LossInv' /\ ClosedIsQuiet'
  BY <1>2 DEF Submit
<1>3. ASSUME NEW w \in Workers, Worker(w) PROVE ExitInv' /\ LossInv' /\ ClosedIsQuiet'
  <2>1. CASE TakeJob(w)
    BY <2>1 DEF TakeJob
  <2>2. CASE TakeJobLate(w)
    BY <2>2 DEF TakeJobLate
  <2>3. CASE FinishCheck(w)
    BY <2>3 DEF FinishCheck
  <2>4. CASE SendResult(w)
    BY <2>4 DEF SendResult
  <2>5. CASE DropResult(w)
    BY <2>5 DEF DropResult
  <2>6. CASE ExitOnClose(w)
    BY <2>6 DEF ExitOnClose
  <2>7. QED
    BY <1>3, <2>1, <2>2, <2>3, <2>4, <2>5, <2>6 DEF Worker
<1>4. CASE Receive
  BY <1>4 DEF Receive
<1>5. CASE CloseJobs
  BY <1>5 DEF CloseJobs
<1>6. CASE CloseResults
  BY <1>6 DEF CloseResults
<1>7. CASE UNCHANGED vars
  BY <1>7 DEF vars
<1>8. QED
  BY <1>1, <1>2, <1>3, <1>4, <1>5, <1>6, <1>7 DEF Next

LEMMA ControlAlways == Spec => []ControlInv
BY ControlInit, ControlStep, PTL DEF Spec

\* No worker is left that could send on the closed results channel, however the
\* calls of Submit, Shutdown and the cancellation interleave.
THEOREM SendNeverPanics == Spec => []ClosedIsQuiet
<1>1. ControlInv => ClosedIsQuiet
  BY DEF ControlInv
<1>2. QED
  BY <1>1, ControlAlways, PTL

\* The pool loses no worker before it is cancelled or shut down.
THEOREM WorkersStay == Spec => []CapacityPreserved
<1>1. ControlInv => CapacityPreserved
  BY DEF ControlInv, ExitInv, CapacityPreserved
<1>2. QED
  BY <1>1, ControlAlways, PTL

\* Without workers there are no buffers either, so nothing is ever queued.
LEMMA NoWorkersNoJobs == TypeOK /\ Workers = {} => jobs = <<>>
<1> SUFFICES ASSUME TypeOK, Workers = {} PROVE jobs = <<>>
  OBVIOUS
<1>1. Cardinality(Workers) = 0
  BY FS_EmptySet
<1>2. Capacity = 0
  BY <1>1, PoolAssumption DEF Capacity
<1>3. jobs \in Seq(Job) /\ Len(jobs) <= 0
  BY <1>2 DEF TypeOK
<1>4. QED
  BY <1>3, EmptySeq

\* A Shutdown without cancellation loses no job: with every worker gone and the
\* channel worked off, what was submitted is in results or was received.
THEOREM NothingLostWithoutCancel == Spec => []ShutdownIsLossless
<1>1. ASSUME ControlInv, resultsClosed, ~cancelled, NEW j \in Job, Accepted(j)
      PROVE  Reported(j) \/ Delivered(j)
  <2> USE <1>1 DEF ControlInv
  <2>1. AllExited
    BY DEF ClosedIsQuiet
  <2>2. jobs = <<>>
    <3>1. CASE Workers = {}
      BY <3>1, NoWorkersNoJobs DEF TypeInv
    <3>2. CASE Workers # {}
      BY <2>1, <3>2 DEF AllExited, ExitInv
    <3>3. QED
      BY <3>1, <3>2
  <2>3. ~Queued(j)
    BY <2>2 DEF Queued
  <2>4. \A w \in Workers : ~HeldBy(w, j)
    BY <2>1 DEF AllExited, HeldBy
  <2>5. ~Lost(j)
    BY DEF Lost, LossInv
  <2>6. QED
    BY <2>3, <2>4, <2>5 DEF Accepted
<1>2. ControlInv => ShutdownIsLossless
  BY <1>1 DEF ShutdownIsLossless
<1>3. QED
  BY <1>2, ControlAlways, PTL

-----------------------------------------------------------------------------
(* A job is in one place at a time: each action moves one job from one     *)
(* place to the next; a lemma per action says which, and the invariant     *)
(* follows from the lemmas.                                                *)

\* Indices of a channel after a send and after a receive.
LEMMA AppendIndex ==
    ASSUME NEW S, NEW s \in Seq(S), NEW e \in S
    PROVE  /\ Len(s) \in Nat
           /\ DOMAIN s = 1..Len(s)
           /\ DOMAIN Append(s, e) = 1..(Len(s) + 1)
           /\ \A i \in 1..Len(s) : Append(s, e)[i] = s[i]
           /\ Append(s, e)[Len(s) + 1] = e
BY AppendProperties, LenProperties

LEMMA TailIndex ==
    ASSUME NEW S, NEW s \in Seq(S), s # <<>>
    PROVE  /\ Len(s) \in Nat \ {0}
           /\ DOMAIN s = 1..Len(s)
           /\ DOMAIN Tail(s) = 1..(Len(s) - 1)
           /\ \A i \in 1..(Len(s) - 1) : Tail(s)[i] = s[i + 1]
           /\ Head(s) = s[1]
BY HeadTailProperties, LenProperties, EmptySeq

\* What is in a channel after a send and after a receive.  f says what of an
\* element counts: the job itself, or the job of a check.
LEMMA AppendMembers ==
    ASSUME NEW S, NEW s \in Seq(S), NEW e \in S, NEW f,
           \A i, k \in DOMAIN s : f[s[i]] = f[s[k]] => i = k,
           \A i \in DOMAIN s : f[s[i]] # f[e]
    PROVE  LET t == Append(s, e)
           IN  /\ \A i, k \in DOMAIN t : f[t[i]] = f[t[k]] => i = k
               /\ \A x : (\E i \in DOMAIN t : f[t[i]] = x)
                            <=> (\E i \in DOMAIN s : f[s[i]] = x) \/ x = f[e]
<1> DEFINE t == Append(s, e)
           n == Len(s)
<1>1. /\ n \in Nat /\ DOMAIN s = 1..n /\ DOMAIN t = 1..(n + 1)
      /\ \A i \in 1..n : t[i] = s[i]
      /\ t[n + 1] = e
  BY AppendIndex
<1> HIDE DEF t, n
<1>2. \A i \in 1..(n + 1) : i \in 1..n \/ i = n + 1
  BY <1>1
<1>3. \A i, k \in DOMAIN t : f[t[i]] = f[t[k]] => i = k
  BY <1>1, <1>2
<1>4. ASSUME NEW x
      PROVE  (\E i \in DOMAIN t : f[t[i]] = x)
                <=> (\E i \in DOMAIN s : f[s[i]] = x) \/ x = f[e]
  <2>1. n + 1 \in 1..(n + 1) /\ \A i \in 1..n : i \in 1..(n + 1)
    BY <1>1
  <2>2. QED
    BY <1>1, <1>2, <2>1
<1>5. QED
  BY <1>3, <1>4 DEF t

LEMMA TailMembers ==
    ASSUME NEW S, NEW s \in Seq(S), s # <<>>, NEW f,
           \A i, k \in DOMAIN s : f[s[i]] = f[s[k]] => i = k
    PROVE  LET t == Tail(s)
           IN  /\ \A i, k \in DOMAIN t : f[t[i]] = f[t[k]] => i = k
               /\ \A x : (\E i \in DOMAIN t : f[t[i]] = x)
                            <=> (\E i \in DOMAIN s : f[s[i]] = x) /\ x # f[Head(s)]
               /\ \E i \in DOMAIN s : s[i] = Head(s)
<1> DEFINE t == Tail(s)
           n == Len(s)
<1>1. /\ n \in Nat \ {0} /\ DOMAIN s = 1..n /\ DOMAIN t = 1..(n - 1)
      /\ \A i \in 1..(n - 1) : t[i] = s[i + 1]
      /\ Head(s) = s[1]
  BY TailIndex
<1> HIDE DEF t, n
<1>2. /\ \A i \in 1..(n - 1) : i + 1 \in 1..n /\ i + 1 # 1
      /\ \A i \in 1..n : i = 1 \/ (i - 1 \in 1..(n - 1) /\ (i - 1) + 1 = i)
      /\ 1 \in 1..n
  BY <1>1
<1>3. \A i, k \in DOMAIN t : f[t[i]] = f[t[k]] => i = k
  <2> SUFFICES ASSUME NEW i \in 1..(n - 1), NEW k \in 1..(n - 1), f[t[i]] = f[t[k]]
               PROVE  i = k
    BY <1>1
  <2>1. f[s[i + 1]] = f[s[k + 1]]
    BY <1>1
  <2>2. i + 1 = k + 1
    BY <1>1, <1>2, <2>1
  <2>3. QED
    BY <1>1, <2>2
<1>4. ASSUME NEW x
      PROVE  (\E i \in DOMAIN t : f[t[i]] = x)
                <=> (\E i \in DOMAIN s : f[s[i]] = x) /\ x # f[Head(s)]
  <2>1. ASSUME NEW i \in DOMAIN t, f[t[i]] = x
        PROVE  (\E k \in DOMAIN s : f[s[k]] = x) /\ x # f[Head(s)]
    BY <1>1, <1>2, <2>1
  <2>2. ASSUME NEW i \in DOMAIN s, f[s[i]] = x, x # f[Head(s)]
        PROVE  \E k \in DOMAIN t : f[t[k]] = x
    <3>1. i # 1
      BY <1>1, <2>2
    <3>2. i - 1 \in DOMAIN t /\ t[i - 1] = s[i]
      BY <1>1, <1>2, <3>1
    <3>3. QED
      BY <2>2, <3>2
  <2>3. QED
    BY <2>1, <2>2
<1>5. QED
  BY <1>1, <1>2, <1>3, <1>4 DEF t

-----------------------------------------------------------------------------
(* Which job each action moves, and where to.                              *)

\* What the effect lemmas need to know of a state.
PlacesInv == TypeInv /\ SinglePlace

\* The places of jobs other than the channels of a step depend on these alone.
LEMMA SamePlaces ==
    /\ UNCHANGED jobs      => \A x \in Job : Queued(x)' = Queued(x)
    /\ UNCHANGED <<pc, task>> =>
          \A w \in Workers, x \in Job : HeldBy(w, x)' = HeldBy(w, x)
    /\ UNCHANGED results   => \A x \in Job : Reported(x)' = Reported(x)
    /\ UNCHANGED delivered => \A x \in Job : Delivered(x)' = Delivered(x)
    /\ UNCHANGED lost      => \A x \in Job : Lost(x)' = Lost(x)
BY DEF Queued, HeldBy, Reported, Delivered, Lost

LEMMA JobsAppend ==
    ASSUME TypeInv, JobsDistinct, NEW j \in Job, ~Queued(j),
           jobs' = Append(jobs, j)
    PROVE  JobsDistinct' /\ \A x \in Job : Queued(x)' <=> Queued(x) \/ x = j
<1> DEFINE f == [x \in Job |-> x]
<1>1. jobs \in Seq(Job) /\ Append(jobs, j) \in Seq(Job)
  BY AppendProperties DEF TypeInv, TypeOK
<1>2. /\ \A i \in DOMAIN jobs : jobs[i] \in Job
      /\ \A i \in DOMAIN Append(jobs, j) : Append(jobs, j)[i] \in Job
  BY <1>1, LenProperties, ElementOfSeq
<1>3. /\ \A i, k \in DOMAIN jobs : f[jobs[i]] = f[jobs[k]] => i = k
      /\ \A i \in DOMAIN jobs : f[jobs[i]] # f[j]
  BY <1>2 DEF JobsDistinct, Queued
<1> HIDE DEF f
<1>4. LET t == Append(jobs, j)
      IN  /\ \A i, k \in DOMAIN t : f[t[i]] = f[t[k]] => i = k
          /\ \A x : (\E i \in DOMAIN t : f[t[i]] = x)
                       <=> (\E i \in DOMAIN jobs : f[jobs[i]] = x) \/ x = f[j]
  BY <1>1, <1>3, AppendMembers
<1>5. QED
  BY <1>2, <1>4 DEF f, JobsDistinct, Queued

LEMMA JobsTail ==
    ASSUME TypeInv, JobsDistinct, jobs # <<>>, jobs' = Tail(jobs)
    PROVE  /\ JobsDistinct' /\ Head(jobs) \in Job /\ Queued(Head(jobs))
           /\ \A x \in Job : Queued(x)' <=> Queued(x) /\ x # Head(jobs)
<1> DEFINE f == [x \in Job |-> x]
<1>1. jobs \in Seq(Job) /\ Tail(jobs) \in Seq(Job) /\ Head(jobs) \in Job
  BY HeadTailProperties DEF TypeInv, TypeOK
<1>2. /\ \A i \in DOMAIN jobs : jobs[i] \in Job
      /\ \A i \in DOMAIN Tail(jobs) : Tail(jobs)[i] \in Job
  BY <1>1, LenProperties, ElementOfSeq
<1>3. \A i, k \in DOMAIN jobs : f[jobs[i]] = f[jobs[k]] => i = k
  BY <1>2 DEF JobsDistinct
<1> HIDE DEF f
<1>4. LET t == Tail(jobs)
      IN  /\ \A i, k \in DOMAIN t : f[t[i]] = f[t[k]] => i = k
          /\ \A x : (\E i \in DOMAIN t : f[t[i]] = x)
                       <=> (\E i \in DOMAIN jobs : f[jobs[i]] = x) /\ x # f[Head(jobs)]
          /\ \E i \in DOMAIN jobs : jobs[i] = Head(jobs)
  BY <1>1, <1>3, TailMembers
<1>5. QED
  BY <1>1, <1>2, <1>4 DEF f, JobsDistinct, Queued

LEMMA ResultsAppend ==
    ASSUME TypeInv, ResultsDistinct, NEW c \in Check, ~Reported(c.job),
           results' = Append(results, c)
    PROVE  ResultsDistinct' /\ \A x \in Job : Reported(x)' <=> Reported(x) \/ x = c.job
<1> DEFINE f == [d \in Check |-> d.job]
<1>1. results \in Seq(Check) /\ Append(results, c) \in Seq(Check)
  BY AppendProperties DEF TypeInv, TypeOK
<1>2. /\ \A i \in DOMAIN results : results[i] \in Check
      /\ \A i \in DOMAIN Append(results, c) : Append(results, c)[i] \in Check
  BY <1>1, LenProperties, ElementOfSeq
<1>3. /\ \A i, k \in DOMAIN results : f[results[i]] = f[results[k]] => i = k
      /\ \A i \in DOMAIN results : f[results[i]] # f[c]
  BY <1>2 DEF ResultsDistinct, Reported
<1> HIDE DEF f
<1>4. LET t == Append(results, c)
      IN  /\ \A i, k \in DOMAIN t : f[t[i]] = f[t[k]] => i = k
          /\ \A x : (\E i \in DOMAIN t : f[t[i]] = x)
                       <=> (\E i \in DOMAIN results : f[results[i]] = x) \/ x = f[c]
  BY <1>1, <1>3, AppendMembers
<1>5. QED
  BY <1>2, <1>4 DEF f, ResultsDistinct, Reported

LEMMA ResultsTail ==
    ASSUME TypeInv, ResultsDistinct, results # <<>>, results' = Tail(results)
    PROVE  /\ ResultsDistinct' /\ Head(results) \in Check /\ Reported(Head(results).job)
           /\ \A x \in Job : Reported(x)' <=> Reported(x) /\ x # Head(results).job
<1> DEFINE f == [d \in Check |-> d.job]
<1>1. results \in Seq(Check) /\ Tail(results) \in Seq(Check) /\ Head(results) \in Check
  BY HeadTailProperties DEF TypeInv, TypeOK
<1>2. /\ \A i \in DOMAIN results : results[i] \in Check
      /\ \A i \in DOMAIN Tail(results) : Tail(results)[i] \in Check
  BY <1>1, LenProperties, ElementOfSeq
<1>3. \A i, k \in DOMAIN results : f[results[i]] = f[results[k]] => i = k
  BY <1>2 DEF ResultsDistinct
<1> HIDE DEF f
<1>4. LET t == Tail(results)
      IN  /\ \A i, k \in DOMAIN t : f[t[i]] = f[t[k]] => i = k
          /\ \A x : (\E i \in DOMAIN t : f[t[i]] = x)
                       <=> (\E i \in DOMAIN results : f[results[i]] = x)
                             /\ x # f[Head(results)]
          /\ \E i \in DOMAIN results : results[i] = Head(results)
  BY <1>1, <1>3, TailMembers
<1>5. QED
  BY <1>1, <1>2, <1>4 DEF f, ResultsDistinct, Reported

-----------------------------------------------------------------------------
(* The invariant, action by action.                                        *)

LEMMA SubmitMoves ==
    ASSUME PlacesInv, NEW j \in Job, Submit(j)
    PROVE  /\ SinglePlace'
           /\ ~Accepted(j)
           /\ \A x \in Job : Queued(x)' <=> Queued(x) \/ x = j
<1> USE DEF PlacesInv, SinglePlace
<1>1. jobs' = Append(jobs, j) /\ ~Accepted(j)
  BY DEF Submit
<1>2. ~Queued(j) /\ ~Held(j) /\ ~Reported(j) /\ ~Delivered(j) /\ ~Lost(j)
  BY <1>1 DEF Accepted, Held
<1>3. JobsDistinct' /\ \A x \in Job : Queued(x)' <=> Queued(x) \/ x = j
  BY <1>1, <1>2, JobsAppend
<1>4. UNCHANGED <<results, pc, task, delivered, lost>>
  BY DEF Submit, workers, history
<1>5. ResultsDistinct' /\ HoldersDistinct' /\ HistoryDistinct'
  BY <1>4 DEF ResultsDistinct, HoldersDistinct, HeldBy, HistoryDistinct
<1>6. \A x \in Job : /\ Held(x)' <=> Held(x)
                     /\ Reported(x)' <=> Reported(x)
                     /\ Delivered(x)' <=> Delivered(x)
                     /\ Lost(x)' <=> Lost(x)
  BY <1>4 DEF Held, HeldBy, Reported, Delivered, Lost
<1>7. PlacesDisjoint'
  BY <1>2, <1>3, <1>6 DEF PlacesDisjoint
<1>8. QED
  BY <1>1, <1>3, <1>5, <1>7

LEMMA TakeMoves ==
    ASSUME PlacesInv, NEW w \in Workers, TakeJob(w) \/ TakeJobLate(w)
    PROVE  LET j == Head(jobs)
           IN  /\ SinglePlace'
               /\ j \in Job /\ Queued(j)
               /\ \A x \in Job : Queued(x)' <=> Queued(x) /\ x # j
               /\ \A v \in Workers, x \in Job :
                     HeldBy(v, x)' <=> HeldBy(v, x) \/ (v = w /\ x = j)
<1> DEFINE j == Head(jobs)
<1> USE DEF PlacesInv, SinglePlace
<1>1. /\ jobs # <<>> /\ jobs' = Tail(jobs)
      /\ pc[w] = "range" /\ task' = [task EXCEPT ![w] = j]
      /\ pc' = [pc EXCEPT ![w] = "check"] \/ pc' = [pc EXCEPT ![w] = "send"]
  BY DEF TakeJob, TakeJobLate
<1>2. /\ JobsDistinct' /\ j \in Job /\ Queued(j)
      /\ \A x \in Job : Queued(x)' <=> Queued(x) /\ x # j
  BY <1>1, JobsTail
<1>3. UNCHANGED <<results, delivered, lost>>
  BY DEF TakeJob, TakeJobLate, history
<1>4. \A v \in Workers, x \in Job :
          HeldBy(v, x)' <=> HeldBy(v, x) \/ (v = w /\ x = j)
  BY <1>1 DEF HeldBy, TypeInv, TypeOK
<1> HIDE DEF j
<1>5. ~Held(j) /\ ~Reported(j) /\ ~Delivered(j) /\ ~Lost(j)
  BY <1>2 DEF PlacesDisjoint
<1>6. HoldersDistinct'
  BY <1>4, <1>5 DEF HoldersDistinct, Held
<1>7. ResultsDistinct' /\ HistoryDistinct'
  BY <1>3 DEF ResultsDistinct, HistoryDistinct
<1>8. \A x \in Job : /\ Held(x)' <=> Held(x) \/ x = j
                     /\ Reported(x)' <=> Reported(x)
                     /\ Delivered(x)' <=> Delivered(x)
                     /\ Lost(x)' <=> Lost(x)
  BY <1>3, <1>4 DEF Held, Reported, Delivered, Lost
<1>9. PlacesDisjoint'
  BY <1>2, <1>5, <1>8 DEF PlacesDisjoint
<1>10. QED
  BY <1>2, <1>4, <1>6, <1>7, <1>9 DEF j

\* What SendResult and DropResult have in common: w lets go of its job.
LEMMA HolderLetsGo ==
    ASSUME PlacesInv, NEW w \in Workers, pc[w] = "send",
           pc' = [pc EXCEPT ![w] = "range"] \/ pc' = [pc EXCEPT ![w] = "exited"],
           task' = [task EXCEPT ![w] = NoJob]
    PROVE  /\ CheckOf(w) \in Check /\ CheckOf(w).job = task[w]
           /\ HeldBy(w, task[w]) /\ Held(task[w])
           /\ HoldersDistinct'
           /\ \A v \in Workers, x \in Job : HeldBy(v, x)' <=> HeldBy(v, x) /\ v # w
           /\ \A x \in Job : Held(x)' <=> Held(x) /\ x # task[w]
<1> USE DEF PlacesInv, SinglePlace
<1>1. task[w] \in Job /\ verdict[w] \in Status
  BY DEF TypeInv, TypeOK, HoldersHaveJobs
<1>2. CheckOf(w) \in Check /\ CheckOf(w).job = task[w]
  BY <1>1 DEF CheckOf, Check
<1>3. HeldBy(w, task[w]) /\ Held(task[w])
  BY DEF HeldBy, Held
<1>4. \A v \in Workers, x \in Job : HeldBy(v, x)' <=> HeldBy(v, x) /\ v # w
  BY DEF HeldBy, TypeInv, TypeOK
<1>5. HoldersDistinct'
  BY <1>4 DEF HoldersDistinct
<1>6. \A x \in Job : Held(x)' <=> Held(x) /\ x # task[w]
  <2>1. \A v \in Workers : HeldBy(v, task[w]) => v = w
    BY <1>1, <1>3 DEF HoldersDistinct
  <2>2. \A x \in Job : HeldBy(w, x) => x = task[w]
    BY DEF HeldBy
  <2>3. QED
    BY <1>4, <2>1, <2>2 DEF Held
<1>7. QED
  BY <1>2, <1>3, <1>4, <1>5, <1>6

LEMMA SendMoves ==
    ASSUME PlacesInv, NEW w \in Workers, SendResult(w)
    PROVE  LET j == task[w]
           IN  /\ SinglePlace'
               /\ j \in Job /\ HeldBy(w, j)
               /\ \A v \in Workers, x \in Job : HeldBy(v, x)' <=> HeldBy(v, x) /\ v # w
               /\ \A x \in Job : Reported(x)' <=> Reported(x) \/ x = j
<1> DEFINE j == task[w]
<1> USE DEF PlacesInv, SinglePlace
<1>1. /\ pc[w] = "send" /\ pc' = [pc EXCEPT ![w] = "range"]
      /\ task' = [task EXCEPT ![w] = NoJob]
      /\ results' = Append(results, CheckOf(w))
      /\ UNCHANGED <<jobs, delivered, lost>>
  BY DEF SendResult, history
<1>2. /\ CheckOf(w) \in Check /\ CheckOf(w).job = j /\ j \in Job
      /\ HeldBy(w, j) /\ Held(j) /\ HoldersDistinct'
      /\ \A v \in Workers, x \in Job : HeldBy(v, x)' <=> HeldBy(v, x) /\ v # w
      /\ \A x \in Job : Held(x)' <=> Held(x) /\ x # j
  BY <1>1, HolderLetsGo DEF Check
<1> HIDE DEF j
<1>3. ~Queued(j) /\ ~Reported(j) /\ ~Delivered(j) /\ ~Lost(j)
  BY <1>2 DEF PlacesDisjoint
<1>4. ResultsDistinct' /\ \A x \in Job : Reported(x)' <=> Reported(x) \/ x = j
  BY <1>1, <1>2, <1>3, ResultsAppend
<1>5. JobsDistinct' /\ HistoryDistinct'
  BY <1>1 DEF JobsDistinct, HistoryDistinct
<1>6. \A x \in Job : /\ Queued(x)' <=> Queued(x)
                     /\ Delivered(x)' <=> Delivered(x)
                     /\ Lost(x)' <=> Lost(x)
  BY <1>1 DEF Queued, Delivered, Lost
<1>7. PlacesDisjoint'
  BY <1>2, <1>3, <1>4, <1>6 DEF PlacesDisjoint
<1>8. QED
  BY <1>2, <1>4, <1>5, <1>7 DEF j

LEMMA DropMoves ==
    ASSUME PlacesInv, NEW w \in Workers, DropResult(w)
    PROVE  LET j == task[w]
           IN  /\ SinglePlace'
               /\ j \in Job /\ HeldBy(w, j)
               /\ \A v \in Workers, x \in Job : HeldBy(v, x)' <=> HeldBy(v, x) /\ v # w
               /\ \A x \in Job : Lost(x)' <=> Lost(x) \/ x = j
<1> DEFINE j == task[w]
<1> USE DEF PlacesInv, SinglePlace
<1>1. /\ pc[w] = "send" /\ pc' = [pc EXCEPT ![w] = "exited"]
      /\ task' = [task EXCEPT ![w] = NoJob]
      /\ lost' = lost \cup {CheckOf(w)}
      /\ UNCHANGED <<jobs, results, delivered>>
  BY DEF DropResult, channels
<1>2. /\ CheckOf(w) \in Check /\ CheckOf(w).job = j /\ j \in Job
      /\ HeldBy(w, j) /\ Held(j) /\ HoldersDistinct'
      /\ \A v \in Workers, x \in Job : HeldBy(v, x)' <=> HeldBy(v, x) /\ v # w
      /\ \A x \in Job : Held(x)' <=> Held(x) /\ x # j
  BY <1>1, HolderLetsGo DEF Check
<1> HIDE DEF j
<1>3. ~Queued(j) /\ ~Reported(j) /\ ~Delivered(j) /\ ~Lost(j)
  BY <1>2 DEF PlacesDisjoint
<1>4. \A x \in Job : Lost(x)' <=> Lost(x) \/ x = j
  BY <1>1, <1>2 DEF Lost
<1>5. HistoryDistinct'
  BY <1>1, <1>2, <1>3 DEF HistoryDistinct, Delivered, Lost
<1>6. JobsDistinct' /\ ResultsDistinct'
  BY <1>1 DEF JobsDistinct, ResultsDistinct
<1>7. \A x \in Job : /\ Queued(x)' <=> Queued(x)
                     /\ Reported(x)' <=> Reported(x)
                     /\ Delivered(x)' <=> Delivered(x)
  BY <1>1 DEF Queued, Reported, Delivered
<1>8. PlacesDisjoint'
  BY <1>2, <1>3, <1>4, <1>7 DEF PlacesDisjoint
<1>9. QED
  BY <1>2, <1>4, <1>5, <1>6, <1>8 DEF j

LEMMA ReceiveMoves ==
    ASSUME PlacesInv, Receive
    PROVE  LET j == Head(results).job
           IN  /\ SinglePlace'
               /\ j \in Job /\ Reported(j)
               /\ \A x \in Job : Reported(x)' <=> Reported(x) /\ x # j
               /\ \A x \in Job : Delivered(x)' <=> Delivered(x) \/ x = j
<1> DEFINE c == Head(results)
           j == c.job
<1> USE DEF PlacesInv, SinglePlace
<1>1. /\ results # <<>> /\ results' = Tail(results)
      /\ delivered' = delivered \cup {c}
      /\ UNCHANGED <<jobs, pc, task, lost>>
  BY DEF Receive, workers
<1>2. /\ ResultsDistinct' /\ c \in Check /\ j \in Job /\ Reported(j)
      /\ \A x \in Job : Reported(x)' <=> Reported(x) /\ x # j
  BY <1>1, ResultsTail DEF Check
<1> HIDE DEF c
<1>3. ~Queued(j) /\ ~Held(j) /\ ~Delivered(j) /\ ~Lost(j)
  BY <1>2 DEF PlacesDisjoint
<1>4. \A x \in Job : Delivered(x)' <=> Delivered(x) \/ x = j
  BY <1>1 DEF Delivered
<1>5. HistoryDistinct'
  BY <1>1, <1>3 DEF HistoryDistinct, Delivered, Lost
<1>6. JobsDistinct' /\ HoldersDistinct'
  BY <1>1 DEF JobsDistinct, HoldersDistinct, HeldBy
<1>7. \A x \in Job : /\ Queued(x)' <=> Queued(x)
                     /\ Held(x)' <=> Held(x)
                     /\ Lost(x)' <=> Lost(x)
  BY <1>1 DEF Queued, Held, HeldBy, Lost
<1>8. PlacesDisjoint'
  BY <1>2, <1>3, <1>4, <1>7 DEF PlacesDisjoint
<1>9. QED
  BY <1>2, <1>4, <1>5, <1>6, <1>8 DEF c

\* The other actions move no job.
LEMMA NothingMoves ==
    ASSUME PlacesInv,
           \/ Cancel \/ CloseJobs \/ CloseResults \/ UNCHANGED vars
           \/ \E w \in Workers : FinishCheck(w) \/ ExitOnClose(w)
    PROVE  /\ SinglePlace'
           /\ \A x \in Job : /\ Queued(x)' <=> Queued(x)
                             /\ Reported(x)' <=> Reported(x)
                             /\ Delivered(x)' <=> Delivered(x)
                             /\ Lost(x)' <=> Lost(x)
           /\ \A w \in Workers, x \in Job : HeldBy(w, x)' <=> HeldBy(w, x)
<1> USE DEF PlacesInv, SinglePlace
<1>1. UNCHANGED <<jobs, results, delivered, lost>>
  BY DEF Cancel, CloseJobs, CloseResults, FinishCheck, ExitOnClose,
         vars, channels, history
<1>2. \A w \in Workers, x \in Job : HeldBy(w, x)' <=> HeldBy(w, x)
  BY DEF Cancel, CloseJobs, CloseResults, FinishCheck, ExitOnClose,
         vars, workers, HeldBy, TypeInv, TypeOK
<1>3. \A x \in Job : /\ Queued(x)' <=> Queued(x)
                     /\ Held(x)' <=> Held(x)
                     /\ Reported(x)' <=> Reported(x)
                     /\ Delivered(x)' <=> Delivered(x)
                     /\ Lost(x)' <=> Lost(x)
  BY <1>1, <1>2 DEF Queued, Held, Reported, Delivered, Lost
<1>4. JobsDistinct' /\ ResultsDistinct' /\ HistoryDistinct' /\ HoldersDistinct'
  BY <1>1, <1>2 DEF JobsDistinct, ResultsDistinct, HistoryDistinct, HoldersDistinct
<1>5. PlacesDisjoint'
  BY <1>3 DEF PlacesDisjoint
<1>6. QED
  BY <1>2, <1>3, <1>4, <1>5

-----------------------------------------------------------------------------
LEMMA PlacesInit == Init => PlacesInv
<1> SUFFICES ASSUME Init PROVE SinglePlace
  BY TypeInit DEF PlacesInv
<1>1. DOMAIN jobs = {} /\ DOMAIN results = {}
  BY DEF Init
<1>2. \A w \in Workers, x \in Job : ~HeldBy(w, x)
  BY DEF Init, HeldBy
<1>3. QED
  BY <1>1, <1>2 DEF Init, SinglePlace, JobsDistinct, ResultsDistinct, HoldersDistinct,
        HistoryDistinct, PlacesDisjoint, Queued, Held, Reported, Delivered, Lost

LEMMA PlacesStep == PlacesInv /\ [Next]_vars => PlacesInv'
<1> SUFFICES ASSUME PlacesInv, [Next]_vars PROVE SinglePlace'
  BY TypeStep DEF PlacesInv
<1>1. ASSUME NEW j \in Job, Submit(j) PROVE SinglePlace'
  BY <1>1, SubmitMoves
<1>2. ASSUME NEW w \in Workers, Worker(w) PROVE SinglePlace'
  <2>1. CASE TakeJob(w) \/ TakeJobLate(w)
    BY <2>1, TakeMoves
  <2>2. CASE SendResult(w)
    BY <2>2, SendMoves
  <2>3. CASE DropResult(w)
    BY <2>3, DropMoves
  <2>4. CASE FinishCheck(w) \/ ExitOnClose(w)
    BY <2>4, NothingMoves
  <2>5. QED
    BY <1>2, <2>1, <2>2, <2>3, <2>4 DEF Worker
<1>3. CASE Receive
  BY <1>3, ReceiveMoves
<1>4. CASE Cancel \/ CloseJobs \/ CloseResults \/ UNCHANGED vars
  BY <1>4, NothingMoves
<1>5. QED
  BY <1>1, <1>2, <1>3, <1>4 DEF Next

\* No job is checked twice or reported twice, and none is at once delivered and
\* dropped: for every number of workers, buffer size and interleaving.
THEOREM EveryJobOnce == Spec => []SinglePlace
<1>1. PlacesInv => SinglePlace
  BY DEF PlacesInv
<1>2. QED
  BY <1>1, PlacesInit, PlacesStep, PTL DEF Spec

-----------------------------------------------------------------------------
(* What the owner of the pool may rely on: a job once accepted is never    *)
(* forgotten, and only Submit adds one.                                    *)

LEMMA SubmitAccepts ==
    ASSUME PlacesInv, NEW j \in Job, Submit(j)
    PROVE  \A x \in Job : Accepted(x)' <=> Accepted(x) \/ x = j
<1>1. \A x \in Job : Queued(x)' <=> Queued(x) \/ x = j
  BY SubmitMoves
<1>2. UNCHANGED <<results, pc, task, delivered, lost>>
  BY DEF Submit, workers, history
<1>3. QED
  BY <1>1, <1>2 DEF Accepted, HeldBy, Reported, Delivered, Lost

LEMMA OthersAccept ==
    ASSUME PlacesInv,
           \/ \E w \in Workers : Worker(w)
           \/ Receive \/ Cancel \/ CloseJobs \/ CloseResults \/ UNCHANGED vars
    PROVE  \A x \in Job : Accepted(x)' <=> Accepted(x)
<1>1. ASSUME NEW w \in Workers, TakeJob(w) \/ TakeJobLate(w)
      PROVE  \A x \in Job : Accepted(x)' <=> Accepted(x)
  <2>1. UNCHANGED <<results, delivered, lost>>
    BY <1>1 DEF TakeJob, TakeJobLate, history
  <2>2. QED
    BY <1>1, <2>1, TakeMoves DEF Accepted, Reported, Delivered, Lost
<1>2. ASSUME NEW w \in Workers, SendResult(w)
      PROVE  \A x \in Job : Accepted(x)' <=> Accepted(x)
  <2>1. UNCHANGED <<jobs, delivered, lost>>
    BY <1>2 DEF SendResult, history
  <2>2. \A x \in Job : HeldBy(w, x) => x = task[w]
    BY DEF HeldBy
  <2>3. QED
    BY <1>2, <2>1, <2>2, SendMoves DEF Accepted, Queued, Delivered, Lost
<1>3. ASSUME NEW w \in Workers, DropResult(w)
      PROVE  \A x \in Job : Accepted(x)' <=> Accepted(x)
  <2>1. UNCHANGED <<jobs, results, delivered>>
    BY <1>3 DEF DropResult, channels
  <2>2. \A x \in Job : HeldBy(w, x) => x = task[w]
    BY DEF HeldBy
  <2>3. QED
    BY <1>3, <2>1, <2>2, DropMoves DEF Accepted, Queued, Reported, Delivered
<1>4. CASE Receive
  <2>1. UNCHANGED <<jobs, pc, task, lost>>
    BY <1>4 DEF Receive, workers
  <2>2. QED
    BY <1>4, <2>1, ReceiveMoves DEF Accepted, Queued, HeldBy, Lost
<1>5. CASE \/ Cancel \/ CloseJobs \/ CloseResults \/ UNCHANGED vars
           \/ \E w \in Workers : FinishCheck(w) \/ ExitOnClose(w)
  BY <1>5, NothingMoves DEF Accepted
<1>6. QED
  BY <1>1, <1>2, <1>3, <1>4, <1>5 DEF Worker
=============================================================================
