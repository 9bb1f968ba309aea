------------------------ MODULE WorkerPoolRefinement ------------------------
(***************************************************************************)
(* Proof that WorkerPool implements CheckLedger: seen through StageOf, the *)
(* channels, goroutines and select statements only ever move one job one   *)
(* stage forward, drop one only when ctx is done, and close when no check  *)
(* is running.                                                             *)
(***************************************************************************)
EXTENDS WorkerPoolProofs

RefInv == PlacesInv /\ ControlInv

LEMMA RefInvAlways == Spec => []RefInv
BY PlacesInit, PlacesStep, ControlInit, ControlStep, PTL DEF Spec, RefInv

\* The ledger's variable that is not one of the pool's.
stage == [j \in Job |-> StageOf(j)]

InCheck(j) == \E w \in Workers : HeldBy(w, j) /\ pc[w] = "check"
InSend(j)  == \E w \in Workers : HeldBy(w, j) /\ pc[w] = "send"

\* Which stage a job has, place by place.
LEMMA StageOfPlace ==
    ASSUME PlacesDisjoint, HoldersDistinct, NEW j \in Job
    PROVE  /\ Queued(j)    => StageOf(j) = "queued"
           /\ Delivered(j) => StageOf(j) = "delivered"
           /\ Lost(j)      => StageOf(j) = "lost"
           /\ Reported(j)  => StageOf(j) = "completed"
           /\ InCheck(j)   => StageOf(j) = "running"
           /\ InSend(j)    => StageOf(j) = "completed"
           /\ ~Queued(j) /\ ~Delivered(j) /\ ~Lost(j) /\ ~Reported(j)
              /\ ~Held(j) => StageOf(j) = "idle"
<1>1. /\ Queued(j)   => ~Held(j) /\ ~Reported(j) /\ ~Delivered(j) /\ ~Lost(j)
      /\ Held(j)     => ~Reported(j) /\ ~Delivered(j) /\ ~Lost(j)
      /\ Reported(j) => ~Delivered(j) /\ ~Lost(j)
      /\ ~(Delivered(j) /\ Lost(j))
  BY DEF PlacesDisjoint
<1>2. (InCheck(j) \/ InSend(j) => Held(j)) /\ ~(InCheck(j) /\ InSend(j))
  BY DEF InCheck, InSend, Held, HoldersDistinct
<1>3. QED
  BY <1>1, <1>2 DEF StageOf, InCheck, InSend

\* The same of the next state.
LEMMA StageOfPlacePrime ==
    ASSUME PlacesDisjoint', HoldersDistinct', NEW j \in Job
    PROVE  /\ Queued(j)'    => StageOf(j)' = "queued"
           /\ Delivered(j)' => StageOf(j)' = "delivered"
           /\ Lost(j)'      => StageOf(j)' = "lost"
           /\ Reported(j)'  => StageOf(j)' = "completed"
           /\ InCheck(j)'   => StageOf(j)' = "running"
           /\ InSend(j)'    => StageOf(j)' = "completed"
<1>1. /\ Queued(j)'   => ~Held(j)' /\ ~Reported(j)' /\ ~Delivered(j)' /\ ~Lost(j)'
      /\ Held(j)'     => ~Reported(j)' /\ ~Delivered(j)' /\ ~Lost(j)'
      /\ Reported(j)' => ~Delivered(j)' /\ ~Lost(j)'
      /\ ~(Delivered(j)' /\ Lost(j)')
  BY DEF PlacesDisjoint
<1>2. (InCheck(j)' \/ InSend(j)' => Held(j)') /\ ~(InCheck(j)' /\ InSend(j)')
  BY DEF InCheck, InSend, Held, HoldersDistinct
<1>3. QED
  BY <1>1, <1>2 DEF StageOf, InCheck, InSend

\* A job that stays where it is keeps its stage.
LEMMA StageKept ==
    ASSUME NEW j \in Job,
           Queued(j)' <=> Queued(j), Delivered(j)' <=> Delivered(j),
           Lost(j)' <=> Lost(j), Reported(j)' <=> Reported(j),
           InCheck(j)' <=> InCheck(j), InSend(j)' <=> InSend(j)
    PROVE  StageOf(j)' = StageOf(j)
BY DEF StageOf, InCheck, InSend

\* When one job moves and the others stay, the ledger makes a move.
LEMMA OneMove ==
    ASSUME NEW j \in Job, NEW from, NEW to,
           StageOf(j) = from, StageOf(j)' = to,
           \A x \in Job \ {j} : StageOf(x)' = StageOf(x),
           UNCHANGED <<cancelled, resultsClosed>>
    PROVE  Ledger!Move(j, from, to)
<1>1. stage[j] = from
  BY DEF stage
<1>2. stage' = [stage EXCEPT ![j] = to]
  BY DEF stage
<1>3. QED
  BY <1>1, <1>2 DEF Ledger!Move, stage

LEMMA NoMove ==
    ASSUME \A x \in Job : StageOf(x)' = StageOf(x)
    PROVE  UNCHANGED [j \in Job |-> StageOf(j)]
OBVIOUS

-----------------------------------------------------------------------------
LEMMA SubmitRefines ==
    ASSUME RefInv, NEW j \in Job, Submit(j)
    PROVE  Ledger!Accept(j)
<1> USE DEF RefInv, PlacesInv, SinglePlace
<1>1. /\ SinglePlace' /\ ~Accepted(j)
      /\ \A x \in Job : Queued(x)' <=> Queued(x) \/ x = j
  BY SubmitMoves
<1>2. UNCHANGED <<cancelled, results, resultsClosed, pc, task, delivered, lost>> /\ ~jobsClosed
  BY DEF Submit, workers, history
<1>3. \A x \in Job : /\ Delivered(x)' <=> Delivered(x)
                     /\ Lost(x)' <=> Lost(x)
                     /\ Reported(x)' <=> Reported(x)
                     /\ InCheck(x)' <=> InCheck(x)
                     /\ InSend(x)' <=> InSend(x)
  BY <1>2 DEF Delivered, Lost, Reported, InCheck, InSend, HeldBy
<1>4. \A x \in Job \ {j} : StageOf(x)' = StageOf(x)
  BY <1>1, <1>3, StageKept
<1>5. StageOf(j) = "idle"
  BY <1>1, StageOfPlace DEF Accepted, Held
<1>6. StageOf(j)' = "queued"
  <2>1. Queued(j)' /\ PlacesDisjoint' /\ HoldersDistinct'
    BY <1>1
  <2>2. QED
    BY <2>1, StageOfPlacePrime
<1>7. ~resultsClosed
  BY <1>2 DEF ControlInv, ClosedIsQuiet
<1>8. QED
  BY <1>2, <1>4, <1>5, <1>6, <1>7, OneMove DEF Ledger!Accept

\* A worker that takes a job or gives one away has not exited, so the pool is
\* not closed.
LEMMA BusyIsOpen ==
    ASSUME RefInv, NEW w \in Workers, pc[w] # "exited"
    PROVE  ~resultsClosed
BY DEF RefInv, ControlInv, ClosedIsQuiet, AllExited

LEMMA TakeRefines ==
    ASSUME RefInv, NEW w \in Workers, TakeJob(w) \/ TakeJobLate(w)
    PROVE  \E j \in Job : Ledger!Run(j) \/ Ledger!Complete(j)
<1> USE DEF RefInv, PlacesInv, SinglePlace
<1>1. PICK j \in Job :
        /\ SinglePlace' /\ Queued(j)
        /\ \A x \in Job : Queued(x)' <=> Queued(x) /\ x # j
        /\ \A v \in Workers, x \in Job : HeldBy(v, x)' <=> HeldBy(v, x) \/ (v = w /\ x = j)
  BY TakeMoves
<1>2. /\ pc[w] = "range"
      /\ UNCHANGED <<cancelled, results, resultsClosed, delivered, lost>>
      /\ \/ TakeJob(w) /\ pc' = [pc EXCEPT ![w] = "check"]
         \/ TakeJobLate(w) /\ cancelled /\ pc' = [pc EXCEPT ![w] = "send"]
  BY DEF TakeJob, TakeJobLate, history
<1>3. pc \in [Workers -> {"range", "check", "send", "exited"}]
  BY DEF TypeInv, TypeOK
<1>4. ~Held(j) /\ ~resultsClosed
  BY <1>1, <1>2, BusyIsOpen DEF PlacesDisjoint
<1>5. ASSUME NEW x \in Job \ {j} PROVE StageOf(x)' = StageOf(x)
  <2>1. ~HeldBy(w, x) /\ ~HeldBy(w, x)'
    BY <1>1, <1>2 DEF HeldBy
  <2>2. \A v \in Workers \ {w} : pc'[v] = pc[v]
    BY <1>2, <1>3
  <2>3. (InCheck(x)' <=> InCheck(x)) /\ (InSend(x)' <=> InSend(x))
    BY <1>1, <2>1, <2>2 DEF InCheck, InSend
  <2>4. /\ Queued(x)' <=> Queued(x)
        /\ Delivered(x)' <=> Delivered(x)
        /\ Lost(x)' <=> Lost(x)
        /\ Reported(x)' <=> Reported(x)
    BY <1>1, <1>2 DEF Delivered, Lost, Reported
  <2>5. QED
    BY <2>3, <2>4, StageKept
<1>6. StageOf(j) = "queued"
  BY <1>1, StageOfPlace
<1>7. HeldBy(w, j)' /\ PlacesDisjoint' /\ HoldersDistinct'
  BY <1>1
<1>8. CASE TakeJob(w) /\ pc' = [pc EXCEPT ![w] = "check"]
  <2>1. InCheck(j)'
    BY <1>3, <1>7, <1>8 DEF InCheck
  <2>2. StageOf(j)' = "running"
    BY <1>1, <1>7, <2>1, StageOfPlacePrime
  <2>3. QED
    BY <1>1, <1>2, <1>4, <1>5, <1>6, <2>2, OneMove DEF Ledger!Run
<1>9. CASE TakeJobLate(w) /\ cancelled /\ pc' = [pc EXCEPT ![w] = "send"]
  <2>1. InSend(j)'
    BY <1>3, <1>7, <1>9 DEF InSend
  <2>2. StageOf(j)' = "completed"
    BY <1>1, <1>7, <2>1, StageOfPlacePrime
  <2>3. QED
    BY <1>1, <1>2, <1>4, <1>5, <1>6, <1>9, <2>2, OneMove DEF Ledger!Complete
<1>10. QED
  BY <1>2, <1>8, <1>9

LEMMA FinishRefines ==
    ASSUME RefInv, NEW w \in Workers, FinishCheck(w)
    PROVE  \E j \in Job : Ledger!Complete(j)
<1> USE DEF RefInv, PlacesInv, SinglePlace
<1>1. /\ pc[w] = "check" /\ pc' = [pc EXCEPT ![w] = "send"]
      /\ UNCHANGED <<cancelled, jobs, results, resultsClosed, task, delivered, lost>>
  BY DEF FinishCheck, channels, history
<1>2. PICK j \in Job : j = task[w]
  BY <1>1 DEF TypeInv, HoldersHaveJobs
<1>3. SinglePlace' /\ \A v \in Workers, x \in Job : HeldBy(v, x)' <=> HeldBy(v, x)
  BY NothingMoves
<1>4. /\ HeldBy(w, j)
      /\ pc \in [Workers -> {"range", "check", "send", "exited"}]
  BY <1>1, <1>2 DEF HeldBy, TypeInv, TypeOK
<1>5. ASSUME NEW x \in Job \ {j} PROVE StageOf(x)' = StageOf(x)
  <2>1. ~HeldBy(w, x)
    BY <1>2 DEF HeldBy
  <2>2. \A v \in Workers \ {w} : pc'[v] = pc[v]
    BY <1>1, <1>4
  <2>3. (InCheck(x)' <=> InCheck(x)) /\ (InSend(x)' <=> InSend(x))
    BY <1>3, <2>1, <2>2 DEF InCheck, InSend
  <2>4. /\ Queued(x)' <=> Queued(x)
        /\ Delivered(x)' <=> Delivered(x)
        /\ Lost(x)' <=> Lost(x)
        /\ Reported(x)' <=> Reported(x)
    BY <1>1 DEF Queued, Delivered, Lost, Reported
  <2>5. QED
    BY <2>3, <2>4, StageKept
<1>6. StageOf(j) = "running"
  BY <1>1, <1>4, StageOfPlace DEF InCheck
<1>7. StageOf(j)' = "completed"
  BY <1>1, <1>3, <1>4, StageOfPlacePrime DEF InSend
<1>8. ~resultsClosed
  BY <1>1, BusyIsOpen
<1>9. QED
  BY <1>1, <1>5, <1>6, <1>7, <1>8, OneMove DEF Ledger!Complete

\* What the steps of SendResult and DropResult have in common for the jobs that
\* do not move.
LEMMA OthersKept ==
    ASSUME NEW w \in Workers, NEW x \in Job, x # task[w],
           pc \in [Workers -> {"range", "check", "send", "exited"}],
           pc' = [pc EXCEPT ![w] = "range"] \/ pc' = [pc EXCEPT ![w] = "exited"],
           \A v \in Workers : HeldBy(v, x)' <=> HeldBy(v, x) /\ v # w
    PROVE  (InCheck(x)' <=> InCheck(x)) /\ (InSend(x)' <=> InSend(x))
<1>1. ~HeldBy(w, x)
  BY DEF HeldBy
<1>2. \A v \in Workers \ {w} : pc'[v] = pc[v]
  OBVIOUS
<1>3. QED
  BY <1>1, <1>2 DEF InCheck, InSend

LEMMA SendRefines ==
    ASSUME RefInv, NEW w \in Workers, SendResult(w)
    PROVE  UNCHANGED Ledger!vars
<1> USE DEF RefInv, PlacesInv, SinglePlace
<1>1. /\ pc[w] = "send" /\ pc' = [pc EXCEPT ![w] = "range"]
      /\ UNCHANGED <<cancelled, jobs, resultsClosed, delivered, lost>>
  BY DEF SendResult, history
<1>2. PICK j \in Job :
        /\ j = task[w] /\ SinglePlace' /\ HeldBy(w, j)
        /\ \A v \in Workers, x \in Job : HeldBy(v, x)' <=> HeldBy(v, x) /\ v # w
        /\ \A x \in Job : Reported(x)' <=> Reported(x) \/ x = j
  BY SendMoves
<1>3. \A x \in Job : /\ Queued(x)' <=> Queued(x)
                     /\ Delivered(x)' <=> Delivered(x)
                     /\ Lost(x)' <=> Lost(x)
  BY <1>1 DEF Queued, Delivered, Lost
<1>4. ASSUME NEW x \in Job \ {j} PROVE StageOf(x)' = StageOf(x)
  <2>1. (InCheck(x)' <=> InCheck(x)) /\ (InSend(x)' <=> InSend(x))
    BY <1>1, <1>2, OthersKept DEF TypeInv, TypeOK
  <2>2. QED
    BY <1>2, <1>3, <2>1, StageKept
<1>5. StageOf(j) = "completed"
  BY <1>1, <1>2, StageOfPlace DEF InSend
<1>6. StageOf(j)' = "completed"
  BY <1>2, StageOfPlacePrime
<1>7. \A x \in Job : StageOf(x)' = StageOf(x)
  BY <1>4, <1>5, <1>6
<1>8. QED
  BY <1>1, <1>7, NoMove DEF Ledger!vars

LEMMA DropRefines ==
    ASSUME RefInv, NEW w \in Workers, DropResult(w)
    PROVE  \E j \in Job : Ledger!Lose(j)
<1> USE DEF RefInv, PlacesInv, SinglePlace
<1>1. /\ pc[w] = "send" /\ cancelled /\ pc' = [pc EXCEPT ![w] = "exited"]
      /\ UNCHANGED <<cancelled, jobs, results, resultsClosed, delivered>>
  BY DEF DropResult, channels
<1>2. PICK j \in Job :
        /\ j = task[w] /\ SinglePlace' /\ HeldBy(w, j)
        /\ \A v \in Workers, x \in Job : HeldBy(v, x)' <=> HeldBy(v, x) /\ v # w
        /\ \A x \in Job : Lost(x)' <=> Lost(x) \/ x = j
  BY DropMoves
<1>3. \A x \in Job : /\ Queued(x)' <=> Queued(x)
                     /\ Delivered(x)' <=> Delivered(x)
                     /\ Reported(x)' <=> Reported(x)
  BY <1>1 DEF Queued, Delivered, Reported
<1>4. ASSUME NEW x \in Job \ {j} PROVE StageOf(x)' = StageOf(x)
  <2>1. (InCheck(x)' <=> InCheck(x)) /\ (InSend(x)' <=> InSend(x))
    BY <1>1, <1>2, OthersKept DEF TypeInv, TypeOK
  <2>2. QED
    BY <1>2, <1>3, <2>1, StageKept
<1>5. StageOf(j) = "completed"
  BY <1>1, <1>2, StageOfPlace DEF InSend
<1>6. StageOf(j)' = "lost"
  BY <1>2, StageOfPlacePrime
<1>7. ~resultsClosed
  BY <1>1, BusyIsOpen
<1>8. QED
  BY <1>1, <1>4, <1>5, <1>6, <1>7, OneMove DEF Ledger!Lose

LEMMA ReceiveRefines ==
    ASSUME RefInv, Receive
    PROVE  \E j \in Job : Ledger!Deliver(j)
<1> USE DEF RefInv, PlacesInv, SinglePlace
<1>1. UNCHANGED <<cancelled, jobs, resultsClosed, pc, task, lost>>
  BY DEF Receive, workers
<1>2. PICK j \in Job :
        /\ SinglePlace' /\ Reported(j)
        /\ \A x \in Job : Reported(x)' <=> Reported(x) /\ x # j
        /\ \A x \in Job : Delivered(x)' <=> Delivered(x) \/ x = j
  BY ReceiveMoves
<1>3. \A x \in Job : /\ Queued(x)' <=> Queued(x)
                     /\ Lost(x)' <=> Lost(x)
                     /\ InCheck(x)' <=> InCheck(x)
                     /\ InSend(x)' <=> InSend(x)
  BY <1>1 DEF Queued, Lost, InCheck, InSend, HeldBy
<1>4. \A x \in Job \ {j} : StageOf(x)' = StageOf(x)
  BY <1>2, <1>3, StageKept
<1>5. StageOf(j) = "completed"
  BY <1>2, StageOfPlace
<1>6. StageOf(j)' = "delivered"
  BY <1>2, StageOfPlacePrime
<1>7. QED
  BY <1>1, <1>4, <1>5, <1>6, OneMove DEF Ledger!Deliver

\* The steps that move no job: the ledger cancels, closes or stutters.
LEMMA StillRefines ==
    ASSUME RefInv,
           \/ Cancel \/ CloseJobs \/ CloseResults \/ UNCHANGED vars
           \/ \E w \in Workers : ExitOnClose(w)
    PROVE  \A x \in Job : StageOf(x)' = StageOf(x)
<1> USE DEF RefInv, PlacesInv, SinglePlace
<1>1. \A x \in Job : /\ Queued(x)' <=> Queued(x)
                     /\ Reported(x)' <=> Reported(x)
                     /\ Delivered(x)' <=> Delivered(x)
                     /\ Lost(x)' <=> Lost(x)
  BY NothingMoves
<1>2. \A x \in Job : (InCheck(x)' <=> InCheck(x)) /\ (InSend(x)' <=> InSend(x))
  <2>1. \A w \in Workers, x \in Job : HeldBy(w, x)' <=> HeldBy(w, x)
    BY NothingMoves
  <2>2. \A w \in Workers : pc'[w] = pc[w] \/ (pc[w] = "range" /\ pc'[w] = "exited")
    BY DEF Cancel, CloseJobs, CloseResults, vars, workers, ExitOnClose, TypeInv, TypeOK
  <2>3. QED
    BY <2>1, <2>2 DEF InCheck, InSend
<1>3. QED
  BY <1>1, <1>2, StageKept

LEMMA CloseRefines ==
    ASSUME RefInv, CloseResults
    PROVE  Ledger!Close
<1> USE DEF RefInv, PlacesInv, SinglePlace
<1>1. /\ jobsClosed /\ ~resultsClosed /\ AllExited /\ resultsClosed'
      /\ UNCHANGED cancelled
  BY DEF CloseResults
<1>2. \A x \in Job : StageOf(x)' = StageOf(x)
  BY StillRefines
<1>3. \A x \in Job : ~InCheck(x) /\ ~InSend(x)
  BY <1>1 DEF AllExited, InCheck, InSend
<1>4. cancelled \/ jobs = <<>>
  <2>1. CASE Workers = {}
    BY <2>1, NoWorkersNoJobs DEF TypeInv
  <2>2. CASE Workers # {}
    BY <1>1, <2>2 DEF AllExited, ControlInv, ExitInv
  <2>3. QED
    BY <2>1, <2>2
<1>5. \A x \in Job : StageOf(x) # "running" /\ (StageOf(x) = "queued" => Queued(x))
  BY <1>3 DEF StageOf, InCheck, InSend
<1>6. cancelled \/ \A x \in Job : StageOf(x) # "queued"
  BY <1>4, <1>5 DEF Queued
<1>7. QED
  BY <1>1, <1>2, <1>5, <1>6 DEF Ledger!Close

-----------------------------------------------------------------------------
LEMMA RefinementInit == Init => Ledger!Init
<1> SUFFICES ASSUME Init PROVE Ledger!Init
  OBVIOUS
<1>1. \A x \in Job : /\ ~Queued(x) /\ ~Reported(x) /\ ~Delivered(x) /\ ~Lost(x)
                     /\ ~InCheck(x) /\ ~InSend(x)
  BY DEF Init, Queued, Reported, Delivered, Lost, InCheck, InSend, HeldBy
<1>2. \A x \in Job : StageOf(x) = "idle"
  BY <1>1 DEF StageOf, InCheck, InSend
<1>3. QED
  BY <1>2 DEF Init, Ledger!Init

LEMMA RefinementStep == RefInv /\ [Next]_vars => [Ledger!Next]_(Ledger!vars)
<1> SUFFICES ASSUME RefInv, [Next]_vars PROVE Ledger!Next \/ UNCHANGED Ledger!vars
  BY DEF Ledger!vars
<1>1. CASE Cancel
  <2>1. \A x \in Job : StageOf(x)' = StageOf(x)
    BY <1>1, StillRefines
  <2>2. Ledger!Cancel
    BY <1>1, <2>1 DEF Cancel, channels, Ledger!Cancel
  <2>3. QED
    BY <2>2 DEF Ledger!Next
<1>2. ASSUME NEW j \in Job, Submit(j) PROVE Ledger!Next
  BY <1>2, SubmitRefines DEF Ledger!Next
<1>3. ASSUME NEW w \in Workers, Worker(w) PROVE Ledger!Next \/ UNCHANGED Ledger!vars
  <2>1. CASE TakeJob(w) \/ TakeJobLate(w)
    BY <2>1, TakeRefines DEF Ledger!Next
  <2>2. CASE FinishCheck(w)
    BY <2>2, FinishRefines DEF Ledger!Next
  <2>3. CASE SendResult(w)
    BY <2>3, SendRefines
  <2>4. CASE DropResult(w)
    BY <2>4, DropRefines DEF Ledger!Next
  <2>5. CASE ExitOnClose(w)
    <3>1. \A x \in Job : StageOf(x)' = StageOf(x)
      BY <2>5, StillRefines
    <3>2. QED
      BY <2>5, <3>1, NoMove DEF ExitOnClose, channels, Ledger!vars
  <2>6. QED
    BY <1>3, <2>1, <2>2, <2>3, <2>4, <2>5 DEF Worker
<1>4. CASE Receive
  BY <1>4, ReceiveRefines DEF Ledger!Next
<1>5. CASE CloseJobs \/ UNCHANGED vars
  <2>1. \A x \in Job : StageOf(x)' = StageOf(x)
    BY <1>5, StillRefines
  <2>2. QED
    BY <1>5, <2>1, NoMove DEF CloseJobs, vars, channels, Ledger!vars
<1>6. CASE CloseResults
  BY <1>6, CloseRefines DEF Ledger!Next
<1>7. QED
  BY <1>1, <1>2, <1>3, <1>4, <1>5, <1>6 DEF Next

\* Every behaviour of the worker pool is, seen through StageOf, a behaviour of the
\* ledger.
THEOREM PoolImplementsLedger == Spec => ImplementsLedger
BY RefInvAlways, RefinementInit, RefinementStep, PTL DEF Spec, ImplementsLedger, Ledger!Spec
=============================================================================
