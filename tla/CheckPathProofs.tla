--------------------------- MODULE CheckPathProofs ---------------------------
(***************************************************************************)
(* What holds of the check path for every number of retries and goroutines *)
(* and any length of window, cooldown and certificate: a check says what   *)
(* its last request came to, and the warnings about the certificate are    *)
(* spaced and not forgotten.                                               *)
(***************************************************************************)
EXTENDS CheckPath, FiniteSetTheorems, SequenceTheorems, TLAPS

Outcomes == Answer \cup Error

LoopTypes ==
    /\ cancelled \in BOOLEAN /\ startedLate \in BOOLEAN
    /\ at \in {"send", "wait", "backoff", "judge", "done"}
    /\ tries \in Seq(Outcomes)

CertTypes ==
    /\ remaining \in Int /\ age \in Nat \cup {Never}
    /\ rec \in [Recorders -> {"idle", "load", "notify"}]
    /\ elapsed \in Nat /\ sent \in Nat
    /\ looked \in BOOLEAN /\ warned \in BOOLEAN /\ lost \in BOOLEAN

-----------------------------------------------------------------------------
(* The retry loop.                                                         *)

\* Only transient failures lead to another request, and there are not too many.
Retried ==
    /\ \A i \in 1..Len(tries) : i < Len(tries) => tries[i] = "transient"
    /\ at \in {"send", "wait", "backoff"} =>
          /\ Len(tries) <= MaxRetries
          /\ \A i \in 1..Len(tries) : tries[i] = "transient"
    /\ at \in {"backoff", "judge", "done"} => Len(tries) > 0
    /\ Len(tries) <= MaxRetries + 1

\* What the loop knows of the context.  A check that begins under a cancelled one
\* fails at its first request.
ContextSeen ==
    /\ Len(tries) > 0 /\ LastTry = "canceled" => cancelled
    /\ startedLate =>
          /\ cancelled /\ at \in {"send", "judge", "done"}
          /\ at = "judge" => LastTry = "canceled"

LoopInv ==
    LoopTypes /\ Retried /\ ContextSeen /\ VerdictFollowsLastTry /\ AbortedByCancel

\* The list of outcomes with one more.
LEMMA OneMoreTry ==
    ASSUME LoopTypes, NEW o \in Outcomes, tries' = Append(tries, o)
    PROVE  /\ tries' \in Seq(Outcomes)
           /\ Len(tries') = Len(tries) + 1 /\ Len(tries) \in Nat
           /\ \A i \in 1..Len(tries) : tries'[i] = tries[i]
           /\ tries'[Len(tries')] = o
BY AppendProperties, LenProperties DEF LoopTypes

LEMMA NewCheck ==
    ASSUME cancelled' \in BOOLEAN, NextCheck
    PROVE  LoopInv'
<1>1. tries' = <<>> /\ tries' \in Seq(Outcomes) /\ Len(tries') = 0 /\ at' = "send"
  BY EmptySeq DEF NextCheck
<1>2. startedLate' = cancelled'
  BY DEF NextCheck
<1>3. LoopTypes' /\ Retried' /\ ContextSeen'
  BY <1>1, <1>2, RetryAssumption DEF LoopTypes, Retried, ContextSeen
<1>4. VerdictFollowsLastTry' /\ AbortedByCancel'
  BY <1>1, RetryAssumption DEF VerdictFollowsLastTry, AbortedByCancel
<1>5. QED
  BY <1>3, <1>4 DEF LoopInv

\* A request that was answered or failed.
LEMMA OutcomeKeeps ==
    ASSUME LoopInv, NEW o \in Outcomes, Outcome(o), at \in {"send", "wait"},
           o = "canceled" => cancelled, startedLate => o = "canceled"
    PROVE  LoopInv'
<1>1. /\ tries' = Append(tries, o) /\ UNCHANGED <<cancelled, startedLate, verdict>>
      /\ at' \in {"backoff", "judge"}
      /\ at' = "backoff" => o = "transient" /\ Len(tries) < MaxRetries
  BY DEF Outcome, isTransient, Outcomes, Answer, Error
<1>2. /\ tries' \in Seq(Outcomes)
      /\ Len(tries') = Len(tries) + 1 /\ Len(tries) \in Nat
      /\ \A i \in 1..Len(tries) : tries'[i] = tries[i]
      /\ tries'[Len(tries')] = o
  BY <1>1, OneMoreTry DEF LoopInv
<1>3. /\ Len(tries) <= MaxRetries
      /\ \A i \in 1..Len(tries) : tries[i] = "transient"
  BY DEF LoopInv, Retried
<1>4. \A i \in 1..Len(tries') : i < Len(tries') => tries'[i] = "transient"
  BY <1>2, <1>3
<1>5. LoopTypes' /\ ContextSeen'
  BY <1>1, <1>2 DEF LoopInv, LoopTypes, ContextSeen, LastTry
<1>6. Retried'
  BY <1>1, <1>2, <1>3, <1>4, RetryAssumption DEF Retried
<1>7. VerdictFollowsLastTry' /\ AbortedByCancel'
  <2>1. DOMAIN tries' = 1..Len(tries')
    BY <1>2, LenProperties
  <2>2. QED
    BY <1>1, <1>2, <1>3, <1>4, <2>1, RetryAssumption
       DEF VerdictFollowsLastTry, AbortedByCancel
<1>8. QED
  BY <1>5, <1>6, <1>7 DEF LoopInv

LEMMA LoopInit == Init => LoopInv
<1> SUFFICES ASSUME Init PROVE LoopInv
  OBVIOUS
<1>1. tries = <<>> /\ tries \in Seq(Outcomes) /\ Len(tries) = 0 /\ at = "send"
  BY EmptySeq DEF Init
<1>2. QED
  BY <1>1, RetryAssumption
     DEF Init, LoopInv, LoopTypes, Retried, ContextSeen, VerdictFollowsLastTry,
         AbortedByCancel

LEMMA LoopStep ==
    ASSUME LoopInv, Cancel \/ Step
    PROVE  LoopInv'
<1>t. tries \in Seq(Outcomes) /\ Len(tries) \in Nat /\ DOMAIN tries = 1..Len(tries)
  BY LenProperties DEF LoopInv, LoopTypes
<1>1. CASE Cancel \/ Send \/ BackoffOver
  <2>1. /\ UNCHANGED <<startedLate, tries, verdict>> /\ LastTry' = LastTry
        /\ cancelled => cancelled'
        /\ at' = at \/ (at \in {"send", "backoff"} /\ at' \in {"send", "wait"})
        /\ at' = "wait" => at' = at \/ ~startedLate
    BY <1>1 DEF Cancel, Send, BackoffOver, LastTry, LoopInv, ContextSeen
  <2>2. LoopTypes'
    BY <1>1 DEF Cancel, Send, BackoffOver, LoopInv, LoopTypes
  <2>3. Retried'
    BY <2>1 DEF LoopInv, Retried
  <2>4. ContextSeen'
    BY <2>1 DEF LoopInv, ContextSeen
  <2>5. VerdictFollowsLastTry' /\ AbortedByCancel'
    BY <2>1 DEF LoopInv, VerdictFollowsLastTry, AbortedByCancel
  <2>6. QED
    BY <2>2, <2>3, <2>4, <2>5 DEF LoopInv
<1>2. CASE SendFails
  BY <1>2, OutcomeKeeps DEF SendFails, Outcomes, Error
<1>3. CASE Return
  <2>1. ~startedLate /\ at = "wait"
    BY <1>3 DEF Return, LoopInv, ContextSeen
  <2>2. QED
    BY <1>3, <2>1, OutcomeKeeps DEF Return, Outcomes
<1>4. CASE BackoffCancelled
  <2>1. tries[Len(tries)] = "transient"
    BY <1>t, <1>4 DEF BackoffCancelled, LoopInv, Retried
  <2>2. /\ at' = "done" /\ verdict' = "aborted" /\ cancelled /\ ~startedLate
        /\ UNCHANGED <<cancelled, startedLate, tries>>
    BY <1>4 DEF BackoffCancelled, LoopInv, ContextSeen
  <2>3. Retried' /\ ContextSeen' /\ LoopTypes'
    BY <1>t, <1>4, <2>1, <2>2
       DEF BackoffCancelled, LoopInv, LoopTypes, Retried, ContextSeen, LastTry
  <2>4. VerdictFollowsLastTry' /\ AbortedByCancel'
    BY <1>t, <2>1, <2>2
       DEF LoopInv, VerdictFollowsLastTry, AbortedByCancel, LastTry
  <2>5. QED
    BY <2>3, <2>4 DEF LoopInv
<1>5. CASE Judge
  <2>1. /\ at' = "done" /\ verdict' = Verdict
        /\ UNCHANGED <<cancelled, startedLate, tries>>
    BY <1>5 DEF Judge
  <2>2. LastTry \in Outcomes /\ LastTry' = LastTry /\ Len(tries) > 0
    BY <1>t, <1>5, <2>1 DEF Judge, LoopInv, Retried, LastTry
  <2>3. \/ verdict' = "up"   /\ LastTry = "expected"
        \/ verdict' = "slow" /\ LastTry = "expectedSlow"
        \/ verdict' = "down" /\ LastTry \in {"unexpected", "transient", "deadline"}
        \/ verdict' = "aborted" /\ LastTry = "canceled"
    BY <2>1, <2>2 DEF Verdict, Outcomes, Answer, Error
  <2>4. LoopTypes' /\ Retried' /\ ContextSeen'
    BY <1>5, <2>1, <2>2 DEF Judge, LoopInv, LoopTypes, Retried, ContextSeen
  <2>5. VerdictFollowsLastTry'
    BY <2>1, <2>2, <2>3 DEF LoopInv, VerdictFollowsLastTry
  <2>6. startedLate => LastTry = "canceled"
    BY <1>5 DEF Judge, LoopInv, ContextSeen
  <2>7. AbortedByCancel'
    BY <2>1, <2>2, <2>3, <2>6 DEF LoopInv, ContextSeen, AbortedByCancel
  <2>8. QED
    BY <2>4, <2>5, <2>7 DEF LoopInv
<1>6. QED
  BY <1>1, <1>2, <1>3, <1>4, <1>5 DEF Step

-----------------------------------------------------------------------------
(* The warnings.                                                           *)

\* The goroutines that have marked the monitor and not yet warned.
InFlight == {r \in Recorders : rec[r] # "idle"}

\* Marks of this process that led to a warning, or still may.
Marks == sent + Cardinality(InFlight)

\* A further mark needs a cooldown since the last one; a warning that is lost only
\* makes them fewer.
Spaced ==
    /\ age = Never => Marks = 0
    /\ age # Never => Marks * Cooldown + age <= elapsed + Cooldown

\* Every mark, by whatever process, has been answered by a warning, is about to be,
\* or was lost; and a check within the window finds a mark or leaves one.
Warned == age # Never \/ looked => warned \/ lost \/ InFlight # {}

CertInv == CertTypes /\ Spaced /\ Warned

\* One goroutine less, or one more, in flight.
LEMMA FlightSize ==
    ASSUME CertTypes
    PROVE  /\ IsFiniteSet(InFlight) /\ Cardinality(InFlight) \in Nat
           /\ Marks \in Nat
           /\ \A r \in InFlight : /\ Cardinality(InFlight \ {r}) = Cardinality(InFlight) - 1
                                  /\ Cardinality(InFlight) >= 1
           /\ \A r \in Recorders \ InFlight :
                 Cardinality(InFlight \cup {r}) = Cardinality(InFlight) + 1
<1>1. IsFiniteSet(InFlight) /\ Cardinality(InFlight) \in Nat
  BY CertAssumption, FS_Subset, FS_CardinalityType DEF InFlight
<1>2. \A r \in InFlight : Cardinality(InFlight \ {r}) = Cardinality(InFlight) - 1
  BY <1>1, FS_RemoveElement
<1>3. \A r \in InFlight : Cardinality(InFlight) >= 1
  BY <1>1, FS_EmptySet
<1>4. \A r \in Recorders \ InFlight :
         Cardinality(InFlight \cup {r}) = Cardinality(InFlight) + 1
  BY <1>1, FS_AddElement
<1>5. QED
  BY <1>1, <1>2, <1>3, <1>4 DEF Marks, CertTypes

\* One mark less.
LEMMA FewerMarks ==
    ASSUME NEW n \in Nat, NEW k \in Nat, k <= n
    PROVE  k * Cooldown <= n * Cooldown /\ k * Cooldown \in Nat /\ n * Cooldown \in Nat
BY CertAssumption

LEMMA MoreMarks ==
    ASSUME NEW n \in Nat
    PROVE  (n + 1) * Cooldown = n * Cooldown + Cooldown /\ n * Cooldown \in Nat
BY CertAssumption

LEMMA CertStart == CertInit => CertInv
<1> SUFFICES ASSUME CertInit PROVE CertInv
  OBVIOUS
<1>1. CertTypes
  <2>1. remaining \in Int /\ age \in Nat \cup {Never} /\ elapsed \in Nat /\ sent \in Nat
    BY CertAssumption DEF CertInit
  <2>2. rec \in [Recorders -> {"idle", "load", "notify"}]
    BY DEF CertInit
  <2>3. QED
    BY <2>1, <2>2 DEF CertInit, CertTypes
<1>2. InFlight = {} /\ Marks = 0
  BY FS_EmptySet DEF CertInit, InFlight, Marks
<1>3. QED
  BY <1>1, <1>2 DEF CertInit, CertInv, Spaced, Warned

LEMMA RecordKeeps ==
    ASSUME CertInv, NEW r \in Recorders, NEW tls \in BOOLEAN, Record(r, tls)
    PROVE  CertInv'
<1>t. CertTypes /\ Spaced /\ Warned
  BY DEF CertInv
<1>1. CASE tls /\ InWindow /\ shouldWarn
  <2>1. /\ age' = 0 /\ rec' = [rec EXCEPT ![r] = "load"] /\ rec[r] = "idle"
        /\ UNCHANGED <<remaining, elapsed, sent, warned, lost>>
        /\ looked' \in BOOLEAN
    BY <1>1, <1>t DEF Record, CertTypes
  <2>2. CertTypes'
    BY <1>t, <2>1 DEF CertTypes
  <2>3. InFlight' = InFlight \cup {r} /\ r \notin InFlight
    BY <1>t, <2>1 DEF InFlight, CertTypes
  <2>4. Marks' = Marks + 1
    BY <1>t, <2>1, <2>3, FlightSize DEF Marks, CertTypes
  <2>5. Marks * Cooldown <= elapsed
    <3>1. CASE age = Never
      BY <1>t, <3>1, CertAssumption DEF Spaced, CertTypes
    <3>2. CASE age # Never
      <4>1. age \in Nat /\ age >= Cooldown
        BY <1>1, <1>t, <3>2 DEF shouldWarn, CertTypes
      <4>2. QED
        BY <1>t, <3>2, <4>1, MoreMarks, FlightSize, CertAssumption DEF Spaced, CertTypes
    <3>3. QED
      BY <3>1, <3>2
  <2>6. Spaced'
    BY <1>t, <2>1, <2>4, <2>5, MoreMarks, FlightSize, CertAssumption
       DEF Spaced, CertTypes
  <2>7. Warned'
    BY <2>3 DEF Warned
  <2>8. QED
    BY <2>2, <2>6, <2>7 DEF CertInv
<1>2. CASE ~(tls /\ InWindow /\ shouldWarn)
  <2>1. UNCHANGED <<remaining, age, rec, elapsed, sent, warned, lost>>
    BY <1>2 DEF Record
  <2>2. looked' = (looked \/ (tls /\ InWindow))
    BY DEF Record
  <2>3. CertTypes' /\ Spaced'
    BY <1>t, <2>1, <2>2 DEF CertTypes, Spaced, Marks, InFlight
  <2>4. Warned'
    BY <1>2, <1>t, <2>1, <2>2 DEF Warned, InFlight, shouldWarn
  <2>5. QED
    BY <2>3, <2>4 DEF CertInv
<1>3. QED
  BY <1>1, <1>2

\* A goroutine is done, with its warning or without.
LEMMA EndsKeep ==
    ASSUME CertInv, NEW r \in Recorders, rec[r] # "idle",
           rec' = [rec EXCEPT ![r] = "idle"],
           UNCHANGED <<remaining, age, elapsed, looked>>,
           \/ UNCHANGED sent /\ UNCHANGED warned /\ lost' = TRUE
           \/ sent' = sent + 1 /\ warned' = TRUE /\ UNCHANGED lost
    PROVE  CertInv'
<1>t. CertTypes /\ Spaced
  BY DEF CertInv
<1>1. CertTypes'
  <2>1. rec' \in [Recorders -> {"idle", "load", "notify"}]
    BY <1>t DEF CertTypes
  <2>2. sent' \in Nat /\ sent <= sent' /\ sent' <= sent + 1
    BY <1>t DEF CertTypes
  <2>3. warned' \in BOOLEAN /\ lost' \in BOOLEAN
    BY <1>t DEF CertTypes
  <2>4. QED
    BY <1>t, <2>1, <2>2, <2>3 DEF CertTypes
<1>2. InFlight' = InFlight \ {r} /\ r \in InFlight
  BY <1>t DEF InFlight, CertTypes
<1>3. Marks' \in Nat /\ Marks' <= Marks /\ Marks \in Nat
  <2>1. /\ Cardinality(InFlight') = Cardinality(InFlight) - 1
        /\ Cardinality(InFlight) >= 1 /\ Cardinality(InFlight) \in Nat
    BY <1>2, <1>t, FlightSize
  <2>2. sent \in Nat /\ sent' \in {sent, sent + 1}
    BY <1>t DEF CertTypes
  <2>3. QED
    BY <2>1, <2>2 DEF Marks
<1>4. Spaced'
  <2>1. age = Never => Marks' = 0
    BY <1>t, <1>3 DEF Spaced
  <2>2. ASSUME age # Never PROVE Marks' * Cooldown + age <= elapsed + Cooldown
    <3>1. /\ Marks' * Cooldown <= Marks * Cooldown
          /\ Marks' * Cooldown \in Nat /\ Marks * Cooldown \in Nat
      BY <1>3, FewerMarks
    <3>2. Marks * Cooldown + age <= elapsed + Cooldown
      BY <1>t, <2>2 DEF Spaced
    <3>3. age \in Nat /\ elapsed \in Nat /\ Cooldown \in Nat
      BY <1>t, <2>2, CertAssumption DEF CertTypes
    <3>4. QED
      BY <3>1, <3>2, <3>3
  <2>3. QED
    BY <2>1, <2>2 DEF Spaced
<1>5. Warned'
  BY DEF Warned
<1>6. QED
  BY <1>1, <1>4, <1>5 DEF CertInv

LEMMA CertStep ==
    ASSUME CertInv,
           \/ \E r \in Recorders, tls \in BOOLEAN : Record(r, tls)
           \/ \E r \in Recorders : Load(r) \/ Notify(r)
           \/ Tick \/ Restart
    PROVE  CertInv'
<1>t. CertTypes /\ Spaced /\ Warned
  BY DEF CertInv
<1>1. ASSUME NEW r \in Recorders, NEW tls \in BOOLEAN, Record(r, tls) PROVE CertInv'
  BY <1>1, RecordKeeps
<1>2. ASSUME NEW r \in Recorders, Load(r) PROVE CertInv'
  <2>1. CASE rec' = [rec EXCEPT ![r] = "notify"] /\ UNCHANGED lost
    <3>1. CertTypes'
      BY <1>2, <1>t, <2>1 DEF Load, CertTypes
    <3>2. InFlight' = InFlight
      BY <1>2, <1>t, <2>1 DEF Load, InFlight, CertTypes
    <3>3. QED
      BY <1>2, <1>t, <2>1, <3>1, <3>2 DEF Load, CertInv, Spaced, Warned, Marks
  <2>2. CASE rec' = [rec EXCEPT ![r] = "idle"] /\ lost' = TRUE
    BY <1>2, <2>2, EndsKeep DEF Load
  <2>3. QED
    BY <1>2, <2>1, <2>2 DEF Load
<1>3. ASSUME NEW r \in Recorders, Notify(r) PROVE CertInv'
  BY <1>3, EndsKeep DEF Notify
<1>4. CASE Tick
  <2>1. CertTypes'
    BY <1>4, <1>t DEF Tick, CertTypes
  <2>2. InFlight' = InFlight /\ Marks' = Marks
    BY <1>4 DEF Tick, InFlight, Marks
  <2>3. age' = Never <=> age = Never
    BY <1>4, <1>t, CertAssumption DEF Tick, CertTypes
  <2>4. Spaced'
    BY <1>4, <1>t, <2>2, <2>3, FewerMarks, FlightSize, CertAssumption
       DEF Tick, Spaced, CertTypes
  <2>5. Warned'
    BY <1>4, <1>t, <2>2, <2>3 DEF Tick, Warned
  <2>6. QED
    BY <2>1, <2>4, <2>5 DEF CertInv
<1>5. CASE Restart
  <2>1. CertTypes'
    BY <1>5, <1>t DEF Restart, CertTypes
  <2>2. InFlight' = {} /\ Marks' = 0
    BY <1>5, FS_EmptySet DEF Restart, InFlight, Marks
  <2>3. lost' = (lost \/ InFlight # {})
    BY <1>5 DEF Restart, InFlight
  <2>4. Warned'
    BY <1>5, <1>t, <2>2, <2>3 DEF Restart, Warned
  <2>5. QED
    BY <1>5, <2>1, <2>2, <2>4 DEF Restart, CertInv, Spaced
<1>6. QED
  BY <1>1, <1>2, <1>3, <1>4, <1>5

-----------------------------------------------------------------------------
(* The path.                                                               *)

LEMMA PathStart == PathInit => LoopInv /\ CertInv
BY LoopInit, CertStart DEF PathInit

LEMMA PathStep == LoopInv /\ CertInv /\ [PathNext]_pathVars => (LoopInv /\ CertInv)'
<1> SUFFICES ASSUME LoopInv, CertInv, [PathNext]_pathVars PROVE LoopInv' /\ CertInv'
  OBVIOUS
<1>1. ASSUME UNCHANGED vars PROVE LoopInv'
  BY <1>1 DEF vars, LoopInv, LoopTypes, Retried, ContextSeen, VerdictFollowsLastTry,
              AbortedByCancel, LastTry
<1>2. ASSUME UNCHANGED certVars PROVE CertInv'
  BY <1>2 DEF certVars, CertInv, CertTypes, Spaced, Warned, Marks, InFlight
<1>3. CASE Check
  BY <1>2, <1>3, LoopStep DEF Check
<1>4. CASE RecordCheck
  <2>1. TLSSeen \in BOOLEAN /\ cancelled' \in BOOLEAN
    BY <1>4 DEF TLSSeen, RecordCheck, LoopInv, LoopTypes
  <2>2. QED
    BY <1>4, <2>1, NewCheck, CertStep, ConsumerAssumption DEF RecordCheck
<1>5. CASE RecordOther
  BY <1>1, <1>5, CertStep DEF RecordOther
<1>6. CASE Warn \/ Time
  BY <1>1, <1>6, CertStep DEF Warn, Time
<1>7. CASE NewProcess
  BY <1>7, NewCheck, CertStep DEF NewProcess
<1>8. CASE UNCHANGED pathVars
  BY <1>1, <1>2, <1>8 DEF pathVars
<1>9. QED
  BY <1>3, <1>4, <1>5, <1>6, <1>7, <1>8 DEF PathNext

THEOREM PathAlways == PathSpec => [](LoopInv /\ CertInv)
BY PathStart, PathStep, PTL DEF PathSpec

\* For any number of retries: a check makes no more requests than it may, retries
\* only transient failures, and says what the last request came to.
THEOREM ChecksTellTheLastTry == PathSpec => []VerdictFollowsLastTry
BY PathAlways, PTL DEF LoopInv

\* A check reports a cancellation only if there was one, and always if it began
\* after it.
THEOREM AbortsAreCancellations == PathSpec => []AbortedByCancel
BY PathAlways, PTL DEF LoopInv

\* However many goroutines record checks, a process sends no more warnings than
\* there are cooldowns in its life, and one.
THEOREM OneWarningPerCooldown == PathSpec => []WarningsAreSpaced
<1>1. CertInv => WarningsAreSpaced
  <2> SUFFICES ASSUME CertTypes, Spaced PROVE WarningsAreSpaced
    BY DEF CertInv
  <2>1. elapsed \div Cooldown \in Nat
    BY CertAssumption DEF CertTypes
  <2>2. sent \in Nat /\ sent <= Marks /\ Marks \in Nat
    BY FlightSize DEF Marks, CertTypes
  <2>3. CASE age = Never
    BY <2>1, <2>2, <2>3 DEF Spaced, WarningsAreSpaced
  <2>4. CASE age # Never /\ sent > 0
    <3> DEFINE before == sent - 1
    <3>1. before \in Nat /\ sent = before + 1
      BY <2>2, <2>4
    <3> HIDE DEF before
    <3>2. sent * Cooldown <= elapsed + Cooldown
      BY <2>2, <2>4, FewerMarks, CertAssumption DEF Spaced, CertTypes
    <3>3. before * Cooldown <= elapsed
      BY <3>1, <3>2, MoreMarks, CertAssumption DEF CertTypes
    <3>4. before <= elapsed \div Cooldown
      BY <3>1, <3>3, CertAssumption DEF CertTypes
    <3>5. QED
      BY <3>1, <3>4, <2>1 DEF WarningsAreSpaced
  <2>5. QED
    BY <2>1, <2>2, <2>3, <2>4 DEF WarningsAreSpaced
<1>2. QED
  BY <1>1, PathAlways, PTL

\* A certificate that was seen within the window has been warned about when it
\* expires, unless a mark lost its warning or one is on its way.
THEOREM ExpiryIsAnnounced == PathSpec => []WarnedBeforeExpiry
<1>1. CertInv => WarnedBeforeExpiry
  BY DEF CertInv, Warned, WarnedBeforeExpiry, InFlight
<1>2. QED
  BY <1>1, PathAlways, PTL
=============================================================================
