------------------------------ MODULE CheckPath ------------------------------
(***************************************************************************)
(* The checks of one https monitor, from the request to the recorders:     *)
(* RunCheck makes a check, MultiRecorder hands it on (to the log, to       *)
(* PersistingRecorder and IncidentService, which Scheduler and             *)
(* IncidentService model, and to CertWatchService), and the next one       *)
(* begins.  The other goroutines of CertWatch record checks of their own.  *)
(***************************************************************************)
EXTENDS RunCheck, CertWatch

CONSTANT Consumer     \* the goroutine that the checks of RunCheck come to

ASSUME ConsumerAssumption == Consumer \in Recorders

pathVars == <<vars, certVars>>

PathInit == Init /\ CertInit

Check == (Cancel \/ Step) /\ UNCHANGED certVars

\* RunCheck keeps the certificate of a response, whatever its code, and has none
\* if the last request failed.
TLSSeen == LastTry \in Answer

NextCheck ==
    /\ at' = "send" /\ tries' = <<>> /\ verdict' = "none"
    /\ startedLate' = cancelled'

RecordCheck ==
    /\ at = "done"
    /\ Record(Consumer, TLSSeen)
    /\ UNCHANGED cancelled
    /\ NextCheck

RecordOther ==
    /\ \E r \in Recorders \ {Consumer}, tls \in BOOLEAN : Record(r, tls)
    /\ UNCHANGED vars

Warn == (\E r \in Recorders : Load(r) \/ Notify(r)) /\ UNCHANGED vars

Time == Tick /\ UNCHANGED vars

\* The cancelled process has ended.
NewProcess ==
    /\ cancelled /\ at = "done"
    /\ cancelled' = FALSE
    /\ NextCheck
    /\ Restart

PathNext == Check \/ RecordCheck \/ RecordOther \/ Warn \/ Time \/ NewProcess

\* Each request has a timeout and each backoff a timer.
PathSpec == PathInit /\ [][PathNext]_pathVars /\ WF_pathVars(Step /\ UNCHANGED certVars)

-----------------------------------------------------------------------------
\* RunCheck returns: the retry loop ends whatever the network does.
Returns == at = "send" ~> at = "done"
=============================================================================
