------------------------- MODULE MCIncidentService -------------------------
(***************************************************************************)
(* Small instances of IncidentService.                                     *)
(***************************************************************************)
EXTENDS IncidentService, TLC

\* Monitors differ in nothing but their name, and so do recorders.
Interchangeable == Permutations(Monitors) \cup Permutations(Recorders)
=============================================================================
