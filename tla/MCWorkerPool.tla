---------------------------- MODULE MCWorkerPool ----------------------------
(***************************************************************************)
(* Small instances of WorkerPool.  Its workers and jobs are model values,  *)
(* given by the .cfg; the run checks liveness too, so it has no symmetry.  *)
(***************************************************************************)
EXTENDS WorkerPool
=============================================================================
