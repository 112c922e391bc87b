---------------------------- MODULE MCWorkerPool ----------------------------
(***************************************************************************)
(* Small instances of WorkerPool: jobs and workers are model values, given *)
(* in each .cfg.  No symmetry: WorkerPool.cfg checks liveness too.         *)
(***************************************************************************)
EXTENDS WorkerPool, TLC
=============================================================================
