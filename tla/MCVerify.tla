------------------------------ MODULE MCVerify ------------------------------
(* Verify on a few files, with a worker for every PerWorker files.           *)
EXTENDS Verify
=============================================================================
