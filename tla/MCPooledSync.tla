----------------------------- MODULE MCPooledSync ----------------------------
(* The instances of MCIdentitySync behind a pool.                           *)
EXTENDS PooledSync, MCIdentitySync
=============================================================================
