-------------------------- MODULE MCCachedExecutors -------------------------
(* Every kernel of the table, two streams; two addresses for each tensor   *)
(* (and one move of each arena) tell a refreshed address from an old one.  *)
EXTENDS CachedExecutors

CONSTANTS s1, s2

MCStreams == {s1, s2}
MCKernels == DOMAIN KernelTable
=============================================================================
