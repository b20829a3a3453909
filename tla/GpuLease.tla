------------------------------ MODULE GpuLease ------------------------------
(***************************************************************************)
(* What the CI agent promises about the devices of its machine, without    *)
(* threads, queues or probes: a job is given a set of GPUs nobody else     *)
(* holds, holds exactly that set, and gives it back once.                  *)
(***************************************************************************)
CONSTANTS
  Jobs,   \* jobs that may ask for devices
  Gpus    \* devices of the machine

VARIABLES
  phase,  \* phase[j]: "idle" before the lease, "held" during it, "returned" after
  lease   \* lease[j]: devices job j holds now

leaseVars == <<phase, lease>>

LeaseTypeOK ==
  /\ phase \in [Jobs -> {"idle", "held", "returned"}]
  /\ lease \in [Jobs -> SUBSET Gpus]

LeaseInit ==
  /\ phase = [j \in Jobs |-> "idle"]
  /\ lease = [j \in Jobs |-> {}]

(* Job j gets the devices S, all of them free.                             *)
Acquire(j, S) ==
  /\ phase[j] = "idle"
  /\ \A k \in Jobs : lease[k] \cap S = {}
  /\ phase' = [phase EXCEPT ![j] = "held"]
  /\ lease' = [lease EXCEPT ![j] = S]

(* Job j gives back everything it holds, and never asks again.             *)
Return(j) ==
  /\ phase[j] = "held"
  /\ phase' = [phase EXCEPT ![j] = "returned"]
  /\ lease' = [lease EXCEPT ![j] = {}]

LeaseNext ==
  \E j \in Jobs : Return(j) \/ \E S \in SUBSET Gpus : Acquire(j, S)

LeaseSpec == LeaseInit /\ [][LeaseNext]_leaseVars

(* No device is held by two jobs.                                          *)
Disjoint == \A j, k \in Jobs : j # k => lease[j] \cap lease[k] = {}
=============================================================================
