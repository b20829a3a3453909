---------------------------- MODULE ResourcePool ----------------------------
(***************************************************************************)
(* The GPU pool of the CI agent (.ci/ci_resource.py, class ResourcePool).  *)
(*                                                                         *)
(* allocate() probes the devices and the system memory WITHOUT the pool    *)
(* lock and only then, under the lock, filters the probed devices by the   *)
(* set of devices the pool handed out and picks the least loaded ones.     *)
(* The probe and the pick are therefore two actions, and release(), which  *)
(* takes the pool lock alone, may run between them.                        *)
(*                                                                         *)
(* The module has no behaviour of its own: the threads that call the pool  *)
(* are in Scheduler, which extends it.                                     *)
(***************************************************************************)
EXTENDS Integers, FiniteSets

CONSTANTS
  Gpus,       \* indices of the devices of the machine
  Threshold,  \* utilization_threshold: a device at or above it is not free
  MaxUtil,    \* utilization readings are 0..MaxUtil
  MaxMem      \* available-memory readings are 0..MaxMem

ASSUME GpusFinite == IsFiniteSet(Gpus)
ASSUME LevelsAreNat == /\ Threshold \in Nat /\ MaxUtil \in Nat /\ MaxMem \in Nat

VARIABLES
  allocated,  \* _allocated: devices handed out and not yet returned
  reading     \* what the allocate() call in progress has probed, or NoReading

poolVars == <<allocated, reading>>

(* One probe: the utilization of the devices that were reported and the    *)
(* memory level.  A line that does not parse drops its device; all are     *)
(* dropped when the vendor tool is missing, fails or times out.            *)
Reading(util, mem) == [util |-> util, mem |-> mem]

Readings == {Reading(u, m) : u \in UNION {[S -> 0..MaxUtil] : S \in SUBSET Gpus},
                             m \in 0..MaxMem}

NoReading == [none |-> TRUE]

\* mutant of Available: devices already handed out are not excluded
AvailableIgnoresTaken(r, taken) == {g \in DOMAIN r.util : r.util[g] < Threshold}

(* The devices of a reading that allocate() may use: reported, not handed  *)
(* out by this pool, and below the utilization threshold.                  *)
Available(r, taken) == {g \in DOMAIN r.util : g \notin taken /\ r.util[g] < Threshold}

(* The choices `available.sort(key=utilization)[:n]` can make: n devices,  *)
(* none of them busier than an available one left behind.                  *)
Selections(r, taken, n) ==
  {S \in SUBSET Available(r, taken) :
     /\ Cardinality(S) = n
     /\ \A s \in S, g \in Available(r, taken) \ S : r.util[s] <= r.util[g]}

(* Enough free devices and enough memory for a request of n GPUs.          *)
Fits(r, taken, n, mem) ==
  /\ Cardinality(Available(r, taken)) >= n
  /\ r.mem >= mem

(* allocate(), before the lock: take a probe.                              *)
Detect(r) ==
  /\ reading = NoReading
  /\ reading' = r
  /\ UNCHANGED allocated

(* allocate(), under the lock: hand out S, one of the possible selections. *)
(* A request for no GPU only looks at memory and hands out nothing.        *)
Grant(S, n, mem) ==
  /\ reading # NoReading
  /\ IF n = 0
       THEN reading.mem >= mem /\ S = {}
       ELSE Fits(reading, allocated, n, mem) /\ S \in Selections(reading, allocated, n)
  /\ allocated' = allocated \cup S
  /\ reading' = NoReading

(* allocate() returns ([], False).                                         *)
Refuse(n, mem) ==
  /\ reading # NoReading
  /\ IF n = 0 THEN reading.mem < mem ELSE ~Fits(reading, allocated, n, mem)
  /\ reading' = NoReading
  /\ UNCHANGED allocated

(* release(gpu_ids), under the pool lock.                                  *)
Release(S) ==
  /\ allocated' = allocated \ S
  /\ UNCHANGED reading

PoolInit ==
  /\ allocated = {}
  /\ reading = NoReading

PoolTypeOK ==
  /\ allocated \subseteq Gpus
  /\ reading \in Readings \cup {NoReading}
=============================================================================
