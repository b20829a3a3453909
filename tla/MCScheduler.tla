----------------------------- MODULE MCScheduler ----------------------------
(***************************************************************************)
(* Small instances of Scheduler: up to three jobs compete for two devices, *)
(* j3 needs both, j4 has resources that do not parse and j5 is configured  *)
(* with `gpu_ids: all`, which reserves none.                               *)
(***************************************************************************)
EXTENDS Scheduler

CONSTANTS j1, j2, j3, j4, j5, c1, c2, g1, g2, w1, w2

MCNeed == [j \in Jobs |-> CASE j = j3 -> 2 [] j = j5 -> 0 [] OTHER -> 1]
MCMem == [j \in Jobs |-> IF j = j3 THEN 0 ELSE 1]
\* j1 and j2 are the same job of one commit, delivered twice
MCContextOf == [j \in Jobs |-> IF j \in {j1, j2} THEN c1 ELSE c2]

\* The workers are interchangeable, and the devices; so are j1 and j2 where
\* both are among the jobs.
MCSymmetry == Permutations({w1, w2}) \cup Permutations({g1, g2})
MCSymmetryTwins == MCSymmetry \cup Permutations({j1, j2})
=============================================================================
