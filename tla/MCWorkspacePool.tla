--------------------------- MODULE MCWorkspacePool --------------------------
(***************************************************************************)
(* Small instances of WorkspacePool.                                       *)
(***************************************************************************)
EXTENDS WorkspacePool, TLC

CONSTANTS t1, t2, s1, s2, b1, b2, b3

\* rms_norm: a `temp` arena and a workspace; linear: a bigger workspace
MCOps == {"rms_norm", "linear"}
MCProgram ==
  [o \in MCOps |->
     IF o = "rms_norm"
       THEN << [slot |-> "temp", need |-> 1, uses |-> {}],
               [slot |-> "workspace", need |-> 1, uses |-> {1, 2}] >>
       ELSE << [slot |-> "workspace", need |-> 2, uses |-> {1}] >>]
MCSlots == {"temp", "workspace"}

\* Threads, streams and addresses are interchangeable.
MCSymmetry ==
  Permutations({t1, t2}) \cup Permutations({s1, s2}) \cup Permutations({b1, b2, b3})
=============================================================================
