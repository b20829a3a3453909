------------------------------ MODULE JobRegistry ------------------------------
(***************************************************************************)
(* What an agent promises about the jobs it is given, as GET /api/job/{id} *)
(* shows it: a submitted job is turned away or queued, runs once and ends  *)
(* once.  RemoteDispatch relies on it; Scheduler implements it.            *)
(***************************************************************************)
CONSTANT Jobs     \* jobs that may be submitted

VARIABLE status     \* status[j]: "new" until it is submitted

RegistryInit == status = [j \in Jobs |-> "new"]

Move(j, from, to) ==
    /\ status[j] = from
    /\ status' = [status EXCEPT ![j] = to]

RegistryNext ==
    \E j \in Jobs :
        \/ Move(j, "new", "queued")
        \/ Move(j, "new", "rejected")
        \/ Move(j, "queued", "running")
        \/ \E s \in {"success", "failure"} : Move(j, "running", s)

RegistrySpec == RegistryInit /\ [][RegistryNext]_status
===============================================================================
