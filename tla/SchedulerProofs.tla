--------------------------- MODULE SchedulerProofs --------------------------
(***************************************************************************)
(* Proofs about Scheduler, for every number of jobs, devices and threads.  *)
(*                                                                         *)
(* The inductive invariant IInv says where each request is (Placed: at one *)
(* place only, whatever the scans, the thread pool and the workers do) and *)
(* what the pool's books say (LeasesExact).  Placed is needed because two  *)
(* workers with the same job would return its devices twice, the second    *)
(* time under the job they went to in between.                             *)
(*                                                                         *)
(* The last part is about where Scheduler comes to rest: no request is     *)
(* dropped on the way, none is left in the queue for want of a wakeup, and *)
(* the commit statuses show how the jobs ended.  Each holds under the      *)
(* assumptions its theorem names.                                          *)
(***************************************************************************)
EXTENDS Scheduler, FiniteSetTheorems, SequenceTheorems, TLAPS

(* Appending adds one element, and keeps a sequence without repetitions so.*)
LEMMA AppendSet ==
  ASSUME NEW S, NEW s \in Seq(S), NEW x \in S
  PROVE  /\ Append(s, x) \in Seq(S)
         /\ ToSet(Append(s, x)) = ToSet(s) \cup {x}
         /\ IsInjective(s) /\ x \notin ToSet(s) => IsInjective(Append(s, x))
<1>1. Append(s, x) \in Seq(S)
  OBVIOUS
<1>2. ToSet(Append(s, x)) = ToSet(s) \cup {x}
  <2>1. /\ DOMAIN Append(s, x) = DOMAIN s \cup {Len(s) + 1}
        /\ Append(s, x)[Len(s) + 1] = x
        /\ \A i \in DOMAIN s : Append(s, x)[i] = s[i]
    OBVIOUS
  <2> QED BY <2>1, Zenon DEF ToSet
<1>3. IsInjective(s) /\ x \notin ToSet(s) => IsInjective(Append(s, x))
  BY DEF ToSet, IsInjective
<1> QED BY <1>1, <1>2, <1>3

(* The empty sequence has no element and no repetition.                    *)
LEMMA EmptySet == ToSet(<<>>) = {} /\ IsInjective(<<>>)
BY DEF ToSet, IsInjective

(* A non-empty sequence has a head and a tail of the same type.            *)
LEMMA HeadTail ==
  ASSUME NEW S, NEW s \in Seq(S), s # <<>>
  PROVE  Head(s) \in S /\ Tail(s) \in Seq(S)
OBVIOUS

(* Removing the head of a sequence without repetitions removes one element. *)
LEMMA TailSet ==
  ASSUME NEW S, NEW s \in Seq(S), s # <<>>, IsInjective(s)
  PROVE  /\ Head(s) \in S /\ Head(s) \in ToSet(s)
         /\ Tail(s) \in Seq(S)
         /\ ToSet(Tail(s)) = ToSet(s) \ {Head(s)}
         /\ IsInjective(Tail(s))
<1>1. Head(s) \in S /\ Head(s) \in ToSet(s) /\ Tail(s) \in Seq(S)
  BY DEF ToSet
<1>2. ToSet(Tail(s)) = ToSet(s) \ {Head(s)}
  <2>1. /\ Head(s) = s[1] /\ DOMAIN s = 1..Len(s) /\ DOMAIN Tail(s) = 1..(Len(s) - 1)
        /\ \A i \in 1..(Len(s) - 1) : Tail(s)[i] = s[i + 1]
    OBVIOUS
  <2>2. ASSUME NEW i \in DOMAIN s, s[i] # Head(s) PROVE s[i] \in ToSet(Tail(s))
    <3>1. i - 1 \in DOMAIN Tail(s) /\ Tail(s)[i - 1] = s[i]
      BY <2>1, <2>2
    <3> QED BY <3>1 DEF ToSet
  <2>3. ASSUME NEW i \in DOMAIN Tail(s)
        PROVE Tail(s)[i] \in ToSet(s) /\ Tail(s)[i] # Head(s)
    <3>1. i + 1 \in DOMAIN s /\ Tail(s)[i] = s[i + 1] /\ i + 1 # 1 /\ 1 \in DOMAIN s
      BY <2>1, <2>3
    <3> QED BY <2>1, <3>1 DEF ToSet, IsInjective
  <2> QED BY <2>2, <2>3, Zenon DEF ToSet
<1>3. IsInjective(Tail(s))
  BY DEF IsInjective
<1> QED BY <1>1, <1>2, <1>3

-----------------------------------------------------------------------------
RunPcs == {"post_pending", "start", "read", "wait", "post_final", "except",
           "release", "finish"}

(* Where the threads are: only the owner of the lock scans, a probe is for *)
(* the head of the queue, and exactly the workers inside _run_job have a   *)
(* request.                                                                *)
ControlOK ==
  /\ \A t \in Submitters \cup Workers :
       /\ pc[t] \in {"scan", "allocate"} => lock = t
       /\ pc[t] = "allocate" => queue # <<>>
  /\ \A w \in Workers :
       /\ cur[w] # None <=> pc[w] \in RunPcs
       /\ pc[w] \in {"post_final", "release", "finish"} => outcome[w] # "none"

Typed == TypeOK /\ ControlOK

(* A status post, whatever becomes of it, shows a proper state.            *)
LEMMA PostTyped ==
  ASSUME NEW j \in Jobs, NEW s, s \in FinalStates \cup {"pending", "error"}, NEW o,
         status \in [Contexts -> FinalStates \cup {"none", "pending", "error"}],
         Post(j, s, o)
  PROVE  status' \in [Contexts -> FinalStates \cup {"none", "pending", "error"}]
<1>1. ContextOf[j] \in Contexts
  BY DEF Contexts
<1> QED BY <1>1 DEF Post

(* The initial state has the right types.                                  *)
LEMMA InitTyped == Init => Typed
<1> SUFFICES ASSUME Init PROVE Typed
  OBVIOUS
<1> USE DEF Init, Threads, Steps
<1>1. PoolTypeOK
  BY DEF PoolInit, PoolTypeOK
<1>2. /\ pc \in [Threads -> {"idle", "check"}]
      /\ \A t \in Submitters \cup Workers : pc[t] = "idle"
  BY ThreadsDisjoint
<1>3. /\ queue \in Seq(Jobs) /\ remaining \in Seq(Jobs) /\ work \in Seq(Jobs)
      /\ toLaunch \in [Submitters \cup Workers -> Seq(Jobs)]
  OBVIOUS
<1>4. TypeOK
  BY <1>1, <1>2, <1>3 DEF TypeOK, FinalStates
<1>5. ControlOK
  BY <1>2 DEF ControlOK, RunPcs
<1> QED BY <1>4, <1>5 DEF Typed

(* Every step keeps the types and the owner of the lock.                   *)
LEMMA NextTyped == Typed /\ [Next]_vars => Typed'
<1> SUFFICES ASSUME Typed, [Next]_vars PROVE Typed'
  OBVIOUS
<1> USE ThreadsDisjoint, JobConstants
<1> USE DEF Typed, TypeOK, ControlOK, PoolTypeOK, FinalStates, RunPcs, Threads, Steps,
        queueVars, jobVars, runVars, poolVars, Goto
<1>1. ASSUME NEW t \in Submitters, NEW j \in Jobs, Submit(t, j) PROVE Typed'
  BY <1>1 DEF Submit
<1>2. ASSUME NEW t \in Submitters, NEW j \in Jobs, SubmitRejected(t, j) PROVE Typed'
  BY <1>2 DEF SubmitRejected
<1>3. ASSUME NEW t \in Submitters \cup Workers, BeginScan(t) PROVE Typed'
  <2>1. TypeOK'
    BY <1>3 DEF BeginScan
  <2>2. ASSUME NEW u \in Submitters \cup Workers, pc'[u] \in {"scan", "allocate"}
        PROVE  u = t
    BY <1>3, <2>2 DEF BeginScan
  <2>3. ControlOK'
    BY <1>3, <2>2 DEF BeginScan
  <2> QED BY <2>1, <2>3
<1>4. ASSUME NEW t \in Submitters \cup Workers, ProbeFor(t) PROVE Typed'
  BY <1>4 DEF ProbeFor, ProbeReadings, Detect
<1>5. ASSUME NEW t \in Submitters \cup Workers, Place(t) PROVE Typed'
  <2>1. queue # <<>> /\ t \in Threads
    BY <1>5 DEF Place
  <2>2. Head(queue) \in Jobs /\ Tail(queue) \in Seq(Jobs)
    BY <2>1, HeadTail
  <2>3. Append(toLaunch[t], Head(queue)) \in Seq(Jobs)
    BY <2>2
  <2>4. PICK S \in SUBSET Gpus : /\ Grant(S, Need[Head(queue)], Mem[Head(queue)])
                                 /\ jobGpus' = [jobGpus EXCEPT ![Head(queue)] = S]
    BY <1>5 DEF Place
  <2>5. TypeOK'
    BY <1>5, <2>2, <2>3, <2>4 DEF Place, Grant
  <2>6. ControlOK'
    BY <1>5 DEF Place
  <2> QED BY <2>5, <2>6
<1>6. ASSUME NEW t \in Submitters \cup Workers, Defer(t) PROVE Typed'
  <2>1. queue # <<>>
    BY <1>6 DEF Defer
  <2>2. Head(queue) \in Jobs /\ Tail(queue) \in Seq(Jobs)
    BY <2>1, HeadTail
  <2>3. Append(remaining, Head(queue)) \in Seq(Jobs)
    BY <2>2
  <2>4. TypeOK'
    BY <1>6, <2>2, <2>3 DEF Defer, Refuse
  <2>5. ControlOK'
    BY <1>6 DEF Defer, Refuse
  <2> QED BY <2>4, <2>5
<1>7. ASSUME NEW t \in Submitters \cup Workers, ScanRaises(t) PROVE Typed'
  BY <1>7 DEF ScanRaises
<1>8. ASSUME NEW t \in Submitters \cup Workers, EndScan(t) PROVE Typed'
  BY <1>8 DEF EndScan
<1>9. ASSUME NEW t \in Submitters \cup Workers, Launch(t) PROVE Typed'
  <2>1. Head(toLaunch[t]) \in Jobs /\ Tail(toLaunch[t]) \in Seq(Jobs)
    BY <1>9, HeadTail DEF Launch
  <2>2. Append(work, Head(toLaunch[t])) \in Seq(Jobs)
    BY <2>1
  <2>3. TypeOK'
    BY <1>9, <2>1, <2>2 DEF Launch
  <2>4. ControlOK'
    BY <1>9 DEF Launch
  <2> QED BY <2>3, <2>4
<1>10. ASSUME NEW w \in Workers, PickUp(w) PROVE Typed'
  <2>1. Head(work) \in Jobs /\ Tail(work) \in Seq(Jobs)
    BY <1>10, HeadTail DEF PickUp
  <2>2. /\ Goto(w, "idle", "post_pending") /\ cur' = [cur EXCEPT ![w] = Head(work)]
        /\ outcome' = [outcome EXCEPT ![w] = "none"] /\ UNCHANGED <<lock, queue>>
    BY <1>10 DEF PickUp
  <2>3. TypeOK'
    BY <1>10, <2>1 DEF PickUp
  <2>4. ControlOK'
    <3>1. lock' = lock /\ queue' = queue
      BY <2>2
    <3>2. /\ pc'[w] = "post_pending" /\ cur'[w] # None
          /\ \A t \in Threads \ {w} : pc'[t] = pc[t]
          /\ \A v \in Workers \ {w} : cur'[v] = cur[v] /\ outcome'[v] = outcome[v]
      BY <2>1, <2>2
    <3>3. /\ \A u \in Submitters \cup Workers :
                /\ pc[u] \in {"scan", "allocate"} => lock = u
                /\ pc[u] = "allocate" => queue # <<>>
          /\ \A v \in Workers :
                /\ cur[v] # None <=> pc[v] \in RunPcs
                /\ pc[v] \in {"post_final", "release", "finish"} => outcome[v] # "none"
      OBVIOUS
    <3>4. Submitters \cup Workers \subseteq Threads
      OBVIOUS
    <3>5. \A u \in Submitters \cup Workers :
             /\ pc'[u] \in {"scan", "allocate"} => lock' = u
             /\ pc'[u] = "allocate" => queue' # <<>>
      BY ONLY <3>1, <3>2, <3>3, <3>4
    <3>6. \A v \in Workers :
             /\ cur'[v] # None <=> pc'[v] \in RunPcs
             /\ pc'[v] \in {"post_final", "release", "finish"} => outcome'[v] # "none"
      BY ONLY <3>2, <3>3, <3>4 DEF RunPcs
    <3> QED BY ONLY <3>5, <3>6 DEF ControlOK
  <2> QED BY <2>3, <2>4
<1>11. ASSUME NEW w \in Workers, PostPending(w) PROVE Typed'
  <2>1. PICK o \in PostOutcomes : 
            /\ Goto(w, "post_pending", IF o = "raised" THEN "except" ELSE "start")
            /\ Post(cur[w], "pending", o)
            /\ UNCHANGED <<queueVars, toLaunch, work, cur, outcome, container, jobVars,
                           doneEvent, poolVars>>
    BY <1>11 DEF PostPending
  <2>2. cur[w] \in Jobs
    BY <2>1
  <2>3. status' \in [Contexts -> FinalStates \cup {"none", "pending", "error"}]
    BY <2>1, <2>2, PostTyped
  <2>4. TypeOK'
    BY <2>1, <2>3
  <2>5. ControlOK'
    BY <2>1
  <2> QED BY <2>4, <2>5
<1>12. ASSUME NEW w \in Workers, StartContainer(w) PROVE Typed'
  BY <1>12 DEF StartContainer
<1>13. ASSUME NEW w \in Workers, StartFails(w) PROVE Typed'
  BY <1>13 DEF StartFails
<1>14. ASSUME NEW w \in Workers, ReadToEof(w) PROVE Typed'
  BY <1>14 DEF ReadToEof
<1>15. ASSUME NEW w \in Workers, WaitExit(w) PROVE Typed'
  BY <1>15 DEF WaitExit
<1>16. ASSUME NEW w \in Workers, WaitTimeout(w) PROVE Typed'
  <2>1. PICK next \in {"post_final", "except"} :
          /\ Goto(w, "wait", next)
          /\ container' = [container EXCEPT ![cur[w]] = "killed"]
          /\ outcome' \in {outcome, [outcome EXCEPT ![w] = "failure"]}
          /\ next = "post_final" => outcome' = [outcome EXCEPT ![w] = "failure"]
          /\ UNCHANGED <<queueVars, toLaunch, work, cur, status, jobVars, doneEvent, poolVars>>
    BY <1>16 DEF WaitTimeout
  <2>2. /\ outcome \in [Workers -> FinalStates \cup {"none"}]
        /\ outcome' \in {outcome, [outcome EXCEPT ![w] = "failure"]}
    BY <2>1
  <2>3. outcome' \in [Workers -> FinalStates \cup {"none"}]
    BY ONLY <2>2 DEF FinalStates
  <2>4. TypeOK'
    BY <2>1, <2>3
  <2>5. ControlOK'
    BY <2>1, <2>3
  <2> QED BY <2>4, <2>5
<1>17. ASSUME NEW w \in Workers, PostFinal(w) PROVE Typed'
  <2>1. PICK o \in PostOutcomes : 
            /\ Goto(w, "post_final", IF o = "raised" THEN "except" ELSE "release")
            /\ Post(cur[w], outcome[w], o)
            /\ UNCHANGED <<queueVars, toLaunch, work, cur, outcome, container, jobVars,
                           doneEvent, poolVars>>
    BY <1>17 DEF PostFinal
  <2>2. /\ cur[w] \in Jobs
        /\ outcome[w] \in FinalStates \cup {"pending", "error"}
    BY <2>1
  <2>3. status' \in [Contexts -> FinalStates \cup {"none", "pending", "error"}]
    BY <2>1, <2>2, PostTyped
  <2>4. TypeOK'
    BY <2>1, <2>3
  <2>5. ControlOK'
    BY <2>1
  <2> QED BY <2>4, <2>5
<1>18. ASSUME NEW w \in Workers, HandleException(w) PROVE Typed'
  <2>1. PICK o \in PostOutcomes : 
            /\ Goto(w, "except", "release")
            /\ outcome' = [outcome EXCEPT ![w] = IF @ = "none" THEN "failure" ELSE @]
            /\ Post(cur[w], "error", o)
            /\ UNCHANGED <<queueVars, toLaunch, work, cur, container, jobVars, doneEvent,
                           poolVars>>
    BY <1>18 DEF HandleException
  <2>2. cur[w] \in Jobs
    BY <2>1
  <2>3. status' \in [Contexts -> FinalStates \cup {"none", "pending", "error"}]
    BY <2>1, <2>2, PostTyped
  <2>4. TypeOK'
    BY <2>1, <2>3
  <2>5. ControlOK'
    BY <2>1
  <2> QED BY <2>4, <2>5
<1>19. ASSUME NEW w \in Workers, ReleaseGpus(w) PROVE Typed'
  BY <1>19 DEF ReleaseGpus, Release
<1>20. ASSUME NEW w \in Workers, Finish(w) PROVE Typed'
  <2>1. cur[w] \in Jobs
    BY <1>20 DEF Finish
  <2>2. TypeOK'
    BY <1>20, <2>1 DEF Finish
  <2>3. ControlOK'
    BY <1>20 DEF Finish
  <2> QED BY <2>2, <2>3
<1>21. ASSUME NEW w \in Workers, Signal(w) PROVE Typed'
  BY <1>21 DEF Signal
<1>22. ASSUME NEW x \in Waiters, CheckPending(x) PROVE Typed'
  BY <1>22 DEF CheckPending, Unfinished
<1>23. ASSUME NEW x \in Waiters, Wake(x) PROVE Typed'
  BY <1>23 DEF Wake
<1>24. ASSUME NEW j \in Jobs, ContainerCloses(j) PROVE Typed'
  BY <1>24 DEF ContainerCloses
<1>25. ASSUME NEW j \in Jobs, ContainerExits(j) PROVE Typed'
  BY <1>25 DEF ContainerExits
<1>27. ASSUME NEW w \in Workers, ReadFails(w) PROVE Typed'
  BY <1>27 DEF ReadFails
<1>26. CASE UNCHANGED vars
  BY <1>26 DEF vars, schedVars
<1> QED
  BY <1>1, <1>2, <1>3, <1>4, <1>5, <1>6, <1>7, <1>8, <1>9, <1>10, <1>11, <1>12, <1>13, <1>14, <1>15, <1>16, <1>17, <1>18, <1>19, <1>20, <1>21, <1>22, <1>23, <1>24, <1>25, <1>26, <1>27 DEF Next, TrySchedule, RunJob, WaitAll

-----------------------------------------------------------------------------
(* A request waits in one place of the queue or of the scan's remainder.   *)
QueuePlaces ==
  /\ IsInjective(queue) /\ IsInjective(remaining)
  /\ ToSet(queue) \cap ToSet(remaining) = {}
  /\ \A j \in ToSet(queue) \cup ToSet(remaining) : jobState[j] = "queued"

(* A running job has at most one call of _run_job: in one thread's         *)
(* to_launch, in the thread pool's queue, or at one worker.                *)
RunPlaces ==
  /\ IsInjective(work)
  /\ \A j \in ToSet(work) : jobState[j] = "running"
  /\ \A t \in Submitters \cup Workers :
       /\ IsInjective(toLaunch[t])
       /\ \A j \in ToSet(toLaunch[t]) : jobState[j] = "running" /\ j \notin ToSet(work)
       /\ \A u \in Submitters \cup Workers :
            t # u => ToSet(toLaunch[t]) \cap ToSet(toLaunch[u]) = {}
  /\ \A w \in Workers : cur[w] # None =>
       /\ jobState[cur[w]] = "running"
       /\ cur[w] \notin ToSet(work)
       /\ \A t \in Submitters \cup Workers : cur[w] \notin ToSet(toLaunch[t])
       /\ \A v \in Workers : cur[v] = cur[w] => v = w

Placed == Typed /\ QueuePlaces /\ RunPlaces

(* At the start no request is anywhere.                                    *)
LEMMA InitPlaced == Init => Placed
BY InitTyped, EmptySet DEF Init, Placed, QueuePlaces, RunPlaces

(* The elements of a sequence of jobs are jobs.                            *)
LEMMA ToSetInJobs == ASSUME NEW s \in Seq(Jobs) PROVE ToSet(s) \subseteq Jobs
BY DEF ToSet

(* Every step keeps each request in one place.                             *)
LEMMA NextPlaced == Placed /\ [Next]_vars => Placed'
<1> SUFFICES ASSUME Placed, [Next]_vars PROVE Placed'
  OBVIOUS
<1>a. Typed /\ Typed'
  BY NextTyped DEF Placed
<1> USE <1>a, ThreadsDisjoint, JobConstants
<1>b. /\ queue \in Seq(Jobs) /\ remaining \in Seq(Jobs) /\ work \in Seq(Jobs)
      /\ toLaunch \in [Submitters \cup Workers -> Seq(Jobs)]
      /\ jobState \in [Jobs -> FinalStates \cup {"new", "rejected", "queued", "running"}]
      /\ cur \in [Workers -> Jobs \cup {None}]
  BY DEF Typed, TypeOK
<1>c. /\ ToSet(queue) \subseteq Jobs /\ ToSet(remaining) \subseteq Jobs
      /\ ToSet(work) \subseteq Jobs
      /\ \A t \in Submitters \cup Workers : ToSet(toLaunch[t]) \subseteq Jobs
  BY <1>b, ToSetInJobs
<1> USE <1>b, <1>c
<1> USE DEF Placed, queueVars, jobVars, runVars, poolVars, Goto
<1>1. ASSUME NEW t \in Submitters, NEW j \in Jobs, Submit(t, j) PROVE Placed'
  <2>1. /\ queue' = Append(queue, j) /\ j \notin ToSet(queue) /\ j \notin ToSet(remaining)
        /\ jobState' = [jobState EXCEPT ![j] = "queued"]
        /\ UNCHANGED <<remaining, toLaunch, work, cur>>
    BY <1>1 DEF Submit, QueuePlaces
  <2>2. ToSet(queue') = ToSet(queue) \cup {j} /\ IsInjective(queue')
    BY <2>1, AppendSet DEF QueuePlaces
  <2>3. QueuePlaces'
    BY <2>1, <2>2 DEF QueuePlaces
  <2>4. jobState[j] = "new"
    BY <1>1 DEF Submit
  <2>5. RunPlaces'
    BY <2>1, <2>4 DEF RunPlaces
  <2> QED BY <2>3, <2>5
<1>2. ASSUME NEW t \in Submitters, NEW j \in Jobs, SubmitRejected(t, j) PROVE Placed'
  <2>1. /\ jobState[j] = "new" /\ jobState' = [jobState EXCEPT ![j] = "rejected"]
        /\ UNCHANGED <<queue, remaining, toLaunch, work, cur>>
    BY <1>2 DEF SubmitRejected
  <2>2. QueuePlaces'
    BY <2>1 DEF QueuePlaces
  <2>3. RunPlaces'
    BY <2>1 DEF RunPlaces
  <2> QED BY <2>2, <2>3
<1>3. ASSUME NEW t \in Submitters \cup Workers, BeginScan(t) PROVE Placed'
  <2>1. /\ remaining' = <<>> /\ toLaunch' = [toLaunch EXCEPT ![t] = <<>>]
        /\ UNCHANGED <<queue, work, cur, jobState>>
    BY <1>3 DEF BeginScan
  <2>2. QueuePlaces'
    BY <2>1, EmptySet DEF QueuePlaces
  <2>3. RunPlaces'
    BY <2>1, EmptySet DEF RunPlaces
  <2> QED BY <2>2, <2>3
<1>4. ASSUME NEW t \in Submitters \cup Workers, ProbeFor(t) PROVE Placed'
  BY <1>4 DEF ProbeFor, QueuePlaces, RunPlaces
<1>5. ASSUME NEW t \in Submitters \cup Workers, Place(t) PROVE Placed'
  <2> DEFINE j == Head(queue)
  <2>1. /\ queue # <<>>
        /\ queue' = Tail(queue) /\ jobState' = [jobState EXCEPT ![j] = "running"]
        /\ toLaunch' = [toLaunch EXCEPT ![t] = Append(@, j)]
        /\ UNCHANGED <<remaining, work, cur>>
    BY <1>5 DEF Place, Typed, ControlOK
  <2>2. /\ j \in Jobs /\ j \in ToSet(queue)
        /\ ToSet(queue') = ToSet(queue) \ {j} /\ IsInjective(queue')
    BY <2>1, TailSet DEF QueuePlaces
  <2>3. jobState[j] = "queued" /\ j \notin ToSet(remaining)
    BY <2>2 DEF QueuePlaces
  <2>4. QueuePlaces'
    BY <2>1, <2>2, <2>3 DEF QueuePlaces
  <2>5. \A u \in Submitters \cup Workers : j \notin ToSet(toLaunch[u])
    BY <2>3 DEF RunPlaces
  <2>6. ToSet(toLaunch'[t]) = ToSet(toLaunch[t]) \cup {j} /\ IsInjective(toLaunch'[t])
    BY <2>1, <2>2, <2>5, AppendSet DEF RunPlaces
  <2>7. /\ \A u \in (Submitters \cup Workers) \ {t} : toLaunch'[u] = toLaunch[u]
        /\ j \notin ToSet(work) /\ \A w \in Workers : cur[w] # j
        /\ \A k \in Jobs : k # j => jobState'[k] = jobState[k]
        /\ jobState'[j] = "running"
    BY <2>1, <2>2, <2>3 DEF RunPlaces
  <2>8. RunPlaces'
    <3> HIDE DEF j
    <3>1. IsInjective(work') /\ \A k \in ToSet(work') : jobState'[k] = "running"
      BY <2>1, <2>2, <2>5, <2>6, <2>7 DEF RunPlaces
    <3>2. ASSUME NEW u \in Submitters \cup Workers
          PROVE  /\ IsInjective(toLaunch'[u])
                 /\ \A k \in ToSet(toLaunch'[u]) : jobState'[k] = "running" /\ k \notin ToSet(work')
      BY <2>1, <2>2, <2>5, <2>6, <2>7 DEF RunPlaces
    <3>3. ASSUME NEW u \in Submitters \cup Workers, NEW v \in Submitters \cup Workers, u # v
          PROVE  ToSet(toLaunch'[u]) \cap ToSet(toLaunch'[v]) = {}
      <4>1. ToSet(toLaunch[u]) \cap ToSet(toLaunch[v]) = {}
        BY <3>3 DEF RunPlaces
      <4>2. ToSet(toLaunch'[u]) \subseteq ToSet(toLaunch[u]) \cup {j} /\ (u # t => toLaunch'[u] = toLaunch[u])
        BY <2>6, <2>7
      <4>3. ToSet(toLaunch'[v]) \subseteq ToSet(toLaunch[v]) \cup {j} /\ (v # t => toLaunch'[v] = toLaunch[v])
        BY <2>6, <2>7
      <4> QED BY <3>3, <4>1, <4>2, <4>3, <2>5
    <3>4. ASSUME NEW v \in Workers, cur'[v] # None
          PROVE  /\ jobState'[cur'[v]] = "running"
                 /\ cur'[v] \notin ToSet(work')
                 /\ \A u \in Submitters \cup Workers : cur'[v] \notin ToSet(toLaunch'[u])
                 /\ \A x \in Workers : cur'[x] = cur'[v] => x = v
      BY <3>4, <2>1, <2>2, <2>5, <2>6, <2>7 DEF RunPlaces
    <3> QED BY <3>1, <3>2, <3>3, <3>4 DEF RunPlaces
  <2> QED BY <2>4, <2>8
<1>6. ASSUME NEW t \in Submitters \cup Workers, Defer(t) PROVE Placed'
  <2> DEFINE j == Head(queue)
  <2>1. /\ queue # <<>> /\ queue' = Tail(queue) /\ remaining' = Append(remaining, j)
        /\ UNCHANGED <<toLaunch, work, cur, jobState>>
    BY <1>6 DEF Defer, Typed, ControlOK
  <2>2. /\ j \in Jobs /\ j \in ToSet(queue)
        /\ ToSet(queue') = ToSet(queue) \ {j} /\ IsInjective(queue')
    BY <2>1, TailSet DEF QueuePlaces
  <2>3. ToSet(remaining') = ToSet(remaining) \cup {j} /\ IsInjective(remaining')
    BY <2>1, <2>2, AppendSet DEF QueuePlaces
  <2>4. QueuePlaces'
    BY <2>1, <2>2, <2>3 DEF QueuePlaces
  <2>5. RunPlaces'
    BY <2>1 DEF RunPlaces
  <2> QED BY <2>4, <2>5
<1>7. ASSUME NEW t \in Submitters \cup Workers, ScanRaises(t) PROVE Placed'
  <2>1. /\ queue # <<>> /\ queue' = Tail(queue) /\ remaining' = <<>>
        /\ toLaunch' = [toLaunch EXCEPT ![t] = <<>>]
        /\ UNCHANGED <<work, cur, jobState>>
    BY <1>7 DEF ScanRaises
  <2>2. ToSet(queue') \subseteq ToSet(queue) /\ IsInjective(queue')
    BY <2>1, TailSet DEF QueuePlaces
  <2>3. QueuePlaces'
    BY <2>1, <2>2, EmptySet DEF QueuePlaces
  <2>4. RunPlaces'
    BY <2>1, EmptySet DEF RunPlaces
  <2> QED BY <2>3, <2>4
<1>8. ASSUME NEW t \in Submitters \cup Workers, EndScan(t) PROVE Placed'
  <2>1. queue' = remaining /\ remaining' = <<>> /\ UNCHANGED <<toLaunch, work, cur, jobState>>
    BY <1>8 DEF EndScan
  <2>2. QueuePlaces'
    BY <2>1, EmptySet DEF QueuePlaces
  <2>3. RunPlaces'
    BY <2>1 DEF RunPlaces
  <2> QED BY <2>2, <2>3
<1>9. ASSUME NEW t \in Submitters \cup Workers, Launch(t) PROVE Placed'
  <2> DEFINE j == Head(toLaunch[t])
  <2>1. /\ toLaunch[t] # <<>> /\ work' = Append(work, j)
        /\ toLaunch' = [toLaunch EXCEPT ![t] = Tail(@)]
        /\ UNCHANGED <<queue, remaining, cur, jobState>>
    BY <1>9 DEF Launch
  <2>2. /\ j \in Jobs /\ j \in ToSet(toLaunch[t])
        /\ ToSet(toLaunch'[t]) = ToSet(toLaunch[t]) \ {j} /\ IsInjective(toLaunch'[t])
    BY <2>1, TailSet DEF RunPlaces
  <2>3. ToSet(work') = ToSet(work) \cup {j} /\ IsInjective(work')
    BY <2>1, <2>2, AppendSet DEF RunPlaces
  <2>a. \A u \in (Submitters \cup Workers) \ {t} : toLaunch'[u] = toLaunch[u]
    BY <2>1
  <2>b. \A u \in (Submitters \cup Workers) \ {t} : j \notin ToSet(toLaunch[u])
    BY <2>2 DEF RunPlaces
  <2>c. /\ \A w \in Workers : cur[w] # j
        /\ jobState[j] = "running" /\ j \notin ToSet(work)
    <3> HIDE DEF j
    <3>1. jobState[j] = "running" /\ j \notin ToSet(work)
      BY <2>2 DEF RunPlaces
    <3>2. ASSUME NEW w \in Workers, cur[w] = j PROVE FALSE
      <4>1. cur[w] # None
        BY <2>2, <3>2
      <4>2. cur[w] \notin ToSet(toLaunch[t])
        BY <4>1 DEF RunPlaces
      <4> QED BY <2>2, <3>2, <4>2
    <3> QED BY <3>1, <3>2
  <2>4. /\ \A u \in (Submitters \cup Workers) \ {t} :
             toLaunch'[u] = toLaunch[u] /\ j \notin ToSet(toLaunch[u])
        /\ \A w \in Workers : cur[w] # j
        /\ jobState[j] = "running" /\ j \notin ToSet(work)
    BY <2>a, <2>b, <2>c
  <2>5. QueuePlaces'
    BY <2>1 DEF QueuePlaces
  <2>6. RunPlaces'
    <3> HIDE DEF j
    <3>1. IsInjective(work') /\ \A k \in ToSet(work') : jobState'[k] = "running"
      BY <2>1, <2>2, <2>3, <2>4 DEF RunPlaces
    <3>2. ASSUME NEW u \in Submitters \cup Workers
          PROVE  /\ IsInjective(toLaunch'[u])
                 /\ \A k \in ToSet(toLaunch'[u]) : jobState'[k] = "running" /\ k \notin ToSet(work')
      BY <2>1, <2>2, <2>3, <2>4 DEF RunPlaces
    <3>3. ASSUME NEW u \in Submitters \cup Workers, NEW v \in Submitters \cup Workers, u # v
          PROVE  ToSet(toLaunch'[u]) \cap ToSet(toLaunch'[v]) = {}
      <4>1. CASE u = t
        BY <4>1, <3>3, <2>1, <2>2, <2>3, <2>4 DEF RunPlaces
      <4>2. CASE v = t
        BY <4>2, <3>3, <2>1, <2>2, <2>3, <2>4 DEF RunPlaces
      <4>3. CASE u # t /\ v # t
        BY <4>3, <3>3, <2>1, <2>2, <2>3, <2>4 DEF RunPlaces
      <4> QED BY <4>1, <4>2, <4>3
    <3>4. ASSUME NEW v \in Workers, cur'[v] # None
          PROVE  /\ jobState'[cur'[v]] = "running"
                 /\ cur'[v] \notin ToSet(work')
                 /\ \A u \in Submitters \cup Workers : cur'[v] \notin ToSet(toLaunch'[u])
                 /\ \A x \in Workers : cur'[x] = cur'[v] => x = v
      BY <3>4, <2>1, <2>2, <2>3, <2>4 DEF RunPlaces
    <3> QED BY <3>1, <3>2, <3>3, <3>4 DEF RunPlaces
  <2> QED BY <2>5, <2>6
<1>10. ASSUME NEW w \in Workers, PickUp(w) PROVE Placed'
  <2> DEFINE j == Head(work)
  <2>1. /\ work # <<>> /\ work' = Tail(work) /\ cur' = [cur EXCEPT ![w] = j]
        /\ UNCHANGED <<queue, remaining, toLaunch, jobState>>
    BY <1>10 DEF PickUp
  <2>2. /\ j \in Jobs /\ j \in ToSet(work)
        /\ ToSet(work') = ToSet(work) \ {j} /\ IsInjective(work')
    BY <2>1, TailSet DEF RunPlaces
  <2>3. /\ jobState[j] = "running"
        /\ \A v \in Workers : cur[v] # j
        /\ \A t \in Submitters \cup Workers : j \notin ToSet(toLaunch[t])
    BY <2>2 DEF RunPlaces
  <2>4. QueuePlaces'
    BY <2>1 DEF QueuePlaces
  <2>5. cur'[w] = j /\ \A v \in Workers \ {w} : cur'[v] = cur[v]
    BY <2>1
  <2>6. RunPlaces'
    <3> HIDE DEF j
    <3>1. IsInjective(work') /\ \A k \in ToSet(work') : jobState'[k] = "running"
      BY <2>1, <2>2, <2>3, <2>5 DEF RunPlaces
    <3>2. ASSUME NEW u \in Submitters \cup Workers
          PROVE  /\ IsInjective(toLaunch'[u])
                 /\ \A k \in ToSet(toLaunch'[u]) : jobState'[k] = "running" /\ k \notin ToSet(work')
      BY <2>1, <2>2, <2>3, <2>5 DEF RunPlaces
    <3>3. ASSUME NEW u \in Submitters \cup Workers, NEW v \in Submitters \cup Workers, u # v
          PROVE  ToSet(toLaunch'[u]) \cap ToSet(toLaunch'[v]) = {}
      BY <3>3, <2>1, <2>2, <2>3, <2>5 DEF RunPlaces
    <3>4. ASSUME NEW v \in Workers, cur'[v] # None
          PROVE  /\ jobState'[cur'[v]] = "running"
                 /\ cur'[v] \notin ToSet(work')
                 /\ \A u \in Submitters \cup Workers : cur'[v] \notin ToSet(toLaunch'[u])
                 /\ \A x \in Workers : cur'[x] = cur'[v] => x = v
      BY <3>4, <2>1, <2>2, <2>3, <2>5 DEF RunPlaces
    <3> QED BY <3>1, <3>2, <3>3, <3>4 DEF RunPlaces
  <2> QED BY <2>4, <2>6
<1>11. ASSUME NEW w \in Workers, PostPending(w) PROVE Placed'
  BY <1>11 DEF PostPending, QueuePlaces, RunPlaces
<1>12. ASSUME NEW w \in Workers, StartContainer(w) PROVE Placed'
  BY <1>12 DEF StartContainer, QueuePlaces, RunPlaces
<1>13. ASSUME NEW w \in Workers, StartFails(w) PROVE Placed'
  BY <1>13 DEF StartFails, QueuePlaces, RunPlaces
<1>14. ASSUME NEW w \in Workers, ReadToEof(w) PROVE Placed'
  BY <1>14 DEF ReadToEof, QueuePlaces, RunPlaces
<1>15. ASSUME NEW w \in Workers, WaitExit(w) PROVE Placed'
  BY <1>15 DEF WaitExit, QueuePlaces, RunPlaces
<1>16. ASSUME NEW w \in Workers, WaitTimeout(w) PROVE Placed'
  <2>1. QueuePlaces'
    BY <1>16 DEF WaitTimeout, QueuePlaces
  <2>2. RunPlaces'
    BY <1>16 DEF WaitTimeout, RunPlaces
  <2> QED BY <1>a, <2>1, <2>2
<1>17. ASSUME NEW w \in Workers, PostFinal(w) PROVE Placed'
  BY <1>17 DEF PostFinal, QueuePlaces, RunPlaces
<1>18. ASSUME NEW w \in Workers, HandleException(w) PROVE Placed'
  BY <1>18 DEF HandleException, QueuePlaces, RunPlaces
<1>19. ASSUME NEW w \in Workers, ReleaseGpus(w) PROVE Placed'
  BY <1>19 DEF ReleaseGpus, QueuePlaces, RunPlaces
<1>20. ASSUME NEW w \in Workers, Finish(w) PROVE Placed'
  <2> DEFINE j == cur[w]
  <2>1. /\ cur' = [cur EXCEPT ![w] = None] /\ jobState' = [jobState EXCEPT ![j] = outcome[w]]
        /\ UNCHANGED <<queue, remaining, toLaunch, work>>
    BY <1>20 DEF Finish
  <2>2. j \in Jobs /\ jobState[j] = "running"
    BY <1>20 DEF Finish, Typed, ControlOK, RunPcs, RunPlaces
  <2>3. \A k \in Jobs \ {j} : jobState'[k] = jobState[k]
    BY <2>1
  <2>4. QueuePlaces'
    BY <2>1, <2>2, <2>3 DEF QueuePlaces
  <2>5. cur'[w] = None /\ \A v \in Workers \ {w} : cur'[v] = cur[v] /\ cur[v] # j
    BY <2>1, <2>2 DEF RunPlaces
  <2>7. j \notin ToSet(work) /\ \A u \in Submitters \cup Workers : j \notin ToSet(toLaunch[u])
    BY <2>2 DEF RunPlaces
  <2>6. RunPlaces'
    <3> HIDE DEF j
    <3>1. \A k \in ToSet(work) : k # j
      BY <2>2, <2>7
    <3>2. \A u \in Submitters \cup Workers : \A k \in ToSet(toLaunch[u]) : k # j
      BY <2>7
    <3>3. \A v \in Workers : cur'[v] # None => cur'[v] = cur[v] /\ cur[v] # j /\ cur[v] \in Jobs
      BY <2>5
    <3>4. \A v \in Workers : cur'[v] # None =>
               /\ jobState'[cur'[v]] = "running"
               /\ cur'[v] \notin ToSet(work)
               /\ \A t \in Submitters \cup Workers : cur'[v] \notin ToSet(toLaunch[t])
               /\ \A x \in Workers : cur'[x] = cur'[v] => x = v
      <4> SUFFICES ASSUME NEW v \in Workers, cur'[v] # None
                   PROVE  /\ jobState'[cur[v]] = "running"
                          /\ cur[v] \notin ToSet(work)
                          /\ \A t \in Submitters \cup Workers : cur[v] \notin ToSet(toLaunch[t])
                          /\ \A x \in Workers : cur'[x] = cur[v] => x = v
        BY <3>3
      <4>1. /\ cur[v] \in Jobs /\ cur[v] # j /\ cur[v] # None
        BY <3>3
      <4>2. \A x \in Workers : cur'[x] = cur[v] => cur[x] = cur[v]
        BY <2>5, <4>1
      <4> QED BY <2>3, <4>1, <4>2 DEF RunPlaces
    <3>5. work' = work /\ toLaunch' = toLaunch
      BY <2>1
    <3>6. IsInjective(work) /\ \A k \in ToSet(work) : jobState'[k] = "running"
      BY <2>3, <3>1 DEF RunPlaces
    <3>7. \A u \in Submitters \cup Workers :
            /\ IsInjective(toLaunch[u])
            /\ \A k \in ToSet(toLaunch[u]) : jobState'[k] = "running" /\ k \notin ToSet(work)
            /\ \A x \in Submitters \cup Workers :
                 u # x => ToSet(toLaunch[u]) \cap ToSet(toLaunch[x]) = {}
      BY <2>3, <3>2 DEF RunPlaces
    <3> QED BY <3>4, <3>5, <3>6, <3>7 DEF RunPlaces
  <2> QED BY <2>4, <2>6
<1>21. ASSUME NEW w \in Workers, Signal(w) PROVE Placed'
  BY <1>21 DEF Signal, QueuePlaces, RunPlaces
<1>22. ASSUME NEW x \in Waiters, CheckPending(x) PROVE Placed'
  BY <1>22 DEF CheckPending, QueuePlaces, RunPlaces
<1>23. ASSUME NEW x \in Waiters, Wake(x) PROVE Placed'
  BY <1>23 DEF Wake, QueuePlaces, RunPlaces
<1>24. ASSUME NEW j \in Jobs, ContainerCloses(j) PROVE Placed'
  BY <1>24 DEF ContainerCloses, QueuePlaces, RunPlaces
<1>25. ASSUME NEW j \in Jobs, ContainerExits(j) PROVE Placed'
  BY <1>25 DEF ContainerExits, QueuePlaces, RunPlaces
<1>27. ASSUME NEW w \in Workers, ReadFails(w) PROVE Placed'
  BY <1>27 DEF ReadFails, QueuePlaces, RunPlaces
<1>26. CASE UNCHANGED vars
  BY <1>26 DEF vars, schedVars, QueuePlaces, RunPlaces
<1> QED
  BY <1>1, <1>2, <1>3, <1>4, <1>5, <1>6, <1>7, <1>8, <1>9, <1>10, <1>11, <1>12, <1>13, <1>14, <1>15, <1>16, <1>17, <1>18, <1>19, <1>20, <1>21, <1>22, <1>23, <1>24, <1>25, <1>26, <1>27 DEF Next, TrySchedule, RunJob, WaitAll

-----------------------------------------------------------------------------
(* Job k holds its devices: placed, and not yet past its release.          *)
Holding(k) ==
  jobState[k] = "running" /\ \A w \in Workers : ~(pc[w] = "finish" /\ cur[w] = k)

Waiting(k) == jobState[k] \in {"new", "rejected", "queued"}

PhaseOf(k) == IF Waiting(k) THEN "idle" ELSE IF Holding(k) THEN "held" ELSE "returned"

HeldBy(k) == IF Holding(k) THEN jobGpus[k] ELSE {}

(* The refinement mapping, job by job, before and after a step.            *)
LEMMA MappingDef ==
  /\ LeasePhase = [k \in Jobs |-> PhaseOf(k)]
  /\ LeaseHeld = [k \in Jobs |-> HeldBy(k)]
  /\ LeasePhase' = [k \in Jobs |-> PhaseOf(k)']
  /\ LeaseHeld' = [k \in Jobs |-> HeldBy(k)']
<1>1. ASSUME NEW k \in Jobs
      PROVE  /\ Holding(k) <=> jobState[k] = "running" /\ k \notin Released
             /\ Holding(k)' <=> jobState'[k] = "running" /\ k \notin Released'
  BY DEF Holding, Released
<1>2. \A k \in Jobs : LeasePhase[k] = PhaseOf(k) /\ LeasePhase'[k] = PhaseOf(k)'
  BY <1>1 DEF LeasePhase, PhaseOf, Waiting
<1>3. LeasePhase = [k \in Jobs |-> PhaseOf(k)] /\ LeasePhase' = [k \in Jobs |-> PhaseOf(k)']
  BY <1>2 DEF LeasePhase
<1>4. \A k \in Jobs : LeaseHeld[k] = HeldBy(k) /\ LeaseHeld'[k] = HeldBy(k)'
  BY <1>1, <1>2 DEF LeaseHeld, HeldBy, PhaseOf, Holding, Waiting
<1>5. LeaseHeld = [k \in Jobs |-> HeldBy(k)] /\ LeaseHeld' = [k \in Jobs |-> HeldBy(k)']
  BY <1>4 DEF LeaseHeld
<1> QED BY <1>3, <1>5

(* What a step does to the leases.                                         *)
LeasesKept == UNCHANGED <<LeasePhase, LeaseHeld, allocated>>

LeaseTaken(j, S) ==
  /\ LeasePhase[j] = "idle" /\ S \cap allocated = {}
  /\ LeasePhase' = [LeasePhase EXCEPT ![j] = "held"]
  /\ LeaseHeld' = [LeaseHeld EXCEPT ![j] = S]
  /\ allocated' = allocated \cup S

LeaseGiven(j) ==
  /\ LeasePhase[j] = "held"
  /\ LeasePhase' = [LeasePhase EXCEPT ![j] = "returned"]
  /\ allocated' = allocated \ LeaseHeld[j]
  /\ LeaseHeld' = [LeaseHeld EXCEPT ![j] = {}]

(* Steps that change no phase and no device of a holding job keep leases.  *)
LEMMA Kept ==
  ASSUME allocated' = allocated,
         \A k \in Jobs : /\ Waiting(k)' <=> Waiting(k)
                         /\ Holding(k)' <=> Holding(k)
                         /\ jobGpus'[k] = jobGpus[k]
  PROVE  LeasesKept
<1>1. \A k \in Jobs : PhaseOf(k)' = PhaseOf(k) /\ HeldBy(k)' = HeldBy(k)
  BY DEF PhaseOf, HeldBy
<1> QED BY <1>1, MappingDef DEF LeasesKept

(* Every step takes a free lease, gives one back, or keeps them all.       *)
LEMMA LeaseStep ==
  ASSUME Placed, [Next]_vars
  PROVE  \/ LeasesKept
         \/ \E j \in Jobs, S \in SUBSET Gpus : LeaseTaken(j, S)
         \/ \E j \in Jobs : LeaseGiven(j)
<1> DEFINE Goal == \/ LeasesKept
                   \/ \E j \in Jobs, S \in SUBSET Gpus : LeaseTaken(j, S)
                   \/ \E j \in Jobs : LeaseGiven(j)
<1> USE ThreadsDisjoint, JobConstants DEF Placed, queueVars, jobVars, runVars, poolVars, Goto
<1>a. /\ queue \in Seq(Jobs)
      /\ pc \in [Threads -> Steps]
      /\ cur \in [Workers -> Jobs \cup {None}]
      /\ outcome \in [Workers -> FinalStates \cup {"none"}]
      /\ jobState \in [Jobs -> FinalStates \cup {"new", "rejected", "queued", "running"}]
      /\ jobGpus \in [Jobs -> SUBSET Gpus]
      /\ Workers \subseteq Threads /\ Submitters \subseteq Threads /\ Waiters \subseteq Threads
  BY DEF Typed, TypeOK, Threads
<1> USE <1>a
<1>1. ASSUME NEW t \in Submitters, NEW j \in Jobs, Submit(t, j) PROVE LeasesKept
  BY <1>1, Kept DEF Submit, Holding, Waiting
<1>2. ASSUME NEW t \in Submitters, NEW j \in Jobs, SubmitRejected(t, j) PROVE LeasesKept
  BY <1>2, Kept DEF SubmitRejected, Holding, Waiting
<1>3. ASSUME NEW t \in Submitters \cup Workers, BeginScan(t) PROVE LeasesKept
  BY <1>3, Kept DEF BeginScan, Holding, Waiting
<1>4. ASSUME NEW t \in Submitters \cup Workers, ProbeFor(t) PROVE LeasesKept
  BY <1>4, Kept DEF ProbeFor, Holding, Waiting, Detect
<1>5. ASSUME NEW t \in Submitters \cup Workers, Place(t)
      PROVE  \E j \in Jobs, S \in SUBSET Gpus : LeaseTaken(j, S)
  <2>0. PICK j \in Jobs : j = Head(queue) /\ j \in ToSet(queue)
    BY <1>5, TailSet DEF Place, Typed, ControlOK, QueuePlaces
  <2>1. j \in Jobs /\ j \in ToSet(queue)
    BY <2>0
  <2>2. jobState[j] = "queued" /\ \A w \in Workers : cur[w] # j
    BY <2>1 DEF QueuePlaces, RunPlaces
  <2>3. PICK S \in SUBSET Gpus : Grant(S, Need[j], Mem[j]) /\ jobGpus' = [jobGpus EXCEPT ![j] = S]
    BY <1>5, <2>0 DEF Place
  <2>4. /\ jobState' = [jobState EXCEPT ![j] = "running"]
        /\ pc[t] = "allocate" /\ pc' = [pc EXCEPT ![t] = "scan"] /\ UNCHANGED cur
    BY <1>5, <2>0 DEF Place
  <2>5. S \cap allocated = {} /\ allocated' = allocated \cup S
    BY <2>3 DEF Grant, Selections, Available
  <2>6. Waiting(j) /\ ~Waiting(j)' /\ Holding(j)' /\ jobGpus'[j] = S
    BY <2>1, <2>2, <2>3, <2>4 DEF Waiting, Holding
  <2>7. \A k \in Jobs \ {j} : /\ Waiting(k)' <=> Waiting(k)
                              /\ Holding(k)' <=> Holding(k)
                              /\ jobGpus'[k] = jobGpus[k]
    BY <1>5, <2>1, <2>3, <2>4 DEF Waiting, Holding
  <2>a. PhaseOf(j) = "idle" /\ PhaseOf(j)' = "held" /\ HeldBy(j)' = S
    BY <2>6 DEF PhaseOf, HeldBy
  <2>b. ASSUME NEW k \in Jobs \ {j} PROVE PhaseOf(k)' = PhaseOf(k) /\ HeldBy(k)' = HeldBy(k)
    <3>1. /\ Waiting(k)' <=> Waiting(k)
          /\ Holding(k)' <=> Holding(k)
          /\ jobGpus'[k] = jobGpus[k]
      BY <2>7
    <3> QED BY <3>1 DEF PhaseOf, HeldBy
  <2>8. /\ PhaseOf(j) = "idle" /\ PhaseOf(j)' = "held" /\ HeldBy(j)' = S
        /\ \A k \in Jobs \ {j} : PhaseOf(k)' = PhaseOf(k) /\ HeldBy(k)' = HeldBy(k)
    BY <2>a, <2>b
  <2>9. LeaseTaken(j, S)
    BY <2>1, <2>5, <2>8, MappingDef DEF LeaseTaken
  <2> QED BY <2>1, <2>9
<1>6. ASSUME NEW t \in Submitters \cup Workers, Defer(t) PROVE LeasesKept
  BY <1>6, Kept DEF Defer, Holding, Waiting, Refuse
<1>7. ASSUME NEW t \in Submitters \cup Workers, ScanRaises(t) PROVE LeasesKept
  BY <1>7, Kept DEF ScanRaises, Holding, Waiting
<1>8. ASSUME NEW t \in Submitters \cup Workers, EndScan(t) PROVE LeasesKept
  BY <1>8, Kept DEF EndScan, Holding, Waiting
<1>9. ASSUME NEW t \in Submitters \cup Workers, Launch(t) PROVE LeasesKept
  BY <1>9, Kept DEF Launch, Holding, Waiting
<1>10. ASSUME NEW w \in Workers, PickUp(w) PROVE LeasesKept
  BY <1>10, Kept DEF PickUp, Holding, Waiting
<1>11. ASSUME NEW w \in Workers, PostPending(w) PROVE LeasesKept
  BY <1>11, Kept DEF PostPending, Holding, Waiting
<1>12. ASSUME NEW w \in Workers, StartContainer(w) PROVE LeasesKept
  BY <1>12, Kept DEF StartContainer, Holding, Waiting
<1>13. ASSUME NEW w \in Workers, StartFails(w) PROVE LeasesKept
  BY <1>13, Kept DEF StartFails, Holding, Waiting
<1>14. ASSUME NEW w \in Workers, ReadToEof(w) PROVE LeasesKept
  BY <1>14, Kept DEF ReadToEof, Holding, Waiting
<1>15. ASSUME NEW w \in Workers, WaitExit(w) PROVE LeasesKept
  BY <1>15, Kept DEF WaitExit, Holding, Waiting
<1>16. ASSUME NEW w \in Workers, WaitTimeout(w) PROVE LeasesKept
  BY <1>16, Kept DEF WaitTimeout, Holding, Waiting
<1>17. ASSUME NEW w \in Workers, PostFinal(w) PROVE LeasesKept
  BY <1>17, Kept DEF PostFinal, Holding, Waiting
<1>18. ASSUME NEW w \in Workers, HandleException(w) PROVE LeasesKept
  BY <1>18, Kept DEF HandleException, Holding, Waiting
<1>19. ASSUME NEW w \in Workers, ReleaseGpus(w)
      PROVE  \E j \in Jobs : LeaseGiven(j)
  <2>0. PICK j \in Jobs : j = cur[w]
    BY <1>19 DEF ReleaseGpus, Typed, ControlOK, RunPcs
  <2>1. /\ pc[w] = "release" /\ pc' = [pc EXCEPT ![w] = "finish"]
        /\ allocated' = allocated \ jobGpus[j]
        /\ UNCHANGED <<cur, jobState, jobGpus>>
    BY <1>19, <2>0 DEF ReleaseGpus, Release
  <2>2. j \in Jobs /\ jobState[j] = "running" /\ \A v \in Workers : cur[v] = j => v = w
    BY <2>0, <2>1 DEF RunPlaces
  <2>3. pc'[w] = "finish" /\ cur'[w] = j /\ \A v \in Workers \ {w} : pc'[v] = pc[v]
    BY <2>0, <2>1
  <2>4. Holding(j) /\ ~Holding(j)' /\ ~Waiting(j) /\ ~Waiting(j)'
    BY <2>1, <2>2, <2>3 DEF Holding, Waiting
  <2>5. \A k \in Jobs \ {j} : /\ Waiting(k)' <=> Waiting(k)
                              /\ Holding(k)' <=> Holding(k)
                              /\ jobGpus'[k] = jobGpus[k]
    BY <2>1, <2>3 DEF Waiting, Holding
  <2>a. /\ PhaseOf(j) = "held" /\ PhaseOf(j)' = "returned"
        /\ HeldBy(j) = jobGpus[j] /\ HeldBy(j)' = {}
    BY <2>4 DEF PhaseOf, HeldBy
  <2>b. ASSUME NEW k \in Jobs \ {j} PROVE PhaseOf(k)' = PhaseOf(k) /\ HeldBy(k)' = HeldBy(k)
    <3>1. /\ Waiting(k)' <=> Waiting(k)
          /\ Holding(k)' <=> Holding(k)
          /\ jobGpus'[k] = jobGpus[k]
      BY <2>5
    <3> QED BY <3>1 DEF PhaseOf, HeldBy
  <2>6. /\ PhaseOf(j) = "held" /\ PhaseOf(j)' = "returned"
        /\ HeldBy(j) = jobGpus[j] /\ HeldBy(j)' = {}
        /\ \A k \in Jobs \ {j} : PhaseOf(k)' = PhaseOf(k) /\ HeldBy(k)' = HeldBy(k)
    BY <2>a, <2>b
  <2>7. LeaseGiven(j)
    BY <2>1, <2>2, <2>6, MappingDef DEF LeaseGiven
  <2> QED BY <2>2, <2>7
<1>20. ASSUME NEW w \in Workers, Finish(w) PROVE LeasesKept
  <2>0. PICK j \in Jobs : j = cur[w]
    BY <1>20 DEF Finish, Typed, ControlOK, RunPcs
  <2>1. /\ pc[w] = "finish" /\ pc' = [pc EXCEPT ![w] = "signal"]
        /\ cur' = [cur EXCEPT ![w] = None] /\ jobState' = [jobState EXCEPT ![j] = outcome[w]]
        /\ UNCHANGED <<jobGpus, allocated>>
    BY <1>20, <2>0 DEF Finish
  <2>2. /\ j \in Jobs /\ jobState[j] = "running" /\ outcome[w] \in FinalStates
    BY <2>0, <2>1 DEF Typed, ControlOK, RunPcs, RunPlaces
  <2>3. /\ jobState'[j] \in FinalStates /\ \A k \in Jobs \ {j} : jobState'[k] = jobState[k]
        /\ pc'[w] = "signal" /\ cur'[w] = None
        /\ \A v \in Workers \ {w} : pc'[v] = pc[v] /\ cur'[v] = cur[v]
    BY <2>1, <2>2
  <2>4. Holding(j)' <=> Holding(j)
    BY <2>0, <2>1, <2>2, <2>3 DEF Holding, FinalStates
  <2>5. ASSUME NEW k \in Jobs \ {j} PROVE Holding(k)' <=> Holding(k)
    <3>1. k # j /\ k # None
      BY <2>5
    <3> QED BY <2>0, <2>1, <2>3, <3>1 DEF Holding
  <2>6. \A k \in Jobs : Waiting(k)' <=> Waiting(k)
    BY <2>2, <2>3 DEF Waiting, FinalStates
  <2> QED BY <2>1, <2>4, <2>5, <2>6, Kept
<1>21. ASSUME NEW w \in Workers, Signal(w) PROVE LeasesKept
  BY <1>21, Kept DEF Signal, Holding, Waiting
<1>22. ASSUME NEW x \in Waiters, CheckPending(x) PROVE LeasesKept
  BY <1>22, Kept DEF CheckPending, Holding, Waiting
<1>23. ASSUME NEW x \in Waiters, Wake(x) PROVE LeasesKept
  BY <1>23, Kept DEF Wake, Holding, Waiting
<1>24. ASSUME NEW j \in Jobs, ContainerCloses(j) PROVE LeasesKept
  BY <1>24, Kept DEF ContainerCloses, Holding, Waiting
<1>25. ASSUME NEW j \in Jobs, ContainerExits(j) PROVE LeasesKept
  BY <1>25, Kept DEF ContainerExits, Holding, Waiting
<1>27. ASSUME NEW w \in Workers, ReadFails(w) PROVE LeasesKept
  BY <1>27, Kept DEF ReadFails, Holding, Waiting
<1>26. CASE UNCHANGED vars
  BY <1>26, Kept DEF vars, schedVars, Holding, Waiting
<1> QED
  BY <1>1, <1>2, <1>3, <1>4, <1>5, <1>6, <1>7, <1>8, <1>9, <1>10, <1>11, <1>12, <1>13, <1>14, <1>15, <1>16, <1>17, <1>18, <1>19, <1>20, <1>21, <1>22, <1>23, <1>24, <1>25, <1>26, <1>27 DEF Next, TrySchedule, RunJob, WaitAll

-----------------------------------------------------------------------------
(* The inductive invariant: leases are disjoint and the pool's books exact. *)
LeasesExact == Leases!Disjoint /\ LeasesAllocated

IInv == Placed /\ LeasesExact

(* The inductive invariant holds initially ...                             *)
LEMMA InitIInv == Init => IInv
<1> SUFFICES ASSUME Init PROVE IInv
  OBVIOUS
<1>1. LeaseHeld = [k \in Jobs |-> {}]
  BY DEF Init, LeaseHeld, LeasePhase
<1>2. LeasesExact
  BY <1>1 DEF LeasesExact, Leases!Disjoint, LeasesAllocated, Init, PoolInit
<1> QED BY <1>2, InitPlaced DEF IInv

(* ... is kept by every step ...                                           *)
LEMMA NextIInv == IInv /\ [Next]_vars => IInv'
<1> SUFFICES ASSUME IInv, [Next]_vars PROVE LeasesExact'
  BY NextPlaced DEF IInv
<1>a. DOMAIN LeaseHeld = Jobs /\ DOMAIN LeasePhase = Jobs
  BY DEF LeaseHeld, LeasePhase
<1>1. CASE LeasesKept
  BY <1>1 DEF LeasesKept, IInv, LeasesExact, Leases!Disjoint, LeasesAllocated
<1>2. ASSUME NEW j \in Jobs, NEW S \in SUBSET Gpus, LeaseTaken(j, S) PROVE LeasesExact'
  <2>1. /\ LeaseHeld[j] = {}
        /\ \A k \in Jobs : LeaseHeld[k] \subseteq allocated
    BY <1>2 DEF LeaseTaken, LeaseHeld, IInv, LeasesExact, LeasesAllocated
  <2>2. LeaseHeld'[j] = S /\ \A k \in Jobs \ {j} : LeaseHeld'[k] = LeaseHeld[k]
    BY <1>2, <1>a DEF LeaseTaken
  <2>3. S \cap allocated = {} /\ allocated' = allocated \cup S
    BY <1>2 DEF LeaseTaken
  <2>4. Leases!Disjoint'
    BY <2>1, <2>2, <2>3 DEF Leases!Disjoint, IInv, LeasesExact
  <2>5. LeasesAllocated'
    BY <2>1, <2>2, <2>3 DEF LeasesAllocated, IInv, LeasesExact
  <2> QED BY <2>4, <2>5 DEF LeasesExact
<1>3. ASSUME NEW j \in Jobs, LeaseGiven(j) PROVE LeasesExact'
  <2>1. /\ LeaseHeld'[j] = {} /\ \A k \in Jobs \ {j} : LeaseHeld'[k] = LeaseHeld[k]
        /\ allocated' = allocated \ LeaseHeld[j]
    BY <1>3, <1>a DEF LeaseGiven
  <2>2. \A k \in Jobs \ {j} : LeaseHeld[k] \cap LeaseHeld[j] = {}
    BY DEF IInv, LeasesExact, Leases!Disjoint
  <2>3. Leases!Disjoint'
    BY <2>1 DEF Leases!Disjoint, IInv, LeasesExact
  <2>4. LeasesAllocated'
    BY <2>1, <2>2 DEF LeasesAllocated, IInv, LeasesExact
  <2> QED BY <2>3, <2>4 DEF LeasesExact
<1> QED BY <1>1, <1>2, <1>3, LeaseStep DEF IInv

(* ... and so holds for ever.                                              *)
LEMMA InvariantHolds == Spec => []IInv
BY InitIInv, NextIInv, PTL DEF Spec

(* Every variable of the scheduler and of the pool keeps its type, whatever *)
(* the number of jobs, devices, workers and submitters.                     *)
THEOREM TypeCorrect == Spec => []TypeOK
<1>1. IInv => TypeOK
  BY DEF IInv, Placed, Typed
<1> QED BY <1>1, InvariantHolds, PTL

(* A watched container runs on devices its job holds.                      *)
LEMMA WatchedHolds ==
  ASSUME Placed, NEW k \in Jobs, Watched(k)
  PROVE  LeaseHeld[k] = jobGpus[k]
<1>1. PICK w \in Workers : cur[w] = k /\ pc[w] \in {"read", "wait"}
  BY DEF Watched
<1>2. jobState[k] = "running" /\ \A v \in Workers : cur[v] = k => v = w
  BY <1>1, ThreadsDisjoint DEF Placed, RunPlaces
<1>3. Holding(k)
  BY <1>1, <1>2 DEF Holding
<1> QED BY <1>3, MappingDef DEF HeldBy

(* The pool's books are exact, whichever post or read raises: no device     *)
(* leaks, and none goes back while a worker still watches the container on  *)
(* it (_try_schedule's allocate, _run_job's finally: release).              *)
THEOREM PoolBooksExact == Spec => []PoolExact
<1>1. IInv => PoolExact
  <2> SUFFICES ASSUME IInv, NEW j \in Jobs, Watched(j) PROVE jobGpus[j] \subseteq allocated
    BY DEF IInv, LeasesExact, PoolExact
  <2>1. LeaseHeld[j] = jobGpus[j]
    BY WatchedHolds DEF IInv
  <2> QED BY <2>1 DEF IInv, LeasesExact, LeasesAllocated
<1> QED BY <1>1, InvariantHolds, PTL

(* The scheduler implements the device leases of GpuLease.                  *)
THEOREM LeasesImplemented == Spec => ImplementsLeases
<1>1. Init => Leases!LeaseInit
  <2> SUFFICES ASSUME Init PROVE Leases!LeaseInit
    OBVIOUS
  <2>1. LeasePhase = [k \in Jobs |-> "idle"] /\ LeaseHeld = [k \in Jobs |-> {}]
    BY DEF Init, LeaseHeld, LeasePhase
  <2> QED BY <2>1 DEF Leases!LeaseInit
<1>2. IInv /\ [Next]_vars => [Leases!LeaseNext]_(Leases!leaseVars)
  <2> SUFFICES ASSUME IInv, [Next]_vars PROVE [Leases!LeaseNext]_(Leases!leaseVars)
    OBVIOUS
  <2>1. CASE LeasesKept
    BY <2>1 DEF LeasesKept, Leases!leaseVars
  <2>2. ASSUME NEW j \in Jobs, NEW S \in SUBSET Gpus, LeaseTaken(j, S)
        PROVE  Leases!Acquire(j, S)
    <3>1. \A k \in Jobs : LeaseHeld[k] \subseteq allocated
      BY DEF IInv, LeasesExact, LeasesAllocated
    <3>2. \A k \in Jobs : LeaseHeld[k] \cap S = {}
      BY <2>2, <3>1 DEF LeaseTaken
    <3> QED BY <2>2, <3>2 DEF LeaseTaken, Leases!Acquire
  <2>3. ASSUME NEW j \in Jobs, LeaseGiven(j) PROVE Leases!Return(j)
    BY <2>3 DEF LeaseGiven, Leases!Return
  <2> QED BY <2>1, <2>2, <2>3, LeaseStep DEF IInv, Leases!LeaseNext
<1> QED BY <1>1, <1>2, InvariantHolds, PTL DEF Spec, ImplementsLeases, Leases!LeaseSpec

-----------------------------------------------------------------------------
(* Containers of jobs with devices of their own never meet on one, for any  *)
(* number of jobs, devices and threads, any probe and any failure; only a   *)
(* job configured with `gpu_ids: all`, or a container its worker left       *)
(* behind, can share a device (_try_schedule, _run_job, run.py 243-253).    *)
THEOREM ContainersNeverShare == Spec => []ContainersDisjoint
<1>1. IInv => ContainersDisjoint
  <2> SUFFICES ASSUME IInv, NEW i \in Jobs \ UsesAll, NEW j \in Jobs \ UsesAll, i # j,
                      Watched(i), Watched(j)
               PROVE  ContainerGpus(i) \cap ContainerGpus(j) = {}
    BY DEF ContainersDisjoint
  <2>1. LeaseHeld[i] = jobGpus[i] /\ LeaseHeld[j] = jobGpus[j]
    BY WatchedHolds DEF IInv
  <2>2. LeaseHeld[i] \cap LeaseHeld[j] = {}
    BY DEF IInv, LeasesExact, Leases!Disjoint
  <2> QED BY <2>1, <2>2 DEF ContainerGpus
<1> QED BY <1>1, InvariantHolds, PTL

-----------------------------------------------------------------------------
(* A docker client that runs is the one some worker reads or waits for.    *)
Supervised ==
  \A j \in Jobs : container[j] \in {"live", "closed"} =>
    \E w \in Workers : cur[w] = j /\ pc[w] \in {"read", "wait"}

(* Every step keeps running docker clients supervised, unless copying      *)
(* their output fails.                                                     *)
LEMMA NextSupervised ==
  ASSUME ~OutputFails, Placed, Supervised, [Next]_vars
  PROVE  Supervised'
<1> USE ThreadsDisjoint DEF queueVars, jobVars, runVars, poolVars, Goto, Supervised
<1>a. /\ pc \in [Threads -> Steps]
      /\ cur \in [Workers -> Jobs \cup {None}]
      /\ container \in [Jobs -> {"none", "live", "closed", "passed", "failed", "killed"}]
      /\ Workers \subseteq Threads /\ Submitters \subseteq Threads /\ Waiters \subseteq Threads
  BY DEF Placed, Typed, TypeOK, Threads
<1>b. \A w \in Workers : pc[w] \in RunPcs => cur[w] \in Jobs
  BY <1>a DEF Placed, Typed, ControlOK
<1> USE <1>a, <1>b
<1>1. ASSUME NEW t \in Submitters, NEW j \in Jobs, Submit(t, j) PROVE Supervised'
  BY <1>1 DEF Submit, RunPcs
<1>2. ASSUME NEW t \in Submitters, NEW j \in Jobs, SubmitRejected(t, j) PROVE Supervised'
  BY <1>2 DEF SubmitRejected, RunPcs
<1>3. ASSUME NEW t \in Submitters \cup Workers, BeginScan(t) PROVE Supervised'
  BY <1>3 DEF BeginScan, RunPcs
<1>4. ASSUME NEW t \in Submitters \cup Workers, ProbeFor(t) PROVE Supervised'
  BY <1>4 DEF ProbeFor, RunPcs
<1>5. ASSUME NEW t \in Submitters \cup Workers, Place(t) PROVE Supervised'
  BY <1>5 DEF Place, RunPcs
<1>6. ASSUME NEW t \in Submitters \cup Workers, Defer(t) PROVE Supervised'
  BY <1>6 DEF Defer, RunPcs
<1>7. ASSUME NEW t \in Submitters \cup Workers, ScanRaises(t) PROVE Supervised'
  BY <1>7 DEF ScanRaises, RunPcs
<1>8. ASSUME NEW t \in Submitters \cup Workers, EndScan(t) PROVE Supervised'
  BY <1>8 DEF EndScan, RunPcs
<1>9. ASSUME NEW t \in Submitters \cup Workers, Launch(t) PROVE Supervised'
  BY <1>9 DEF Launch, RunPcs
<1>10. ASSUME NEW w \in Workers, PickUp(w) PROVE Supervised'
  BY <1>10 DEF PickUp, RunPcs
<1>11. ASSUME NEW w \in Workers, PostPending(w) PROVE Supervised'
  BY <1>11 DEF PostPending, RunPcs
<1>12. ASSUME NEW w \in Workers, StartContainer(w) PROVE Supervised'
  BY <1>12 DEF StartContainer, RunPcs
<1>13. ASSUME NEW w \in Workers, StartFails(w) PROVE Supervised'
  BY <1>13 DEF StartFails, RunPcs
<1>14. ASSUME NEW w \in Workers, ReadToEof(w) PROVE Supervised'
  BY <1>14 DEF ReadToEof, RunPcs
<1>15. ASSUME NEW w \in Workers, WaitExit(w) PROVE Supervised'
  BY <1>15 DEF WaitExit, RunPcs
<1>16. ASSUME NEW w \in Workers, WaitTimeout(w) PROVE Supervised'
  BY <1>16 DEF WaitTimeout, RunPcs
<1>17. ASSUME NEW w \in Workers, PostFinal(w) PROVE Supervised'
  BY <1>17 DEF PostFinal, RunPcs
<1>18. ASSUME NEW w \in Workers, HandleException(w) PROVE Supervised'
  BY <1>18 DEF HandleException, RunPcs
<1>19. ASSUME NEW w \in Workers, ReleaseGpus(w) PROVE Supervised'
  BY <1>19 DEF ReleaseGpus, RunPcs
<1>20. ASSUME NEW w \in Workers, Finish(w) PROVE Supervised'
  BY <1>20 DEF Finish, RunPcs
<1>21. ASSUME NEW w \in Workers, Signal(w) PROVE Supervised'
  BY <1>21 DEF Signal, RunPcs
<1>22. ASSUME NEW x \in Waiters, CheckPending(x) PROVE Supervised'
  BY <1>22 DEF CheckPending, RunPcs
<1>23. ASSUME NEW x \in Waiters, Wake(x) PROVE Supervised'
  BY <1>23 DEF Wake, RunPcs
<1>24. ASSUME NEW j \in Jobs, ContainerCloses(j) PROVE Supervised'
  BY <1>24 DEF ContainerCloses, RunPcs
<1>25. ASSUME NEW j \in Jobs, ContainerExits(j) PROVE Supervised'
  BY <1>25 DEF ContainerExits, RunPcs
<1>27. ASSUME NEW w \in Workers, ReadFails(w) PROVE Supervised'
  BY <1>27 DEF ReadFails
<1>26. CASE UNCHANGED vars
  BY <1>26 DEF vars, schedVars
<1> QED
  BY <1>1, <1>2, <1>3, <1>4, <1>5, <1>6, <1>7, <1>8, <1>9, <1>10, <1>11, <1>12, <1>13, <1>14, <1>15, <1>16, <1>17, <1>18, <1>19, <1>20, <1>21, <1>22, <1>23, <1>24, <1>25, <1>26, <1>27 DEF Next, TrySchedule, RunJob, WaitAll

(* No docker client is left behind unless copying its output raises: as     *)
(* long as that never happens, every client that runs is watched, and so    *)
(* ContainersNeverShare excuses none (_run_job 352-386).                    *)
THEOREM ClientsAreWatched ==
  ASSUME ~OutputFails
  PROVE  Spec => [](\A j \in Jobs : ClientRuns(j) => Watched(j))
<1>1. Init => Supervised
  BY DEF Init, Supervised
<1>2. Supervised => \A j \in Jobs : ClientRuns(j) => Watched(j)
  BY DEF Supervised, ClientRuns, Watched
<1>3. IInv /\ Supervised /\ [Next]_vars => Supervised'
  BY NextSupervised DEF IInv
<1> QED BY <1>1, <1>2, <1>3, InvariantHolds, PTL DEF Spec
-----------------------------------------------------------------------------
(* A final state in _jobs comes with the same state in its result.         *)
Published == \A j \in Jobs : jobState[j] \in FinalStates => jobResult[j] = jobState[j]

(* What a step does to _jobs: nothing, or it submits or starts a job, or a *)
(* worker publishes how its job ended.                                     *)
JobAdvances(j) ==
  /\ \/ Registry!Move(j, "new", "queued")
     \/ Registry!Move(j, "new", "rejected")
     \/ Registry!Move(j, "queued", "running")
  /\ jobResult' = jobResult

JobPublished(j) ==
  /\ jobState[j] = "running"
  /\ \E s \in FinalStates : /\ jobState' = [jobState EXCEPT ![j] = s]
                            /\ jobResult' = [jobResult EXCEPT ![j] = s]

(* Every step of the scheduler changes _jobs in one of these three ways.   *)
LEMMA PublishStep ==
  ASSUME Placed, [Next]_vars
  PROVE  \/ UNCHANGED <<jobState, jobResult>>
         \/ \E j \in Jobs : JobAdvances(j) \/ JobPublished(j)
<1> DEFINE Goal == \/ UNCHANGED <<jobState, jobResult>>
                   \/ \E j \in Jobs : JobAdvances(j) \/ JobPublished(j)
<1>1. ASSUME NEW t \in Submitters, NEW j \in Jobs, Submit(t, j) \/ SubmitRejected(t, j)
      PROVE Goal
  <2>1. JobAdvances(j)
    BY <1>1 DEF Submit, SubmitRejected, JobAdvances, Registry!Move, jobVars
  <2> QED BY <2>1
<1>2. ASSUME NEW t \in Submitters \cup Workers, Place(t) PROVE Goal
  <2>1. queue # <<>> /\ queue \in Seq(Jobs)
    BY <1>2 DEF Place, Goto, Placed, Typed, TypeOK, ControlOK
  <2>2. Head(queue) \in Jobs /\ Head(queue) \in ToSet(queue)
    BY <2>1, TailSet DEF Placed, QueuePlaces
  <2>3. JobAdvances(Head(queue))
    BY <1>2, <2>2 DEF Place, JobAdvances, Registry!Move, Placed, QueuePlaces
  <2> QED BY <2>2, <2>3
<1>3. ASSUME NEW w \in Workers, Finish(w) PROVE Goal
  <2>1. /\ cur[w] \in Jobs /\ jobState[cur[w]] = "running"
        /\ outcome[w] \in FinalStates
    <3>1. /\ cur[w] # None /\ outcome[w] # "none"
          /\ cur[w] \in Jobs \cup {None} /\ outcome[w] \in FinalStates \cup {"none"}
      BY <1>3 DEF Finish, Goto, Placed, Typed, TypeOK, ControlOK, RunPcs
    <3> QED BY <3>1 DEF Placed, RunPlaces
  <2>2. JobPublished(cur[w])
    BY <1>3, <2>1 DEF Finish, JobPublished
  <2> QED BY <2>1, <2>2
<1>4. ASSUME NEW t \in Submitters \cup Workers,
             BeginScan(t) \/ ProbeFor(t) \/ Defer(t) \/ ScanRaises(t) \/ EndScan(t) \/ Launch(t)
      PROVE Goal
  BY <1>4 DEF BeginScan, ProbeFor, Defer, ScanRaises, EndScan, Launch, jobVars
<1>5. ASSUME NEW w \in Workers,
             PickUp(w) \/ PostPending(w) \/ StartContainer(w) \/ StartFails(w)
               \/ ReadToEof(w) \/ ReadFails(w) \/ WaitExit(w) \/ WaitTimeout(w) \/ PostFinal(w)
               \/ HandleException(w) \/ ReleaseGpus(w) \/ Signal(w)
      PROVE Goal
  BY <1>5 DEF PickUp, PostPending, StartContainer, StartFails, ReadToEof, ReadFails,
     WaitExit, WaitTimeout, PostFinal, HandleException, ReleaseGpus, Signal, jobVars
<1>6. ASSUME NEW x \in Waiters, CheckPending(x) \/ Wake(x) PROVE Goal
  BY <1>6 DEF CheckPending, Wake, jobVars
<1>7. ASSUME NEW j \in Jobs, ContainerCloses(j) \/ ContainerExits(j) PROVE Goal
  BY <1>7 DEF ContainerCloses, ContainerExits, jobVars
<1>8. CASE UNCHANGED vars
  BY <1>8 DEF vars, schedVars
<1> QED
  BY <1>1, <1>2, <1>3, <1>4, <1>5, <1>6, <1>7, <1>8 DEF Next, TrySchedule, RunJob, WaitAll

(* Published is kept, and a published result never changes.                *)
LEMMA NextPublished ==
  ASSUME Placed, Published, [Next]_vars
  PROVE  /\ Published'
         /\ \A j \in Jobs : jobState[j] \in FinalStates =>
              jobState'[j] = jobState[j] /\ jobResult'[j] = jobState[j]
<1>a. /\ jobState \in [Jobs -> FinalStates \cup {"new", "rejected", "queued", "running"}]
      /\ jobResult \in [Jobs -> FinalStates \cup {"none"}]
  BY DEF Placed, Typed, TypeOK
<1>1. CASE UNCHANGED <<jobState, jobResult>>
  BY <1>1 DEF Published
<1>2. ASSUME NEW j \in Jobs, JobAdvances(j)
      PROVE /\ Published'
            /\ \A k \in Jobs : jobState[k] \in FinalStates =>
                 jobState'[k] = jobState[k] /\ jobResult'[k] = jobState[k]
  BY <1>a, <1>2 DEF Published, JobAdvances, Registry!Move, FinalStates
<1>3. ASSUME NEW j \in Jobs, JobPublished(j)
      PROVE /\ Published'
            /\ \A k \in Jobs : jobState[k] \in FinalStates =>
                 jobState'[k] = jobState[k] /\ jobResult'[k] = jobState[k]
  BY <1>a, <1>3 DEF Published, JobPublished, FinalStates
<1> QED BY <1>1, <1>2, <1>3, PublishStep

(* Published holds for ever.                                               *)
LEMMA PublishedHolds == Spec => []Published
<1>1. Init => Published
  BY DEF Init, Published, FinalStates
<1>2. IInv /\ Published /\ [Next]_vars => Published'
  BY NextPublished DEF IInv
<1> QED BY <1>1, <1>2, InvariantHolds, PTL DEF Spec

(* What GET /api/job/{id} reports of a finished job never changes: no late *)
(* worker runs a job again or overwrites its result (_run_job 448-452).    *)
THEOREM ResultsAreFinal == Spec => ResultIsFinal
<1>1. IInv /\ Published /\ [Next]_vars =>
        [\A j \in Jobs : jobState[j] \in FinalStates =>
           /\ jobState'[j] = jobState[j]
           /\ jobResult'[j] = jobState[j]]_vars
  BY NextPublished DEF IInv
<1> QED BY <1>1, InvariantHolds, PublishedHolds, PTL DEF Spec, ResultIsFinal

(* The scheduler implements JobRegistry, whatever the number of jobs and   *)
(* threads and whatever fails: what a poll of RemoteDispatch reads of a job *)
(* only moves forward, to one final state.                                 *)
THEOREM RegistryImplemented == Spec => ImplementsRegistry
<1>1. Init => Registry!RegistryInit
  BY DEF Init, Registry!RegistryInit
<1>2. IInv /\ [Next]_vars => [Registry!RegistryNext]_jobState
  <2> SUFFICES ASSUME IInv, [Next]_vars PROVE [Registry!RegistryNext]_jobState
    OBVIOUS
  <2>1. ASSUME NEW j \in Jobs, JobAdvances(j) PROVE Registry!RegistryNext
    BY <2>1 DEF JobAdvances, Registry!RegistryNext
  <2>2. ASSUME NEW j \in Jobs, JobPublished(j) PROVE Registry!RegistryNext
    BY <2>2 DEF JobPublished, Registry!RegistryNext, Registry!Move, FinalStates
  <2> QED BY <2>1, <2>2, PublishStep DEF IInv
<1> QED BY <1>1, <1>2, InvariantHolds, PTL DEF Spec, ImplementsRegistry, Registry!RegistrySpec

(* wait_all returns only when every submitted job has its result: the      *)
(* check under the lock cannot see a job between two of its states.        *)
THEOREM WaitAllIsSound == Spec => WaitAllSound
<1> DEFINE Sound == \A x \in Waiters :
             pc[x] = "check" /\ pc'[x] = "returned" =>
               \A j \in Jobs : jobState[j] \in {"new", "rejected"} \/ jobResult[j] # "none"
<1>1. IInv /\ Published /\ [Next]_vars => [Sound]_vars
  <2> SUFFICES ASSUME IInv, Published, [Next]_vars, ~ UNCHANGED vars,
                      NEW x \in Waiters, pc[x] = "check", pc'[x] = "returned"
               PROVE  \A j \in Jobs : jobState[j] \in {"new", "rejected"} \/ jobResult[j] # "none"
    OBVIOUS
  <2>a. /\ pc \in [Threads -> Steps] /\ x \in Threads
        /\ jobState \in [Jobs -> FinalStates \cup {"new", "rejected", "queued", "running"}]
    BY DEF IInv, Placed, Typed, TypeOK, Threads
  <2>1. Unfinished = {}
    <3>1. ASSUME NEW t \in Submitters, NEW j \in Jobs, Submit(t, j) \/ SubmitRejected(t, j)
          PROVE FALSE
      BY <3>1, <2>a DEF Submit, SubmitRejected, Goto
    <3>2. ASSUME NEW t \in Submitters \cup Workers, TrySchedule(t) PROVE FALSE
      BY <3>2, <2>a DEF TrySchedule, BeginScan, ProbeFor, Place, Defer, ScanRaises, EndScan,
         Launch, Goto
    <3>3. ASSUME NEW w \in Workers, RunJob(w) PROVE FALSE
      BY <3>3, <2>a DEF RunJob, PickUp, PostPending, StartContainer, StartFails, ReadToEof,
         ReadFails, WaitExit, WaitTimeout, PostFinal, HandleException, ReleaseGpus, Finish, Signal, Goto
    <3>4. ASSUME NEW j \in Jobs, ContainerCloses(j) \/ ContainerExits(j) PROVE FALSE
      BY <3>4, <2>a DEF ContainerCloses, ContainerExits
    <3>5. ASSUME NEW y \in Waiters, WaitAll(y) PROVE Unfinished = {}
      BY <3>5, <2>a DEF WaitAll, CheckPending, Wake, Goto
    <3> QED BY <3>1, <3>2, <3>3, <3>4, <3>5 DEF Next
  <2> QED BY <2>1, <2>a DEF Unfinished, Published, FinalStates
<1> QED BY <1>1, InvariantHolds, PublishedHolds, PTL DEF Spec, WaitAllSound

-------------------------------------------------------------------------------
\* The threads that can hold the scheduler's lock.
Schedulers == Submitters \cup Workers

(* The lists of a scan exist while it holds the lock, and to_launch until  *)
(* the last of its jobs has been handed to the thread pool.                *)
ScanLists ==
  /\ lock = None => remaining = <<>>
  /\ lock # None => pc[lock] \in {"scan", "allocate"}
  /\ \A t \in Schedulers : pc[t] \notin {"scan", "allocate", "launch"} => toLaunch[t] = <<>>

KeepsJobs == IInv /\ ScanLists /\ NoJobLost

(* Who will schedule again after thread t's scan: t itself or a worker,    *)
(* once it has run what it was handed.                                     *)
Others(t) ==
  \/ work # <<>>
  \/ toLaunch[t] # <<>>
  \/ \E u \in Schedulers \ {t} : pc[u] # "idle"

(* Requests are passed over only while someone else will scan after them,  *)
(* and a probe that shows a loaded device was taken while someone else ran.*)
WakeupOwed ==
  /\ \A t \in Schedulers :
       /\ pc[t] \in {"scan", "allocate"} /\ remaining # <<>> => Others(t)
       /\ pc[t] = "allocate" =>
            /\ reading \in Readings /\ DOMAIN reading.util = Gpus /\ reading.mem = MaxMem
            /\ (\E g \in Gpus : reading.util[g] >= Threshold) => Others(t)
  /\ lock = None /\ queue # <<>> => ~Quiescent
  /\ \A j \in Jobs : container[j] \notin {"closed", "killed"}

ComesToRest == KeepsJobs /\ Supervised /\ WakeupOwed

(* The verdict a status stands for: "error" is that of a job whose         *)
(* container never ran.                                                    *)
Verdict(s) == IF s = "error" THEN "failure" ELSE s

(* Some job of context c ended, or is about to be published, with s.       *)
EndedWith(c, s) ==
  \/ \E k \in Jobs : ContextOf[k] = c /\ jobState[k] = s
  \/ \E w \in Workers : /\ pc[w] \in {"release", "finish"}
                        /\ ContextOf[cur[w]] = c
                        /\ outcome[w] = s

(* What a context shows: "pending" while a worker will still post, or the  *)
(* verdict on one of its jobs.                                             *)
StatusTrue ==
  /\ \A w \in Workers :
       /\ pc[w] \in {"post_pending", "start", "read", "wait", "except"} => outcome[w] = "none"
       /\ pc[w] \in RunPcs \ {"post_pending"} => status[ContextOf[cur[w]]] # "none"
  /\ \A j \in Jobs : jobState[j] \in FinalStates => status[ContextOf[j]] # "none"
  /\ \A c \in Contexts :
       /\ status[c] = "pending" =>
            \E w \in Workers : /\ pc[w] \in {"start", "read", "wait", "post_final", "except"}
                               /\ ContextOf[cur[w]] = c
       /\ status[c] \notin {"none", "pending"} => EndedWith(c, Verdict(status[c]))

-----------------------------------------------------------------------------
(* Every step keeps the lists of the scans in order.                       *)
LEMMA NextScanLists ==
  ASSUME Placed, ScanLists, [Next]_vars
  PROVE  ScanLists'
<1> USE ThreadsDisjoint DEF queueVars, jobVars, runVars, poolVars, Goto, ScanLists, Schedulers
<1>a. /\ pc \in [Threads -> Steps]
      /\ toLaunch \in [Submitters \cup Workers -> Seq(Jobs)]
      /\ lock \in Submitters \cup Workers \cup {None}
      /\ Workers \subseteq Threads /\ Submitters \subseteq Threads /\ Waiters \subseteq Threads
  BY DEF Placed, Typed, TypeOK, Threads
<1>b. \A t \in Submitters \cup Workers : pc[t] \in {"scan", "allocate"} => lock = t
  BY DEF Placed, Typed, ControlOK
<1> USE <1>a
<1>1. ASSUME NEW t \in Submitters, NEW j \in Jobs, Submit(t, j) PROVE ScanLists'
  BY <1>1 DEF Submit
<1>2. ASSUME NEW t \in Submitters, NEW j \in Jobs, SubmitRejected(t, j) PROVE ScanLists'
  BY <1>2 DEF SubmitRejected
<1>3. ASSUME NEW t \in Submitters \cup Workers, BeginScan(t) PROVE ScanLists'
  BY <1>3 DEF BeginScan
<1>4. ASSUME NEW t \in Submitters \cup Workers, ProbeFor(t) PROVE ScanLists'
  BY <1>4, <1>b DEF ProbeFor
<1>5. ASSUME NEW t \in Submitters \cup Workers, Place(t) PROVE ScanLists'
  BY <1>5, <1>b DEF Place
<1>6. ASSUME NEW t \in Submitters \cup Workers, Defer(t) PROVE ScanLists'
  BY <1>6, <1>b DEF Defer
<1>7. ASSUME NEW t \in Submitters \cup Workers, ScanRaises(t) PROVE ScanLists'
  BY <1>7 DEF ScanRaises
<1>8. ASSUME NEW t \in Submitters \cup Workers, EndScan(t) PROVE ScanLists'
  BY <1>8 DEF EndScan
<1>9. ASSUME NEW t \in Submitters \cup Workers, Launch(t) PROVE ScanLists'
  <2>1. /\ toLaunch[t] \in Seq(Jobs) /\ toLaunch[t] # <<>>
        /\ toLaunch' = [toLaunch EXCEPT ![t] = Tail(toLaunch[t])]
        /\ pc[t] = "launch" /\ UNCHANGED <<lock, remaining>>
        /\ pc' = [pc EXCEPT ![t] = IF Len(toLaunch[t]) = 1 THEN "idle" ELSE "launch"]
    BY <1>9 DEF Launch
  <2>2. Len(toLaunch[t]) = 1 => Tail(toLaunch[t]) = <<>>
    BY <2>1
  <2> QED BY <2>1, <2>2
<1>10. ASSUME NEW w \in Workers, PickUp(w) PROVE ScanLists'
  BY <1>10 DEF PickUp
<1>11. ASSUME NEW w \in Workers, PostPending(w) PROVE ScanLists'
  BY <1>11 DEF PostPending
<1>12. ASSUME NEW w \in Workers, StartContainer(w) PROVE ScanLists'
  BY <1>12 DEF StartContainer
<1>13. ASSUME NEW w \in Workers, StartFails(w) PROVE ScanLists'
  BY <1>13 DEF StartFails
<1>14. ASSUME NEW w \in Workers, ReadToEof(w) \/ ReadFails(w) PROVE ScanLists'
  BY <1>14 DEF ReadToEof, ReadFails
<1>15. ASSUME NEW w \in Workers, WaitExit(w) PROVE ScanLists'
  BY <1>15 DEF WaitExit
<1>16. ASSUME NEW w \in Workers, WaitTimeout(w) PROVE ScanLists'
  BY <1>16 DEF WaitTimeout
<1>17. ASSUME NEW w \in Workers, PostFinal(w) PROVE ScanLists'
  BY <1>17 DEF PostFinal
<1>18. ASSUME NEW w \in Workers, HandleException(w) PROVE ScanLists'
  BY <1>18 DEF HandleException
<1>19. ASSUME NEW w \in Workers, ReleaseGpus(w) PROVE ScanLists'
  BY <1>19 DEF ReleaseGpus
<1>20. ASSUME NEW w \in Workers, Finish(w) PROVE ScanLists'
  BY <1>20 DEF Finish
<1>21. ASSUME NEW w \in Workers, Signal(w) PROVE ScanLists'
  BY <1>21 DEF Signal
<1>22. ASSUME NEW x \in Waiters, CheckPending(x) \/ Wake(x) PROVE ScanLists'
  BY <1>22 DEF CheckPending, Wake
<1>23. ASSUME NEW j \in Jobs, ContainerCloses(j) \/ ContainerExits(j) PROVE ScanLists'
  BY <1>23 DEF ContainerCloses, ContainerExits
<1>24. CASE UNCHANGED vars
  BY <1>24 DEF vars, schedVars
<1> QED
  BY <1>1, <1>2, <1>3, <1>4, <1>5, <1>6, <1>7, <1>8, <1>9, <1>10, <1>11, <1>12, <1>13, <1>14,
     <1>15, <1>16, <1>17, <1>18, <1>19, <1>20, <1>21, <1>22, <1>23, <1>24
  DEF Next, TrySchedule, RunJob, WaitAll

-----------------------------------------------------------------------------
(* No request is dropped.                                                  *)

(* A job that nobody's list was changed for is still where it was.         *)
LEMMA StaysPlaced ==
  ASSUME NoJobLost, UNCHANGED <<queue, remaining, toLaunch, work, cur, jobState>>
  PROVE  NoJobLost'
BY DEF NoJobLost, InQueue, InLaunch, AtWorker

LEMMA NextNoJobLost ==
  ASSUME Malformed = {}, Placed, ScanLists, NoJobLost, [Next]_vars
  PROVE  NoJobLost'
<1> USE DEF queueVars, jobVars, runVars, Goto
<1>a. /\ queue \in Seq(Jobs) /\ remaining \in Seq(Jobs) /\ work \in Seq(Jobs)
      /\ toLaunch \in [Schedulers -> Seq(Jobs)]
      /\ jobState \in [Jobs -> FinalStates \cup {"new", "rejected", "queued", "running"}]
      /\ cur \in [Workers -> Jobs \cup {None}]
      /\ outcome \in [Workers -> FinalStates \cup {"none"}]
      /\ None \notin Jobs
      /\ Submitters \subseteq Schedulers
  BY ThreadsDisjoint DEF Placed, Typed, TypeOK, Schedulers
<1>b. /\ IsInjective(queue) /\ IsInjective(work)
      /\ \A t \in Schedulers : IsInjective(toLaunch[t])
  BY DEF Placed, QueuePlaces, RunPlaces, Schedulers
<1>c. \A j \in Jobs :
        /\ jobState[j] = "queued" => j \in ToSet(queue) \/ j \in ToSet(remaining)
        /\ jobState[j] = "running" =>
             \/ \E t \in Schedulers : j \in ToSet(toLaunch[t])
             \/ j \in ToSet(work)
             \/ \E w \in Workers : cur[w] = j
  BY DEF NoJobLost, InQueue, InLaunch, AtWorker, Schedulers
<1> DEFINE Goal ==
      \A j \in Jobs :
        /\ jobState'[j] = "queued" => j \in ToSet(queue') \/ j \in ToSet(remaining')
        /\ jobState'[j] = "running" =>
             \/ \E t \in Schedulers : j \in ToSet(toLaunch'[t])
             \/ j \in ToSet(work')
             \/ \E w \in Workers : cur'[w] = j
<1>d. Goal => NoJobLost'
  <2> SUFFICES ASSUME Goal, NEW j \in Jobs
      PROVE /\ jobState'[j] = "queued" => j \in InQueue'
            /\ jobState'[j] = "running" => j \in InLaunch' \/ j \in ToSet(work') \/ j \in AtWorker'
    BY DEF NoJobLost, ToSet
  <2>1. jobState'[j] = "queued" => j \in InQueue'
    BY DEF InQueue, ToSet
  <2>2. ASSUME NEW t \in Schedulers, j \in ToSet(toLaunch'[t]) PROVE j \in InLaunch'
    BY <2>2 DEF InLaunch, Schedulers, ToSet
  <2>3. ASSUME NEW w \in Workers, cur'[w] = j PROVE j \in AtWorker'
    BY <2>3, <1>a DEF AtWorker
  <2> QED BY <2>1, <2>2, <2>3
<1> HIDE DEF Goal
<1>1. ASSUME NEW t \in Submitters, NEW j \in Jobs, Submit(t, j) PROVE NoJobLost'
  <2>1. /\ queue' = Append(queue, j)
        /\ jobState' = [jobState EXCEPT ![j] = "queued"]
        /\ UNCHANGED <<remaining, toLaunch, work, cur>>
    BY <1>1 DEF Submit
  <2>2. ToSet(queue') = ToSet(queue) \cup {j}
    BY <1>a, <2>1, AppendSet
  <2> QED BY <1>a, <1>c, <1>d, <2>1, <2>2 DEF Goal
<1>2. ASSUME NEW t \in Submitters, NEW j \in Jobs, SubmitRejected(t, j) PROVE NoJobLost'
  <2>1. /\ jobState' = [jobState EXCEPT ![j] = "rejected"]
        /\ UNCHANGED <<queue, remaining, toLaunch, work, cur>>
    BY <1>2 DEF SubmitRejected
  <2> QED BY <1>a, <1>c, <1>d, <2>1 DEF Goal
<1>3. ASSUME NEW t \in Schedulers, BeginScan(t) PROVE NoJobLost'
  <2>1. /\ remaining = <<>> /\ toLaunch[t] = <<>>
        /\ remaining' = <<>> /\ toLaunch' = [toLaunch EXCEPT ![t] = <<>>]
        /\ UNCHANGED <<queue, work, cur, jobState>>
    BY <1>3 DEF BeginScan, ScanLists
  <2>2. toLaunch' = toLaunch
    BY <1>a, <2>1
  <2> QED BY <2>1, <2>2, StaysPlaced
<1>4. ASSUME NEW t \in Schedulers, Place(t) PROVE NoJobLost'
  <2> DEFINE j == Head(queue)
  <2>1. /\ queue # <<>>
        /\ queue' = Tail(queue) /\ jobState' = [jobState EXCEPT ![j] = "running"]
        /\ toLaunch' = [toLaunch EXCEPT ![t] = Append(toLaunch[t], j)]
        /\ UNCHANGED <<remaining, work, cur>>
    BY <1>4 DEF Place, Placed, Typed, ControlOK, Schedulers
  <2>2. j \in Jobs /\ ToSet(queue') = ToSet(queue) \ {j}
    BY <1>a, <1>b, <2>1, TailSet
  <2> HIDE DEF j
  <2>3. ToSet(toLaunch'[t]) = ToSet(toLaunch[t]) \cup {j}
    BY <1>a, <2>1, <2>2, AppendSet
  <2>4. \A u \in Schedulers : ToSet(toLaunch[u]) \subseteq ToSet(toLaunch'[u])
    BY <1>a, <2>1, <2>3
  <2>5. \A k \in Jobs \ {j} : jobState'[k] = jobState[k]
    BY <1>a, <2>1, <2>2
  <2>6. jobState'[j] = "running"
    BY <1>a, <2>1, <2>2
  <2> QED BY <1>c, <1>d, <2>1, <2>2, <2>3, <2>4, <2>5, <2>6 DEF Goal
<1>5. ASSUME NEW t \in Schedulers, Defer(t) PROVE NoJobLost'
  <2> DEFINE j == Head(queue)
  <2>1. /\ queue # <<>> /\ queue' = Tail(queue) /\ remaining' = Append(remaining, j)
        /\ UNCHANGED <<toLaunch, work, cur, jobState>>
    BY <1>5 DEF Defer, Placed, Typed, ControlOK, Schedulers
  <2>2. j \in Jobs /\ ToSet(queue') = ToSet(queue) \ {j}
    BY <1>a, <1>b, <2>1, TailSet
  <2>3. ToSet(remaining') = ToSet(remaining) \cup {j}
    BY <1>a, <2>1, <2>2, AppendSet
  <2> HIDE DEF j
  <2> QED BY <1>c, <1>d, <2>1, <2>2, <2>3 DEF Goal
<1>6. ASSUME NEW t \in Schedulers, ScanRaises(t) PROVE NoJobLost'
  BY <1>6 DEF ScanRaises
<1>7. ASSUME NEW t \in Schedulers, EndScan(t) PROVE NoJobLost'
  <2>1. /\ queue = <<>> /\ queue' = remaining /\ remaining' = <<>>
        /\ UNCHANGED <<toLaunch, work, cur, jobState>>
    BY <1>7 DEF EndScan
  <2> QED BY <1>c, <1>d, <2>1, EmptySet DEF Goal
<1>8. ASSUME NEW t \in Schedulers, Launch(t) PROVE NoJobLost'
  <2> DEFINE j == Head(toLaunch[t])
  <2>1. /\ toLaunch[t] # <<>> /\ work' = Append(work, j)
        /\ toLaunch' = [toLaunch EXCEPT ![t] = Tail(toLaunch[t])]
        /\ UNCHANGED <<queue, remaining, cur, jobState>>
    BY <1>8 DEF Launch
  <2>2. j \in Jobs /\ ToSet(toLaunch'[t]) = ToSet(toLaunch[t]) \ {j}
    BY <1>a, <1>b, <2>1, TailSet
  <2>3. ToSet(work') = ToSet(work) \cup {j}
    BY <1>a, <2>1, <2>2, AppendSet
  <2> HIDE DEF j
  <2>4. \A u \in Schedulers : ToSet(toLaunch[u]) \subseteq ToSet(toLaunch'[u]) \cup {j}
    BY <1>a, <2>1, <2>2
  <2> QED BY <1>c, <1>d, <2>1, <2>3, <2>4 DEF Goal
<1>9. ASSUME NEW w \in Workers, PickUp(w) PROVE NoJobLost'
  <2> DEFINE j == Head(work)
  <2>1. /\ work # <<>> /\ work' = Tail(work) /\ cur' = [cur EXCEPT ![w] = j]
        /\ pc[w] = "idle"
        /\ UNCHANGED <<queue, remaining, toLaunch, jobState>>
    BY <1>9 DEF PickUp
  <2>2. j \in Jobs /\ ToSet(work') = ToSet(work) \ {j}
    BY <1>a, <1>b, <2>1, TailSet
  <2>3. cur[w] = None
    BY <2>1 DEF Placed, Typed, ControlOK, RunPcs
  <2> HIDE DEF j
  <2>4. cur'[w] = j /\ \A v \in Workers : cur[v] \in Jobs => cur'[v] = cur[v]
    BY <1>a, <2>1, <2>3
  <2> QED BY <1>c, <1>d, <2>1, <2>2, <2>4 DEF Goal
<1>10. ASSUME NEW w \in Workers, Finish(w) PROVE NoJobLost'
  <2>1. /\ jobState' = [jobState EXCEPT ![cur[w]] = outcome[w]]
        /\ cur' = [cur EXCEPT ![w] = None]
        /\ pc[w] = "finish"
        /\ UNCHANGED <<queue, remaining, toLaunch, work>>
    BY <1>10 DEF Finish
  <2>2. cur[w] \in Jobs /\ outcome[w] \in FinalStates
    BY <1>a, <2>1 DEF Placed, Typed, ControlOK, RunPcs
  <2>3. /\ jobState'[cur[w]] \notin {"queued", "running"}
        /\ \A k \in Jobs \ {cur[w]} : jobState'[k] = jobState[k]
        /\ \A v \in Workers : cur[v] # cur[w] => cur'[v] = cur[v]
    BY <1>a, <2>1, <2>2 DEF FinalStates
  <2> QED BY <1>c, <1>d, <2>1, <2>2, <2>3 DEF Goal
<1>11. ASSUME NEW t \in Schedulers, ProbeFor(t) PROVE NoJobLost'
  BY <1>11, StaysPlaced DEF ProbeFor
<1>12. ASSUME NEW w \in Workers,
              \/ PostPending(w) \/ StartContainer(w) \/ StartFails(w)
              \/ ReadToEof(w) \/ ReadFails(w) \/ WaitExit(w) \/ WaitTimeout(w)
              \/ PostFinal(w) \/ HandleException(w) \/ ReleaseGpus(w) \/ Signal(w)
       PROVE NoJobLost'
  BY <1>12, StaysPlaced DEF PostPending, StartContainer, StartFails, ReadToEof, ReadFails,
     WaitExit, WaitTimeout, PostFinal, HandleException, ReleaseGpus, Signal
<1>13. ASSUME NEW x \in Waiters, CheckPending(x) \/ Wake(x) PROVE NoJobLost'
  BY <1>13, StaysPlaced DEF CheckPending, Wake
<1>14. ASSUME NEW j \in Jobs, ContainerCloses(j) \/ ContainerExits(j) PROVE NoJobLost'
  BY <1>14, StaysPlaced DEF ContainerCloses, ContainerExits
<1>15. CASE UNCHANGED vars
  BY <1>15, StaysPlaced DEF vars, schedVars
<1> QED
  BY <1>1, <1>2, <1>3, <1>4, <1>5, <1>6, <1>7, <1>8, <1>9, <1>10, <1>11, <1>12, <1>13, <1>14,
     <1>15 DEF Next, TrySchedule, RunJob, WaitAll, Schedulers

LEMMA InitKeepsJobs == Init => KeepsJobs
<1> SUFFICES ASSUME Init PROVE KeepsJobs
  OBVIOUS
<1>1. ScanLists
  BY ThreadsDisjoint DEF Init, ScanLists, Schedulers
<1>2. NoJobLost
  BY DEF Init, NoJobLost
<1> QED BY <1>1, <1>2, InitIInv DEF KeepsJobs

LEMMA NextKeepsJobs ==
  ASSUME Malformed = {}, KeepsJobs, [Next]_vars
  PROVE  KeepsJobs'
<1>1. Placed
  BY DEF KeepsJobs, IInv
<1> QED BY <1>1, NextIInv, NextScanLists, NextNoJobLost DEF KeepsJobs

LEMMA KeepsJobsHolds ==
  ASSUME Malformed = {}
  PROVE  Spec => []KeepsJobs
<1>1. Init => KeepsJobs
  BY InitKeepsJobs
<1>2. KeepsJobs /\ [Next]_vars => KeepsJobs'
  BY NextKeepsJobs
<1> QED BY <1>1, <1>2, PTL DEF Spec

(* A job that _jobs shows as queued or running is in the hands of somebody *)
(* who will go on with it: the queue, a scan, the thread pool or a worker, *)
(* if the resources of all jobs parse.  A job whose resources do not takes *)
(* others with it: agent.py:281-282 raise with the lists in local variables.*)
THEOREM NoRequestDropped ==
  ASSUME Malformed = {}
  PROVE  Spec => []NoJobLost
<1>1. KeepsJobs => NoJobLost
  BY DEF KeepsJobs
<1> QED BY <1>1, KeepsJobsHolds, PTL

-----------------------------------------------------------------------------
(* No request is stranded.                                                 *)

(* The machine is large enough for every job, nobody else loads it, and    *)
(* clients neither outlive their output nor lose their supervisor.         *)
Servable ==
  /\ Malformed = {} /\ ~ExternalLoad /\ ~EarlyEof /\ ~OutputFails
  /\ \A j \in Jobs : Need[j] <= Cardinality(Gpus) /\ Mem[j] <= MaxMem

(* A thread in the middle of a scan goes on with it, or another thread     *)
(* does something that leaves the scan alone.                              *)
LEMMA ScanCases ==
  ASSUME Placed, [Next]_vars, NEW t \in Schedulers, pc'[t] \in {"scan", "allocate"}
  PROVE  \/ BeginScan(t) \/ ProbeFor(t) \/ Place(t) \/ Defer(t)
         \/ pc[t] = pc'[t] /\ UNCHANGED <<remaining, reading>>
<1> DEFINE Goal == \/ BeginScan(t) \/ ProbeFor(t) \/ Place(t) \/ Defer(t)
                   \/ pc[t] = pc'[t] /\ UNCHANGED <<remaining, reading>>
<1> USE ThreadsDisjoint DEF queueVars, jobVars, runVars, poolVars, Goto, Schedulers
<1>a. /\ pc \in [Threads -> Steps] /\ t \in Threads
      /\ Workers \subseteq Threads /\ Submitters \subseteq Threads /\ Waiters \subseteq Threads
  BY DEF Placed, Typed, TypeOK, Threads
<1>b. \A u \in Schedulers : pc[u] \in {"scan", "allocate"} => lock = u
  BY DEF Placed, Typed, ControlOK
<1> USE <1>a
<1>1. ASSUME NEW u \in Submitters, NEW j \in Jobs, Submit(u, j) \/ SubmitRejected(u, j) PROVE Goal
  BY <1>1 DEF Submit, SubmitRejected
<1>2. ASSUME NEW u \in Schedulers, BeginScan(u) PROVE Goal
  <2>1. CASE u = t
    BY <1>2, <2>1
  <2>2. CASE u # t
    <3>1. pc'[t] = pc[t] /\ lock = None
      BY <1>2, <2>2 DEF BeginScan
    <3> QED BY <3>1, <1>b
  <2> QED BY <2>1, <2>2
<1>3. ASSUME NEW u \in Schedulers,
             ProbeFor(u) \/ Place(u) \/ Defer(u) \/ ScanRaises(u) \/ EndScan(u)
      PROVE Goal
  <2>1. CASE u = t
    <3>1. ~ScanRaises(t) /\ ~EndScan(t)
      BY DEF ScanRaises, EndScan
    <3> QED BY <1>3, <2>1, <3>1
  <2>2. CASE u # t
    <3>1. pc'[t] = pc[t] /\ pc[u] \in {"scan", "allocate"}
      BY <1>3, <2>2 DEF ProbeFor, Place, Defer, ScanRaises, EndScan
    <3> QED BY <3>1, <2>2, <1>b
  <2> QED BY <2>1, <2>2
<1>4. ASSUME NEW u \in Schedulers, Launch(u) PROVE Goal
  BY <1>4 DEF Launch
<1>5. ASSUME NEW w \in Workers, PickUp(w) PROVE Goal
  BY <1>5 DEF PickUp
<1>6. ASSUME NEW w \in Workers, PostPending(w) PROVE Goal
  BY <1>6 DEF PostPending
<1>7. ASSUME NEW w \in Workers, StartContainer(w) \/ StartFails(w) PROVE Goal
  BY <1>7 DEF StartContainer, StartFails
<1>8. ASSUME NEW w \in Workers, ReadToEof(w) \/ ReadFails(w) PROVE Goal
  BY <1>8 DEF ReadToEof, ReadFails
<1>9. ASSUME NEW w \in Workers, WaitExit(w) PROVE Goal
  BY <1>9 DEF WaitExit
<1>10. ASSUME NEW w \in Workers, WaitTimeout(w) PROVE Goal
  BY <1>10 DEF WaitTimeout
<1>11. ASSUME NEW w \in Workers, PostFinal(w) PROVE Goal
  BY <1>11 DEF PostFinal
<1>12. ASSUME NEW w \in Workers, HandleException(w) PROVE Goal
  BY <1>12 DEF HandleException
<1>13. ASSUME NEW w \in Workers, ReleaseGpus(w) PROVE Goal
  BY <1>13 DEF ReleaseGpus, Release
<1>14. ASSUME NEW w \in Workers, Finish(w) \/ Signal(w) PROVE Goal
  BY <1>14 DEF Finish, Signal
<1>15. ASSUME NEW x \in Waiters, CheckPending(x) \/ Wake(x) PROVE Goal
  BY <1>15 DEF CheckPending, Wake
<1>16. ASSUME NEW j \in Jobs, ContainerCloses(j) \/ ContainerExits(j) PROVE Goal
  BY <1>16 DEF ContainerCloses, ContainerExits
<1>17. CASE UNCHANGED vars
  BY <1>17 DEF vars, schedVars
<1> QED
  BY <1>1, <1>2, <1>3, <1>4, <1>5, <1>6, <1>7, <1>8, <1>9, <1>10, <1>11, <1>12, <1>13, <1>14,
     <1>15, <1>16, <1>17 DEF Next, TrySchedule, RunJob, WaitAll

(* What will lead to another scan outlives this one: a thread that comes   *)
(* to rest has scanned itself, which it cannot now, or handed on a job.    *)
LEMMA OthersStay ==
  ASSUME Placed, [Next]_vars, NEW t \in Schedulers,
         pc[t] \in {"scan", "allocate"}, pc'[t] \in {"scan", "allocate"}, Others(t)
  PROVE  Others(t)'
<1> DEFINE Goal == \/ work' # <<>>
                   \/ toLaunch'[t] # <<>>
                   \/ \E u \in Schedulers \ {t} : pc'[u] # "idle"
<1> USE ThreadsDisjoint DEF queueVars, jobVars, runVars, poolVars, Goto, Schedulers
<1>a. /\ pc \in [Threads -> Steps] /\ t \in Threads
      /\ Workers \subseteq Threads /\ Submitters \subseteq Threads /\ Waiters \subseteq Threads
      /\ toLaunch \in [Schedulers -> Seq(Jobs)] /\ work \in Seq(Jobs)
      /\ queue \in Seq(Jobs)
  BY DEF Placed, Typed, TypeOK, Threads
<1>b. \A u \in Schedulers : pc[u] \in {"scan", "allocate"} => u = t
  BY DEF Placed, Typed, ControlOK
<1>c. \/ work # <<>> \/ toLaunch[t] # <<>>
      \/ \E u \in Schedulers \ {t} : pc[u] # "idle"
  BY DEF Others
<1> SUFFICES Goal
  BY DEF Others
<1> USE <1>a
<1>1. ASSUME NEW u \in Submitters, NEW j \in Jobs, Submit(u, j) \/ SubmitRejected(u, j) PROVE Goal
  BY <1>1, <1>c DEF Submit, SubmitRejected
<1>2. ASSUME NEW u \in Schedulers, BeginScan(u) PROVE Goal
  BY <1>2, <1>c DEF BeginScan
<1>3. ASSUME NEW u \in Schedulers, ProbeFor(u) \/ Defer(u) PROVE Goal
  BY <1>3, <1>b, <1>c DEF ProbeFor, Defer
<1>4. ASSUME NEW u \in Schedulers, Place(u) PROVE Goal
  <2>1. u = t /\ toLaunch' = [toLaunch EXCEPT ![t] = Append(toLaunch[t], Head(queue))]
        /\ queue # <<>>
    BY <1>4, <1>b DEF Place, Placed, Typed, ControlOK
  <2> DEFINE j == Head(queue)
             s == toLaunch[t]
  <2>2. j \in Jobs /\ s \in Seq(Jobs) /\ toLaunch'[t] = Append(s, j)
    BY <2>1, HeadTail
  <2> HIDE DEF j, s
  <2>3. toLaunch'[t] # <<>>
    BY <2>2, AppendProperties
  <2> QED BY <2>3
<1>5. ASSUME NEW u \in Schedulers, ScanRaises(u) \/ EndScan(u) PROVE Goal
  BY <1>5, <1>b DEF ScanRaises, EndScan
<1>6. ASSUME NEW u \in Schedulers, Launch(u) PROVE Goal
  <2>1. toLaunch[u] # <<>> /\ work' = Append(work, Head(toLaunch[u]))
    BY <1>6 DEF Launch
  <2>2. Head(toLaunch[u]) \in Jobs
    BY <2>1, HeadTail
  <2> QED BY <2>1, <2>2
<1>7. ASSUME NEW w \in Workers, PickUp(w) PROVE Goal
  BY <1>7 DEF PickUp
<1>8. ASSUME NEW w \in Workers, PostPending(w) PROVE Goal
  BY <1>8, <1>c DEF PostPending
<1>9. ASSUME NEW w \in Workers, StartContainer(w) \/ StartFails(w) PROVE Goal
  BY <1>9, <1>c DEF StartContainer, StartFails
<1>10. ASSUME NEW w \in Workers, ReadToEof(w) \/ ReadFails(w) PROVE Goal
  BY <1>10, <1>c DEF ReadToEof, ReadFails
<1>11. ASSUME NEW w \in Workers, WaitExit(w) PROVE Goal
  BY <1>11, <1>c DEF WaitExit
<1>12. ASSUME NEW w \in Workers, WaitTimeout(w) PROVE Goal
  BY <1>12, <1>c DEF WaitTimeout
<1>13. ASSUME NEW w \in Workers, PostFinal(w) PROVE Goal
  BY <1>13, <1>c DEF PostFinal
<1>14. ASSUME NEW w \in Workers, HandleException(w) PROVE Goal
  BY <1>14, <1>c DEF HandleException
<1>15. ASSUME NEW w \in Workers, ReleaseGpus(w) PROVE Goal
  BY <1>15, <1>c DEF ReleaseGpus
<1>16. ASSUME NEW w \in Workers, Finish(w) \/ Signal(w) PROVE Goal
  BY <1>16, <1>c DEF Finish, Signal
<1>17. ASSUME NEW x \in Waiters, CheckPending(x) \/ Wake(x) PROVE Goal
  BY <1>17, <1>c DEF CheckPending, Wake
<1>18. ASSUME NEW j \in Jobs, ContainerCloses(j) \/ ContainerExits(j) PROVE Goal
  BY <1>18, <1>c DEF ContainerCloses, ContainerExits
<1>19. CASE UNCHANGED vars
  BY <1>19, <1>c DEF vars, schedVars
<1> QED
  BY <1>1, <1>2, <1>3, <1>4, <1>5, <1>6, <1>7, <1>8, <1>9, <1>10, <1>11, <1>12, <1>13, <1>14,
     <1>15, <1>16, <1>17, <1>18, <1>19 DEF Next, TrySchedule, RunJob, WaitAll

(* A probe shows a device loaded only if a client of ours runs on it, and  *)
(* that client's worker will scan later.                                   *)
LEMMA LoadedByOthers ==
  ASSUME Servable, ComesToRest, NEW t \in Schedulers, ProbeFor(t)
  PROVE  /\ reading' \in Readings /\ DOMAIN reading'.util = Gpus /\ reading'.mem = MaxMem
         /\ (\E g \in Gpus : reading'.util[g] >= Threshold) => Others(t)
<1>1. PICK r \in ProbeReadings : reading' = r
  BY DEF ProbeFor, Detect
<1>2. /\ r \in Readings /\ DOMAIN r.util = Gpus /\ r.mem = MaxMem
      /\ \A g \in Gpus \ BusyGpus : r.util[g] < Threshold
  BY <1>1 DEF ProbeReadings, Servable
<1>3. r.util \in [Gpus -> 0 .. MaxUtil]
  BY <1>2 DEF Readings, Reading
<1>4. ASSUME NEW g \in Gpus, r.util[g] >= Threshold PROVE Others(t)
  <2>1. g \in BusyGpus
    BY <1>2, <1>3, <1>4, LevelsAreNat
  <2>2. PICK k \in Jobs : container[k] \in {"live", "closed", "killed"}
    BY <2>1 DEF BusyGpus
  <2>3. PICK w \in Workers : pc[w] \in {"read", "wait"}
    BY <2>2 DEF ComesToRest, WakeupOwed, Supervised
  <2>4. pc[t] = "scan"
    BY DEF ProbeFor, Goto
  <2> QED BY <2>3, <2>4 DEF Others, Schedulers
<1> QED BY <1>1, <1>2, <1>4

(* A request is passed over only because somebody holds a device, or held  *)
(* it when the devices were probed; whoever does will scan later.          *)
LEMMA DeferredForOthers ==
  ASSUME Servable, ComesToRest, NEW t \in Schedulers, Defer(t)
  PROVE  Others(t)
<1> DEFINE j == Head(queue)
<1>a. /\ IInv /\ Placed /\ NoJobLost /\ ScanLists /\ WakeupOwed
      /\ TypeOK /\ ControlOK
  BY DEF ComesToRest, KeepsJobs, IInv, Placed, Typed
<1>1. pc[t] = "allocate" /\ Refuse(Need[j], Mem[j])
  BY DEF Defer, Goto
<1>2. queue # <<>> /\ queue \in Seq(Jobs)
  BY <1>1, <1>a DEF ControlOK, TypeOK, Schedulers
<1>3. j \in Jobs /\ Need[j] \in Nat /\ Mem[j] \in Nat
  BY <1>2, HeadTail, JobConstants
<1>4. /\ reading \in Readings /\ DOMAIN reading.util = Gpus /\ reading.mem = MaxMem
      /\ (\E g \in Gpus : reading.util[g] >= Threshold) => Others(t)
  BY <1>1, <1>a DEF WakeupOwed
<1>5. Mem[j] <= MaxMem /\ Need[j] <= Cardinality(Gpus) /\ MaxMem \in Nat
  BY <1>3, LevelsAreNat DEF Servable
<1> HIDE DEF j
<1>6. ~Fits(reading, allocated, Need[j], Mem[j])
  BY <1>1, <1>3, <1>4, <1>5 DEF Refuse
<1>7. CASE \E g \in Gpus : reading.util[g] >= Threshold
  BY <1>4, <1>7
<1>8. CASE allocated # {}
  <2>1. PICK k \in Jobs : LeaseHeld[k] # {}
    BY <1>8, <1>a DEF IInv, LeasesExact, LeasesAllocated
  <2>2. Holding(k)
    BY <2>1, MappingDef DEF HeldBy
  <2>3. jobState[k] = "running"
    BY <2>2 DEF Holding
  <2>4. k \in InLaunch \cup ToSet(work) \cup AtWorker
    BY <2>3, <1>a DEF NoJobLost
  <2>5. CASE k \in InLaunch
    <3>1. PICK u \in Schedulers : k \in ToSet(toLaunch[u])
      BY <2>5 DEF InLaunch, Schedulers
    <3>2. toLaunch[u] # <<>>
      BY <3>1, EmptySet
    <3>3. u # t => pc[u] # "idle"
      BY <3>2, <1>a DEF ScanLists
    <3> QED BY <3>2, <3>3 DEF Others
  <2>6. CASE k \in ToSet(work)
    BY <2>6, EmptySet DEF Others
  <2>7. CASE k \in AtWorker
    <3>1. PICK w \in Workers : cur[w] = k /\ k # None
      BY <2>7 DEF AtWorker
    <3>2. pc[w] \in RunPcs
      BY <3>1, <1>a DEF ControlOK
    <3>3. w # t /\ pc[w] # "idle"
      BY <1>1, <3>2 DEF RunPcs
    <3> QED BY <3>3 DEF Others, Schedulers
  <2> QED BY <2>4, <2>5, <2>6, <2>7
<1>9. CASE allocated = {} /\ \A g \in Gpus : ~(reading.util[g] >= Threshold)
  <2>1. reading.util \in [Gpus -> 0 .. MaxUtil]
    BY <1>4 DEF Readings, Reading
  <2>2. \A g \in Gpus : reading.util[g] < Threshold
    BY <1>9, <2>1, LevelsAreNat
  <2>3. Available(reading, allocated) = Gpus
    BY <1>4, <1>9, <2>2 DEF Available
  <2>4. Cardinality(Gpus) \in Nat
    BY GpusFinite, FS_CardinalityType
  <2> QED BY <1>3, <1>4, <1>5, <1>6, <2>3, <2>4 DEF Fits
<1> QED BY <1>7, <1>8, <1>9

(* A scan that passes a request over leaves it to somebody: what was owed  *)
(* before the step is owed after it.                                       *)
LEMMA NextScanOwed ==
  ASSUME Servable, ComesToRest, [Next]_vars, NEW t \in Schedulers, pc'[t] \in {"scan", "allocate"}
  PROVE  /\ remaining' # <<>> => Others(t)'
         /\ pc'[t] = "allocate" =>
              /\ reading' \in Readings /\ DOMAIN reading'.util = Gpus /\ reading'.mem = MaxMem
              /\ (\E g \in Gpus : reading'.util[g] >= Threshold) => Others(t)'
<1>a. /\ Placed /\ WakeupOwed /\ t \in Threads /\ pc \in [Threads -> Steps]
  BY DEF ComesToRest, KeepsJobs, IInv, Placed, Typed, TypeOK, Schedulers, Threads
<1>b. pc[t] \in {"scan", "allocate"} /\ Others(t) => Others(t)'
  BY <1>a, OthersStay
<1>1. CASE BeginScan(t)
  BY <1>1, <1>a DEF BeginScan, Goto
<1>2. CASE ProbeFor(t)
  <2>1. pc[t] = "scan" /\ remaining' = remaining
    BY <1>2 DEF ProbeFor, Goto, queueVars
  <2>2. /\ reading' \in Readings /\ DOMAIN reading'.util = Gpus /\ reading'.mem = MaxMem
        /\ (\E g \in Gpus : reading'.util[g] >= Threshold) => Others(t)
    BY <1>2, LoadedByOthers
  <2> QED BY <2>1, <2>2, <1>a, <1>b DEF WakeupOwed
<1>3. CASE Place(t)
  <2>1. pc[t] = "allocate" /\ pc'[t] = "scan" /\ remaining' = remaining
    BY <1>3, <1>a DEF Place, Goto
  <2> QED BY <2>1, <1>a, <1>b DEF WakeupOwed
<1>4. CASE Defer(t)
  <2>1. pc[t] = "allocate" /\ pc'[t] = "scan"
    BY <1>4, <1>a DEF Defer, Goto
  <2> QED BY <2>1, <1>4, <1>b, DeferredForOthers
<1>5. CASE pc[t] = pc'[t] /\ UNCHANGED <<remaining, reading>>
  BY <1>5, <1>a, <1>b DEF WakeupOwed
<1> QED BY <1>1, <1>2, <1>3, <1>4, <1>5, <1>a, ScanCases

(* Once the lock is free, a request in the queue has somebody who will     *)
(* scan for it: whoever queued it, whoever it was passed over for, or the  *)
(* worker of a job the scan handed out.                                    *)
LEMMA NextNotStuck ==
  ASSUME Servable, ComesToRest, [Next]_vars, lock' = None, queue' # <<>>
  PROVE  ~Quiescent'
<1> DEFINE Goal == work' # <<>> \/ \E u \in Schedulers : pc'[u] # "idle"
<1> USE ThreadsDisjoint DEF queueVars, jobVars, runVars, poolVars, Goto, Schedulers
<1>a. /\ pc \in [Threads -> Steps]
      /\ Workers \subseteq Threads /\ Submitters \subseteq Threads /\ Waiters \subseteq Threads
      /\ toLaunch \in [Schedulers -> Seq(Jobs)] /\ work \in Seq(Jobs)
  BY DEF ComesToRest, KeepsJobs, IInv, Placed, Typed, TypeOK, Threads
<1>b. lock = None /\ queue # <<>> => work # <<>> \/ \E u \in Schedulers : pc[u] # "idle"
  BY DEF ComesToRest, WakeupOwed, Quiescent
<1> SUFFICES Goal
  BY DEF Quiescent
<1> USE <1>a
<1>1. ASSUME NEW u \in Submitters, NEW j \in Jobs, Submit(u, j) PROVE Goal
  BY <1>1 DEF Submit
<1>2. ASSUME NEW u \in Submitters, NEW j \in Jobs, SubmitRejected(u, j) PROVE Goal
  BY <1>2, <1>b DEF SubmitRejected
<1>3. ASSUME NEW u \in Schedulers, BeginScan(u) \/ ProbeFor(u) \/ Place(u) \/ Defer(u) PROVE Goal
  BY <1>3 DEF BeginScan, ProbeFor, Place, Defer
<1>4. ASSUME NEW u \in Schedulers, ScanRaises(u) PROVE Goal
  BY <1>4 DEF ScanRaises, Servable
<1>5. ASSUME NEW u \in Schedulers, EndScan(u) PROVE Goal
  <2>1. /\ queue' = remaining /\ work' = work
        /\ pc[u] = "scan"
        /\ pc' = [pc EXCEPT ![u] = IF toLaunch[u] = <<>> THEN "idle" ELSE "launch"]
    BY <1>5 DEF EndScan
  <2>2. Others(u)
    BY <2>1 DEF ComesToRest, WakeupOwed
  <2> QED BY <2>1, <2>2 DEF Others
<1>6. ASSUME NEW u \in Schedulers, Launch(u) PROVE Goal
  <2> DEFINE j == Head(toLaunch[u])
  <2>1. toLaunch[u] # <<>> /\ work' = Append(work, j)
    BY <1>6 DEF Launch
  <2>2. j \in Jobs
    BY <2>1, HeadTail
  <2> HIDE DEF j
  <2> QED BY <2>1, <2>2, AppendProperties
<1>7. ASSUME NEW w \in Workers, PickUp(w) PROVE Goal
  BY <1>7 DEF PickUp
<1>8. ASSUME NEW w \in Workers, PostPending(w) PROVE Goal
  BY <1>8 DEF PostPending
<1>9. ASSUME NEW w \in Workers, StartContainer(w) \/ StartFails(w) PROVE Goal
  BY <1>9 DEF StartContainer, StartFails
<1>10. ASSUME NEW w \in Workers, ReadToEof(w) \/ ReadFails(w) PROVE Goal
  BY <1>10 DEF ReadToEof, ReadFails
<1>11. ASSUME NEW w \in Workers, WaitExit(w) PROVE Goal
  BY <1>11 DEF WaitExit
<1>12. ASSUME NEW w \in Workers, WaitTimeout(w) PROVE Goal
  BY <1>12 DEF WaitTimeout
<1>13. ASSUME NEW w \in Workers, PostFinal(w) PROVE Goal
  BY <1>13 DEF PostFinal
<1>14. ASSUME NEW w \in Workers, HandleException(w) PROVE Goal
  BY <1>14 DEF HandleException
<1>15. ASSUME NEW w \in Workers, ReleaseGpus(w) PROVE Goal
  BY <1>15 DEF ReleaseGpus
<1>16. ASSUME NEW w \in Workers, Finish(w) \/ Signal(w) PROVE Goal
  BY <1>16 DEF Finish, Signal
<1>17. ASSUME NEW x \in Waiters, CheckPending(x) \/ Wake(x) PROVE Goal
  BY <1>17, <1>b DEF CheckPending, Wake
<1>18. ASSUME NEW j \in Jobs, ContainerCloses(j) \/ ContainerExits(j) PROVE Goal
  BY <1>18, <1>b DEF ContainerCloses, ContainerExits
<1>19. CASE UNCHANGED vars
  BY <1>19, <1>b DEF vars, schedVars
<1> QED
  BY <1>1, <1>2, <1>3, <1>4, <1>5, <1>6, <1>7, <1>8, <1>9, <1>10, <1>11, <1>12, <1>13, <1>14,
     <1>15, <1>16, <1>17, <1>18, <1>19 DEF Next, TrySchedule, RunJob, WaitAll

(* A docker client neither outlives its output nor is killed, if it closes *)
(* its output only by ending.                                              *)
LEMMA NextClientsEnd ==
  ASSUME ~EarlyEof, Placed, [Next]_vars,
         \A j \in Jobs : container[j] \notin {"closed", "killed"}
  PROVE  \A j \in Jobs : container'[j] \notin {"closed", "killed"}
<1> DEFINE Goal == \A j \in Jobs : container'[j] \notin {"closed", "killed"}
<1> USE ThreadsDisjoint DEF queueVars, jobVars, runVars, poolVars, Goto
<1>a. /\ container \in [Jobs -> {"none", "live", "closed", "passed", "failed", "killed"}]
      /\ \A w \in Workers : pc[w] \in RunPcs => cur[w] \in Jobs
  BY DEF Placed, Typed, TypeOK, ControlOK
<1> USE <1>a
<1>1. ASSUME NEW u \in Submitters, NEW j \in Jobs, Submit(u, j) \/ SubmitRejected(u, j) PROVE Goal
  BY <1>1 DEF Submit, SubmitRejected
<1>2. ASSUME NEW u \in Submitters \cup Workers, TrySchedule(u) PROVE Goal
  <2>1. UNCHANGED container
    BY <1>2 DEF TrySchedule, BeginScan, ProbeFor, Place, Defer, ScanRaises, EndScan, Launch
  <2> QED BY <2>1
<1>3. ASSUME NEW w \in Workers, StartContainer(w) PROVE Goal
  BY <1>3 DEF StartContainer
<1>4. ASSUME NEW w \in Workers, WaitTimeout(w) PROVE Goal
  BY <1>4 DEF WaitTimeout, RunPcs
<1>5. ASSUME NEW w \in Workers,
             PickUp(w) \/ PostPending(w) \/ StartFails(w) \/ ReadToEof(w) \/ ReadFails(w)
      PROVE Goal
  BY <1>5 DEF PickUp, PostPending, StartFails, ReadToEof, ReadFails
<1>6. ASSUME NEW w \in Workers,
             \/ WaitExit(w) \/ PostFinal(w) \/ HandleException(w)
             \/ ReleaseGpus(w) \/ Finish(w) \/ Signal(w)
      PROVE Goal
  BY <1>6 DEF WaitExit, PostFinal, HandleException, ReleaseGpus, Finish, Signal
<1>7. ASSUME NEW x \in Waiters, CheckPending(x) \/ Wake(x) PROVE Goal
  BY <1>7 DEF CheckPending, Wake
<1>8. ASSUME NEW j \in Jobs, ContainerCloses(j) \/ ContainerExits(j) PROVE Goal
  BY <1>8 DEF ContainerCloses, ContainerExits
<1>9. CASE UNCHANGED vars
  BY <1>9 DEF vars, schedVars
<1> QED
  BY <1>1, <1>2, <1>3, <1>4, <1>5, <1>6, <1>7, <1>8, <1>9 DEF Next, RunJob, WaitAll

LEMMA InitComesToRest == Servable /\ Init => ComesToRest
<1> SUFFICES ASSUME Servable, Init PROVE ComesToRest
  OBVIOUS
<1>1. KeepsJobs
  BY InitKeepsJobs
<1>2. Supervised
  BY DEF Init, Supervised
<1>3. WakeupOwed
  BY ThreadsDisjoint DEF Init, WakeupOwed, Schedulers, Threads
<1> QED BY <1>1, <1>2, <1>3 DEF ComesToRest

LEMMA NextComesToRest == Servable /\ ComesToRest /\ [Next]_vars => ComesToRest'
<1> SUFFICES ASSUME Servable, ComesToRest, [Next]_vars PROVE ComesToRest'
  OBVIOUS
<1>1. KeepsJobs'
  BY NextKeepsJobs DEF Servable, ComesToRest
<1>2. Supervised'
  BY NextSupervised DEF Servable, ComesToRest, KeepsJobs, IInv
<1>3. \A j \in Jobs : container'[j] \notin {"closed", "killed"}
  BY NextClientsEnd DEF Servable, ComesToRest, KeepsJobs, IInv, WakeupOwed
<1>4. lock' = None /\ queue' # <<>> => ~Quiescent'
  BY NextNotStuck
<1>5. WakeupOwed'
  BY <1>3, <1>4, NextScanOwed DEF WakeupOwed
<1> QED BY <1>1, <1>2, <1>5 DEF ComesToRest

(* A machine at rest has an empty queue, for any number of jobs, devices   *)
(* and threads, although only submit and the end of a job look at the      *)
(* queue (agent.py:268-303, 456): whatever made allocate() refuse a        *)
(* request is somebody who will schedule again, if the machine could serve *)
(* every request on its own and nothing but the agent's own clients loads  *)
(* it.  Each of those assumptions is needed: see the hazards.              *)
THEOREM NoRequestStranded ==
  ASSUME Servable
  PROVE  Spec => []NoStrandedJob
<1>1. Init => ComesToRest
  BY InitComesToRest
<1>2. ComesToRest /\ [Next]_vars => ComesToRest'
  BY NextComesToRest
<1>3. ComesToRest => NoStrandedJob
  <2> SUFFICES ASSUME ComesToRest, Quiescent PROVE queue = <<>>
    BY DEF NoStrandedJob
  <2>1. lock = None
    BY DEF ComesToRest, KeepsJobs, IInv, Placed, Typed, TypeOK, ScanLists, Quiescent
  <2> QED BY <2>1 DEF ComesToRest, WakeupOwed
<1> QED BY <1>1, <1>2, <1>3, PTL DEF Spec

-----------------------------------------------------------------------------
(* Commit statuses settle.                                                 *)

(* A step that no commit status and no running worker notices.             *)
Unnoticed ==
  /\ UNCHANGED <<status, cur, outcome>>
  /\ \A w \in Workers : pc[w] \in RunPcs \/ pc'[w] \in RunPcs => pc'[w] = pc[w]
  /\ \A j \in Jobs : \/ jobState'[j] = jobState[j]
                     \/ {jobState[j], jobState'[j]} \cap FinalStates = {}

LEMMA UnnoticedKeepsStatus ==
  ASSUME Placed, StatusTrue, Unnoticed PROVE StatusTrue'
<1>a. /\ status \in [Contexts -> FinalStates \cup {"none", "pending", "error"}]
      /\ \A j \in Jobs : ContextOf[j] \in Contexts
      /\ Contexts' = Contexts
  BY DEF Placed, Typed, TypeOK, Contexts
<1>1. \A w \in Workers :
        /\ pc'[w] \in {"post_pending", "start", "read", "wait", "except"} => outcome'[w] = "none"
        /\ pc'[w] \in RunPcs \ {"post_pending"} => status'[ContextOf[cur'[w]]] # "none"
  BY DEF Unnoticed, StatusTrue, RunPcs
<1>2. \A j \in Jobs : jobState'[j] \in FinalStates => status'[ContextOf[j]] # "none"
  BY DEF Unnoticed, StatusTrue
<1>3. ASSUME NEW c \in Contexts, status'[c] = "pending"
      PROVE  \E w \in Workers : /\ pc'[w] \in {"start", "read", "wait", "post_final", "except"}
                                /\ ContextOf[cur'[w]] = c
  BY <1>3 DEF Unnoticed, StatusTrue, RunPcs
<1>4. ASSUME NEW c \in Contexts, status'[c] \notin {"none", "pending"}
      PROVE  EndedWith(c, Verdict(status[c]))'
  <2>1. Verdict(status[c]) \in FinalStates /\ EndedWith(c, Verdict(status[c]))
    BY <1>4, <1>a DEF Unnoticed, StatusTrue, Verdict, FinalStates
  <2>2. Verdict(status[c])' = Verdict(status[c])
    BY DEF Unnoticed, Verdict
  <2> DEFINE s == Verdict(status[c])
  <2>3. CASE \E k \in Jobs : ContextOf[k] = c /\ jobState[k] = s
    <3>1. \E k \in Jobs : ContextOf[k] = c /\ jobState'[k] = s
      BY <2>1, <2>3 DEF Unnoticed
    <3> QED BY <3>1, <2>2 DEF EndedWith
  <2>4. CASE \E w \in Workers : /\ pc[w] \in {"release", "finish"}
                                /\ ContextOf[cur[w]] = c /\ outcome[w] = s
    <3>1. \E w \in Workers : /\ pc'[w] \in {"release", "finish"}
                             /\ ContextOf[cur'[w]] = c /\ outcome'[w] = s
      BY <2>4 DEF Unnoticed, RunPcs
    <3> QED BY <3>1, <2>2 DEF EndedWith
  <2> QED BY <2>1, <2>3, <2>4 DEF EndedWith
<1> QED BY <1>1, <1>2, <1>3, <1>4, <1>a DEF StatusTrue, Unnoticed

(* Submitting, scheduling, waking, waiting and the containers themselves   *)
(* go unnoticed.                                                           *)
LEMMA UnnoticedSteps ==
  ASSUME Placed, [Next]_vars, \A w \in Workers : RunJob(w) => Signal(w)
  PROVE  Unnoticed
<1> USE ThreadsDisjoint DEF queueVars, jobVars, runVars, poolVars, Goto, RunPcs, FinalStates
<1>a. /\ pc \in [Threads -> Steps]
      /\ Workers \subseteq Threads /\ Submitters \subseteq Threads /\ Waiters \subseteq Threads
      /\ jobState \in [Jobs -> FinalStates \cup {"new", "rejected", "queued", "running"}]
  BY DEF Placed, Typed, TypeOK, Threads
<1> USE <1>a
<1>1. ASSUME NEW u \in Submitters, NEW j \in Jobs, Submit(u, j) \/ SubmitRejected(u, j)
      PROVE Unnoticed
  BY <1>1 DEF Submit, SubmitRejected, Unnoticed
<1>2. ASSUME NEW u \in Submitters \cup Workers, Place(u) PROVE Unnoticed
  <2> DEFINE j == Head(queue)
  <2>1. queue # <<>> /\ queue \in Seq(Jobs)
    BY <1>2 DEF Place, Placed, Typed, TypeOK, ControlOK
  <2>2. j \in Jobs /\ jobState[j] = "queued"
    BY <2>1, TailSet DEF Placed, QueuePlaces
  <2>3. /\ pc[u] = "allocate" /\ pc' = [pc EXCEPT ![u] = "scan"]
        /\ jobState' = [jobState EXCEPT ![j] = "running"]
        /\ UNCHANGED <<status, cur, outcome>>
    BY <1>2 DEF Place
  <2> HIDE DEF j
  <2> QED BY <2>2, <2>3 DEF Unnoticed
<1>3. ASSUME NEW u \in Submitters \cup Workers, BeginScan(u) \/ ProbeFor(u) \/ Defer(u)
      PROVE Unnoticed
  BY <1>3 DEF BeginScan, ProbeFor, Defer, Unnoticed
<1>4. ASSUME NEW u \in Submitters \cup Workers, ScanRaises(u) \/ EndScan(u) \/ Launch(u)
      PROVE Unnoticed
  BY <1>4 DEF ScanRaises, EndScan, Launch, Unnoticed
<1>5. ASSUME NEW w \in Workers, Signal(w) PROVE Unnoticed
  BY <1>5 DEF Signal, Unnoticed
<1>6. ASSUME NEW x \in Waiters, CheckPending(x) \/ Wake(x) PROVE Unnoticed
  BY <1>6 DEF CheckPending, Wake, Unnoticed
<1>7. ASSUME NEW j \in Jobs, ContainerCloses(j) \/ ContainerExits(j) PROVE Unnoticed
  BY <1>7 DEF ContainerCloses, ContainerExits, Unnoticed
<1>8. CASE UNCHANGED vars
  BY <1>8 DEF vars, schedVars, Unnoticed
<1> QED
  BY <1>1, <1>2, <1>3, <1>4, <1>5, <1>6, <1>7, <1>8 DEF Next, TrySchedule, WaitAll

(* The steps of _run_job, if every post is delivered.                      *)
LEMMA RunKeepsStatus ==
  ASSUME PostOutcomes = {"delivered"}, Placed, StatusTrue, NEW w \in Workers,
         RunJob(w), ~Signal(w)
  PROVE  StatusTrue'
<1> DEFINE Posted ==
      \A v \in Workers :
        /\ pc'[v] \in {"post_pending", "start", "read", "wait", "except"} => outcome'[v] = "none"
        /\ pc'[v] \in RunPcs \ {"post_pending"} => status'[ContextOf[cur'[v]]] # "none"
    Shown == \A j \in Jobs : jobState'[j] \in FinalStates => status'[ContextOf[j]] # "none"
    Pending == \A c \in Contexts : status'[c] = "pending" =>
      \E v \in Workers : /\ pc'[v] \in {"start", "read", "wait", "post_final", "except"}
                         /\ ContextOf[cur'[v]] = c
    Ended == \A c \in Contexts : status'[c] \notin {"none", "pending"} =>
      LET s == IF status'[c] = "error" THEN "failure" ELSE status'[c] IN
      \/ \E k \in Jobs : ContextOf[k] = c /\ jobState'[k] = s
      \/ \E v \in Workers : /\ pc'[v] \in {"release", "finish"}
                            /\ ContextOf[cur'[v]] = c
                            /\ outcome'[v] = s
    Goal == Posted /\ Shown /\ Pending /\ Ended
<1> USE DEF queueVars, jobVars, runVars, Goto, RunPcs, FinalStates
<1>a. /\ pc \in [Threads -> Steps] /\ w \in Threads
      /\ Workers \subseteq Threads
      /\ jobState \in [Jobs -> FinalStates \cup {"new", "rejected", "queued", "running"}]
      /\ cur \in [Workers -> Jobs \cup {None}]
      /\ outcome \in [Workers -> FinalStates \cup {"none"}]
      /\ status \in [Contexts -> FinalStates \cup {"none", "pending", "error"}]
      /\ \A j \in Jobs : ContextOf[j] \in Contexts
  BY DEF Placed, Typed, TypeOK, Threads, Contexts
<1>b. /\ \A v \in Workers : pc[v] \in RunPcs => cur[v] \in Jobs /\ jobState[cur[v]] = "running"
      /\ \A v \in Workers : pc[v] \in {"post_final", "release", "finish"} => outcome[v] # "none"
  BY <1>a DEF Placed, Typed, ControlOK, RunPlaces
<1>c. /\ \A v \in Workers :
           /\ pc[v] \in {"post_pending", "start", "read", "wait", "except"} => outcome[v] = "none"
           /\ pc[v] \in RunPcs \ {"post_pending"} => status[ContextOf[cur[v]]] # "none"
      /\ \A j \in Jobs : jobState[j] \in FinalStates => status[ContextOf[j]] # "none"
      /\ \A c \in Contexts : status[c] = "pending" =>
           \E v \in Workers : /\ pc[v] \in {"start", "read", "wait", "post_final", "except"}
                              /\ ContextOf[cur[v]] = c
      /\ \A c \in Contexts : status[c] \notin {"none", "pending"} =>
           LET s == IF status[c] = "error" THEN "failure" ELSE status[c] IN
           \/ \E k \in Jobs : ContextOf[k] = c /\ jobState[k] = s
           \/ \E v \in Workers : /\ pc[v] \in {"release", "finish"}
                                 /\ ContextOf[cur[v]] = c
                                 /\ outcome[v] = s
  BY DEF StatusTrue, EndedWith, Verdict
<1>d. Goal => StatusTrue'
  BY DEF StatusTrue, EndedWith, Verdict, Contexts
<1> USE <1>a
<1>1. CASE PickUp(w)
  <2>1. /\ pc[w] = "idle" /\ pc' = [pc EXCEPT ![w] = "post_pending"]
        /\ outcome' = [outcome EXCEPT ![w] = "none"]
        /\ \A v \in Workers \ {w} : cur'[v] = cur[v]
        /\ UNCHANGED <<status, jobState>>
    BY <1>1 DEF PickUp
  <2>2. Posted /\ Shown
    BY <2>1, <1>b, <1>c
  <2>3. Pending
    BY <2>1, <1>b, <1>c
  <2>4. Ended
    BY <2>1, <1>b, <1>c
  <2> QED BY <2>2, <2>3, <2>4, <1>d
<1>2. CASE PostPending(w)
  <2>1. /\ pc[w] = "post_pending" /\ pc' = [pc EXCEPT ![w] = "start"]
        /\ status' = [status EXCEPT ![ContextOf[cur[w]]] = "pending"]
        /\ UNCHANGED <<cur, outcome, jobState>>
    BY <1>2 DEF PostPending, Post
  <2>2. Posted /\ Shown
    BY <2>1, <1>b, <1>c
  <2>3. Pending
    BY <2>1, <1>b, <1>c
  <2>4. Ended
    BY <2>1, <1>b, <1>c
  <2> QED BY <2>2, <2>3, <2>4, <1>d
<1>3. CASE StartContainer(w) \/ StartFails(w)
  BY <1>3, <1>b, <1>c, <1>d DEF StartContainer, StartFails
<1>4. CASE ReadToEof(w) \/ ReadFails(w)
  BY <1>4, <1>b, <1>c, <1>d DEF ReadToEof, ReadFails
<1>5. CASE WaitExit(w)
  BY <1>5, <1>b, <1>c, <1>d DEF WaitExit
<1>6. CASE WaitTimeout(w)
  BY <1>6, <1>b, <1>c, <1>d DEF WaitTimeout
<1>7. CASE PostFinal(w)
  <2>1. /\ pc[w] = "post_final" /\ pc' = [pc EXCEPT ![w] = "release"]
        /\ status' = [status EXCEPT ![ContextOf[cur[w]]] = outcome[w]]
        /\ UNCHANGED <<cur, outcome, jobState>>
    BY <1>7 DEF PostFinal, Post
  <2>2. Posted /\ Shown
    BY <2>1, <1>b, <1>c
  <2>3. Pending
    BY <2>1, <1>b, <1>c
  <2>4. Ended
    BY <2>1, <1>b, <1>c
  <2> QED BY <2>2, <2>3, <2>4, <1>d
<1>8. CASE HandleException(w)
  <2>1. /\ pc[w] = "except" /\ pc' = [pc EXCEPT ![w] = "release"]
        /\ status' = [status EXCEPT ![ContextOf[cur[w]]] = "error"]
        /\ outcome' = [outcome EXCEPT ![w] = "failure"]
        /\ UNCHANGED <<cur, jobState>>
    BY <1>8, <1>c DEF HandleException, Post
  <2>2. Posted /\ Shown
    BY <2>1, <1>b, <1>c
  <2>3. Pending
    BY <2>1, <1>b, <1>c
  <2>4. Ended
    BY <2>1, <1>b, <1>c
  <2> QED BY <2>2, <2>3, <2>4, <1>d
<1>9. CASE ReleaseGpus(w)
  BY <1>9, <1>b, <1>c, <1>d DEF ReleaseGpus
<1>10. CASE Finish(w)
  <2>1. /\ pc[w] = "finish" /\ pc' = [pc EXCEPT ![w] = "signal"]
        /\ jobState' = [jobState EXCEPT ![cur[w]] = outcome[w]]
        /\ cur' = [cur EXCEPT ![w] = None]
        /\ UNCHANGED <<outcome, status>>
    BY <1>10 DEF Finish
  <2>2. Posted /\ Shown
    BY <2>1, <1>b, <1>c
  <2>3. Pending
    BY <2>1, <1>b, <1>c
  <2>4. Ended
    BY <2>1, <1>b, <1>c
  <2> QED BY <2>2, <2>3, <2>4, <1>d
<1> QED
  BY <1>1, <1>2, <1>3, <1>4, <1>5, <1>6, <1>7, <1>8, <1>9, <1>10 DEF RunJob

LEMMA StatusTrueHolds ==
  ASSUME PostOutcomes = {"delivered"}
  PROVE  Spec => [](IInv /\ StatusTrue)
<1>1. Init => StatusTrue
  BY ThreadsDisjoint DEF Init, StatusTrue, FinalStates, RunPcs, Threads
<1>2. IInv /\ StatusTrue /\ [Next]_vars => StatusTrue'
  <2> SUFFICES ASSUME IInv, StatusTrue, [Next]_vars PROVE StatusTrue'
    OBVIOUS
  <2>1. Placed
    BY DEF IInv
  <2>2. CASE \A w \in Workers : RunJob(w) => Signal(w)
    BY <2>1, <2>2, UnnoticedSteps, UnnoticedKeepsStatus
  <2>3. CASE \E w \in Workers : RunJob(w) /\ ~Signal(w)
    BY <2>1, <2>3, RunKeepsStatus
  <2> QED BY <2>2, <2>3
<1> QED BY <1>1, <1>2, InvariantHolds, PTL DEF Spec

(* At rest a context shows how one of its jobs ended, whatever the order   *)
(* in which the workers of jobs that share a context posted (_run_job      *)
(* 314-322 and 410-444): the last "pending" is always followed by a        *)
(* verdict.  It needs every post to arrive, since none is sent twice.      *)
THEOREM StatusesSettle ==
  ASSUME PostOutcomes = {"delivered"}
  PROVE  Spec => []StatusSettles
<1>1. IInv /\ StatusTrue => StatusSettles
  <2> SUFFICES ASSUME IInv, StatusTrue, Quiescent, NEW j \in Jobs, jobState[j] \in FinalStates
      PROVE \E k \in Jobs :
              /\ ContextOf[k] = ContextOf[j]
              /\ \/ status[ContextOf[j]] = jobState[k]
                 \/ status[ContextOf[j]] = "error" /\ jobState[k] = "failure"
    BY DEF StatusSettles
  <2> DEFINE c == ContextOf[j]
  <2>1. c \in Contexts /\ \A w \in Workers : pc[w] = "idle"
    BY DEF Contexts, Quiescent
  <2>2. status[c] \notin {"none", "pending"}
    BY <2>1 DEF StatusTrue
  <2>3. EndedWith(c, Verdict(status[c]))
    BY <2>1, <2>2 DEF StatusTrue
  <2>4. PICK k \in Jobs : ContextOf[k] = c /\ jobState[k] = Verdict(status[c])
    BY <2>1, <2>3 DEF EndedWith
  <2> QED BY <2>4 DEF Verdict
<1> QED BY <1>1, StatusTrueHolds, PTL
=============================================================================
