----------------------------- MODULE Scheduler ------------------------------
(***************************************************************************)
(* The job scheduler of the CI agent (.ci/agent.py, class Scheduler) over  *)
(* the GPU pool of ResourcePool.                                           *)
(*                                                                         *)
(* Threads: submitters call submit(); the workers of the thread pool run   *)
(* _run_job(); waiters call wait_all().  Submitters and workers both end   *)
(* in _try_schedule(), which scans the whole queue under the scheduler     *)
(* lock, asking the pool for devices request by request, and hands the     *)
(* jobs that got some to the thread pool after the lock is dropped.  A     *)
(* worker returns its devices under the pool lock only, in the middle of   *)
(* another thread's scan if it so happens.                                 *)
(*                                                                         *)
(* A step is a critical section, or what a thread does between two of      *)
(* them.  pc[t] names the step thread t takes next.                        *)
(***************************************************************************)
EXTENDS ResourcePool, SequencesExt

CONSTANTS
  Jobs,          \* job ids: each stands for one JobRequest
  Submitters,    \* threads that call submit (the agent's HTTP thread)
  Workers,       \* threads of the ThreadPoolExecutor (max_workers)
  Waiters,       \* threads that call wait_all
  None,          \* no thread, no job
  MaxQueue,      \* MAX_QUEUE_SIZE
  Need,          \* Need[j]: parse_gpu_requirement of the job's configuration
  Mem,           \* Mem[j]: parse_memory_requirement, as a memory level
  Malformed,     \* jobs whose resources make one of these two parsers raise
  UsesAll,       \* jobs configured with `gpu_ids: all`
  ContextOf,     \* ContextOf[j]: the commit-status context job j reports to
  PostOutcomes,  \* what a status post can end in: "delivered", "lost", "raised"
  ExternalLoad,  \* TRUE: probes may fail and others may load the devices
  EarlyEof,      \* TRUE: a docker client may close its output and live on
  OutputFails    \* TRUE: copying a container's output may raise (a full disk)

Threads == Submitters \cup Workers \cup Waiters
Contexts == {ContextOf[j] : j \in Jobs}
FinalStates == {"success", "failure"}

ASSUME ThreadsDisjoint ==
  /\ Submitters \cap Workers = {} /\ Submitters \cap Waiters = {}
  /\ Workers \cap Waiters = {} /\ None \notin Threads \cup Jobs
ASSUME JobConstants ==
  /\ Need \in [Jobs -> Nat] /\ Mem \in [Jobs -> Nat] /\ Malformed \subseteq Jobs
  /\ MaxQueue \in Nat /\ IsFiniteSet(Jobs)
  \* parse_gpu_requirement: such a job reserves nothing
  /\ UsesAll \subseteq Jobs /\ \A j \in UsesAll : Need[j] = 0
ASSUME PostOutcomesOK == PostOutcomes \subseteq {"delivered", "lost", "raised"}

VARIABLES
  queue,      \* _queue
  remaining,  \* remaining: requests the scan in progress could not place
  lock,       \* _lock: the thread in the middle of a scan, or None
  toLaunch,   \* toLaunch[t]: to_launch of thread t's _try_schedule
  work,       \* the thread pool's queue of submitted _run_job calls
  pc,         \* pc[t]: the next step of thread t
  cur,        \* cur[w]: the request worker w runs, or None
  outcome,    \* outcome[w]: the state of worker w's local `result`, or "none"
  jobState,   \* _jobs[j]["state"]; "new": not submitted, "rejected": queue full
  jobGpus,    \* _jobs[j]["gpu_ids"], also the argument of its _run_job
  jobResult,  \* _jobs[j]["result"]: the state it carries, or "none"
  container,  \* container[j]: the docker client of job j
  status,     \* status[c]: the commit status shown for context c
  doneEvent   \* _done_event

schedVars == <<queue, remaining, lock, toLaunch, work, pc, cur, outcome,
               jobState, jobGpus, jobResult, container, status, doneEvent>>
vars == <<schedVars, poolVars>>

(* Groups of variables most actions leave alone together.                  *)
queueVars == <<queue, remaining, lock>>
jobVars == <<jobState, jobGpus, jobResult>>
runVars == <<cur, outcome, container, status>>

Goto(t, from, to) ==
  /\ pc[t] = from
  /\ pc' = [pc EXCEPT ![t] = to]

Init ==
  /\ PoolInit
  /\ queue = <<>> /\ remaining = <<>> /\ lock = None
  /\ toLaunch = [t \in Submitters \cup Workers |-> <<>>]
  /\ work = <<>>
  /\ pc = [t \in Threads |-> IF t \in Waiters THEN "check" ELSE "idle"]
  /\ cur = [w \in Workers |-> None]
  /\ outcome = [w \in Workers |-> "none"]
  /\ jobState = [j \in Jobs |-> "new"]
  /\ jobGpus = [j \in Jobs |-> {}]
  /\ jobResult = [j \in Jobs |-> "none"]
  /\ container = [j \in Jobs |-> "none"]
  /\ status = [c \in Contexts |-> "none"]
  /\ doneEvent = FALSE

-----------------------------------------------------------------------------
(* submit(): register and enqueue under the lock, or raise QueueFullError; *)
(* then _try_schedule.                                                     *)
Submit(t, j) ==
  /\ lock = None
  /\ jobState[j] = "new"
  /\ Len(queue) < MaxQueue
  /\ Goto(t, "idle", "acquire")
  /\ queue' = Append(queue, j)
  /\ jobState' = [jobState EXCEPT ![j] = "queued"]
  /\ UNCHANGED <<remaining, lock, toLaunch, work, runVars, jobGpus, jobResult,
                 doneEvent, poolVars>>

SubmitRejected(t, j) ==
  /\ lock = None
  /\ pc[t] = "idle"
  /\ jobState[j] = "new"
  /\ Len(queue) >= MaxQueue
  /\ jobState' = [jobState EXCEPT ![j] = "rejected"]
  /\ UNCHANGED <<queueVars, toLaunch, work, pc, runVars, jobGpus, jobResult,
                 doneEvent, poolVars>>

-----------------------------------------------------------------------------
(* _try_schedule(), one request per round under the lock.                  *)
BeginScan(t) ==
  /\ lock = None
  /\ Goto(t, "acquire", "scan")
  /\ lock' = t
  /\ remaining' = <<>>
  /\ toLaunch' = [toLaunch EXCEPT ![t] = <<>>]
  /\ UNCHANGED <<queue, work, runVars, jobVars, doneEvent, poolVars>>

(* The devices build_docker_args lets a job's container use: those its     *)
(* request was granted, or every device of the machine.                    *)
ContainerGpus(j) == IF j \in UsesAll THEN Gpus ELSE jobGpus[j]

(* Devices on which a container of ours may still compute.                 *)
BusyGpus == UNION {ContainerGpus(j) : j \in {k \in Jobs :
                     container[k] \in {"live", "closed", "killed"}}}

(* What a probe can return now.  Without external load every device is     *)
(* reported, memory is plentiful and only our own containers load devices. *)
ProbeReadings ==
  IF ExternalLoad
    THEN Readings
    ELSE {r \in Readings : /\ DOMAIN r.util = Gpus
                           /\ r.mem = MaxMem
                           /\ \A g \in Gpus \ BusyGpus : r.util[g] < Threshold}

(* The next request is parsed and allocate() probes the machine.           *)
ProbeFor(t) ==
  /\ queue # <<>> /\ Head(queue) \notin Malformed
  /\ Goto(t, "scan", "allocate")
  /\ \E r \in ProbeReadings : Detect(r)
  /\ UNCHANGED <<queueVars, toLaunch, work, runVars, jobVars, doneEvent>>

(* allocate() succeeds: the request is running from now on.                *)
Place(t) ==
  LET j == Head(queue) IN
  /\ Goto(t, "allocate", "scan")
  /\ \E S \in SUBSET Gpus :
       /\ Grant(S, Need[j], Mem[j])
       /\ jobGpus' = [jobGpus EXCEPT ![j] = S]
  /\ queue' = Tail(queue)
  /\ jobState' = [jobState EXCEPT ![j] = "running"]
  /\ toLaunch' = [toLaunch EXCEPT ![t] = Append(@, j)]
  /\ UNCHANGED <<remaining, lock, work, runVars, jobResult, doneEvent>>

\* mutant of Defer: a request that does not fit now is shown as rejected
DeferAsRejected(t) ==
  /\ Goto(t, "allocate", "scan")
  /\ Refuse(Need[Head(queue)], Mem[Head(queue)])
  /\ queue' = Tail(queue)
  /\ remaining' = Append(remaining, Head(queue))
  /\ jobState' = [jobState EXCEPT ![Head(queue)] = "rejected"]
  /\ UNCHANGED <<lock, toLaunch, work, runVars, jobGpus, jobResult, doneEvent>>

(* allocate() fails: the request keeps its place among the remaining ones. *)
Defer(t) ==
  /\ Goto(t, "allocate", "scan")
  /\ Refuse(Need[Head(queue)], Mem[Head(queue)])
  /\ queue' = Tail(queue)
  /\ remaining' = Append(remaining, Head(queue))
  /\ UNCHANGED <<lock, toLaunch, work, runVars, jobVars, doneEvent>>

(* parse_gpu_requirement or parse_memory_requirement raises: the exception *)
(* leaves the with-block and the caller, and both local lists are gone.    *)
ScanRaises(t) ==
  /\ queue # <<>> /\ Head(queue) \in Malformed
  /\ Goto(t, "scan", "idle")
  /\ queue' = Tail(queue)
  /\ remaining' = <<>>
  /\ lock' = None
  /\ toLaunch' = [toLaunch EXCEPT ![t] = <<>>]
  /\ UNCHANGED <<work, runVars, jobVars, doneEvent, poolVars>>

\* mutant of EndScan: the requests that did not fit are not put back
EndScanDropsRemaining(t) ==
  /\ queue = <<>>
  /\ Goto(t, "scan", IF toLaunch[t] = <<>> THEN "idle" ELSE "launch")
  /\ lock' = None /\ remaining' = <<>>
  /\ UNCHANGED <<queue, toLaunch, work, runVars, jobVars, doneEvent, poolVars>>

(* The queue becomes what remained, and the lock is dropped.               *)
EndScan(t) ==
  /\ queue = <<>>
  /\ Goto(t, "scan", IF toLaunch[t] = <<>> THEN "idle" ELSE "launch")
  /\ queue' = remaining
  /\ remaining' = <<>>
  /\ lock' = None
  /\ UNCHANGED <<toLaunch, work, runVars, jobVars, doneEvent, poolVars>>

(* executor.submit(self._run_job, ...) for one request, outside the lock;  *)
(* after the last one the thread is back where it came from.               *)
Launch(t) ==
  /\ toLaunch[t] # <<>>
  /\ Goto(t, "launch", IF Len(toLaunch[t]) = 1 THEN "idle" ELSE "launch")
  /\ work' = Append(work, Head(toLaunch[t]))
  /\ toLaunch' = [toLaunch EXCEPT ![t] = Tail(@)]
  /\ UNCHANGED <<queueVars, runVars, jobVars, doneEvent, poolVars>>

-----------------------------------------------------------------------------
\* mutant of PickUp: the call stays in the thread pool's queue
PickUpKeepsWork(w) ==
  /\ work # <<>>
  /\ Goto(w, "idle", "post_pending")
  /\ cur' = [cur EXCEPT ![w] = Head(work)]
  /\ outcome' = [outcome EXCEPT ![w] = "none"]
  /\ UNCHANGED <<work, queueVars, toLaunch, container, status, jobVars, doneEvent, poolVars>>

(* _run_job().  A thread of the pool takes the oldest submitted call.      *)
PickUp(w) ==
  /\ work # <<>>
  /\ Goto(w, "idle", "post_pending")
  /\ cur' = [cur EXCEPT ![w] = Head(work)]
  /\ outcome' = [outcome EXCEPT ![w] = "none"]
  /\ work' = Tail(work)
  /\ UNCHANGED <<queueVars, toLaunch, container, status, jobVars, doneEvent, poolVars>>

(* post_commit_status: delivered, lost (it returns False), or an exception *)
(* it does not catch, after which the status may or may not have arrived.  *)
Post(j, s, o) ==
  LET shown == [status EXCEPT ![ContextOf[j]] = s] IN
  CASE o = "delivered" -> status' = shown
    [] o = "lost"      -> UNCHANGED status
    [] OTHER           -> status' \in {status, shown}

PostPending(w) ==
  \E o \in PostOutcomes :
    /\ Goto(w, "post_pending", IF o = "raised" THEN "except" ELSE "start")
    /\ Post(cur[w], "pending", o)
    /\ UNCHANGED <<queueVars, toLaunch, work, cur, outcome, container, jobVars,
                   doneEvent, poolVars>>

(* Build the docker command and start it ...                               *)
StartContainer(w) ==
  /\ Goto(w, "start", "read")
  /\ container' = [container EXCEPT ![cur[w]] = "live"]
  /\ UNCHANGED <<queueVars, toLaunch, work, cur, outcome, status, jobVars,
                 doneEvent, poolVars>>

(* ... or fail to: no image, no directory, no docker.                      *)
StartFails(w) ==
  /\ Goto(w, "start", "except")
  /\ UNCHANGED <<queueVars, toLaunch, work, runVars, jobVars, doneEvent, poolVars>>

(* The docker client closes its output, and later (or at once) exits.      *)
ContainerCloses(j) ==
  /\ EarlyEof
  /\ container[j] = "live"
  /\ container' = [container EXCEPT ![j] = "closed"]
  /\ UNCHANGED <<queueVars, toLaunch, work, pc, cur, outcome, status, jobVars,
                 doneEvent, poolVars>>

ContainerExits(j) ==
  /\ container[j] \in {"live", "closed"}
  /\ \E code \in {"passed", "failed"} : container' = [container EXCEPT ![j] = code]
  /\ UNCHANGED <<queueVars, toLaunch, work, pc, cur, outcome, status, jobVars,
                 doneEvent, poolVars>>

(* `for line in proc.stdout` ends at the end of the output, not before.    *)
ReadToEof(w) ==
  /\ Goto(w, "read", "wait")
  /\ container[cur[w]] # "live"
  /\ UNCHANGED <<queueVars, toLaunch, work, runVars, jobVars, doneEvent, poolVars>>

(* Opening the log or copying a line to it raises: the docker client lives *)
(* on, and nobody supervises it any more.                                  *)
ReadFails(w) ==
  /\ OutputFails
  /\ Goto(w, "read", "except")
  /\ UNCHANGED <<queueVars, toLaunch, work, runVars, jobVars, doneEvent, poolVars>>

(* proc.wait returns the exit code ...                                     *)
WaitExit(w) ==
  /\ Goto(w, "wait", "post_final")
  /\ container[cur[w]] \in {"passed", "failed"}
  /\ outcome' = [outcome EXCEPT
       ![w] = IF container[cur[w]] = "passed" THEN "success" ELSE "failure"]
  /\ UNCHANGED <<queueVars, toLaunch, work, cur, container, status, jobVars,
                 doneEvent, poolVars>>

(* ... or times out: the docker client is killed and the code is -9, once  *)
(* a line about it is appended to the log.                                 *)
WaitTimeout(w) ==
  \E logged \in {TRUE, ~OutputFails} :
    /\ Goto(w, "wait", IF logged THEN "post_final" ELSE "except")
    /\ container[cur[w]] = "closed"
    /\ container' = [container EXCEPT ![cur[w]] = "killed"]
    /\ outcome' = IF logged THEN [outcome EXCEPT ![w] = "failure"] ELSE outcome
    /\ UNCHANGED <<queueVars, toLaunch, work, cur, status, jobVars, doneEvent, poolVars>>

\* mutant of PostFinal: only failures are reported
PostFinalOnlyFailures(w) ==
  \E o \in PostOutcomes :
    /\ Goto(w, "post_final", IF o = "raised" THEN "except" ELSE "release")
    /\ IF outcome[w] = "failure" THEN Post(cur[w], outcome[w], o) ELSE UNCHANGED status
    /\ UNCHANGED <<queueVars, toLaunch, work, cur, outcome, container, jobVars,
                   doneEvent, poolVars>>

PostFinal(w) ==
  \E o \in PostOutcomes :
    /\ Goto(w, "post_final", IF o = "raised" THEN "except" ELSE "release")
    /\ Post(cur[w], outcome[w], o)
    /\ UNCHANGED <<queueVars, toLaunch, work, cur, outcome, container, jobVars,
                   doneEvent, poolVars>>

\* mutant of HandleException: no result is built
HandleExceptionNoResult(w) ==
  \E o \in PostOutcomes :
    /\ Goto(w, "except", "release")
    /\ Post(cur[w], "error", o)
    /\ UNCHANGED <<queueVars, toLaunch, work, cur, outcome, container, jobVars,
                   doneEvent, poolVars>>

\* mutant of HandleException: the devices are released on the normal path only
HandleExceptionSkipsRelease(w) ==
  \E o \in PostOutcomes :
    /\ Goto(w, "except", "finish")
    /\ outcome' = [outcome EXCEPT ![w] = IF @ = "none" THEN "failure" ELSE @]
    /\ Post(cur[w], "error", o)
    /\ UNCHANGED <<queueVars, toLaunch, work, cur, container, jobVars, doneEvent, poolVars>>

(* except Exception: a result built before the exception is kept.          *)
HandleException(w) ==
  \E o \in PostOutcomes :
    /\ Goto(w, "except", "release")
    /\ outcome' = [outcome EXCEPT ![w] = IF @ = "none" THEN "failure" ELSE @]
    /\ Post(cur[w], "error", o)
    /\ UNCHANGED <<queueVars, toLaunch, work, cur, container, jobVars, doneEvent, poolVars>>

(* finally: the devices go back to the pool ...                            *)
ReleaseGpus(w) ==
  /\ Goto(w, "release", "finish")
  /\ Release(jobGpus[cur[w]])
  /\ UNCHANGED <<queueVars, toLaunch, work, runVars, jobVars, doneEvent>>

\* mutant of Finish: the state is published and the result is not
FinishNoResult(w) ==
  /\ lock = None
  /\ Goto(w, "finish", "signal")
  /\ jobState' = [jobState EXCEPT ![cur[w]] = outcome[w]]
  /\ cur' = [cur EXCEPT ![w] = None]
  /\ UNCHANGED <<queueVars, toLaunch, work, outcome, container, status, jobGpus,
                 jobResult, doneEvent, poolVars>>

\* mutant of Finish: only a success is published
FinishOnSuccessOnly(w) ==
  /\ lock = None
  /\ Goto(w, "finish", "signal")
  /\ jobResult' = [jobResult EXCEPT ![cur[w]] = outcome[w]]
  /\ jobState' = [jobState EXCEPT
       ![cur[w]] = IF outcome[w] = "success" THEN "success" ELSE @]
  /\ cur' = [cur EXCEPT ![w] = None]
  /\ UNCHANGED <<queueVars, toLaunch, work, outcome, container, status, jobGpus,
                 doneEvent, poolVars>>

(* ... result and state are published under the scheduler lock ...         *)
Finish(w) ==
  /\ lock = None
  /\ Goto(w, "finish", "signal")
  /\ jobResult' = [jobResult EXCEPT ![cur[w]] = outcome[w]]
  /\ jobState' = [jobState EXCEPT ![cur[w]] = outcome[w]]
  /\ cur' = [cur EXCEPT ![w] = None]
  /\ UNCHANGED <<queueVars, toLaunch, work, outcome, container, status, jobGpus,
                 doneEvent, poolVars>>

\* mutant of Signal: a finished worker does not schedule the next jobs
SignalOnly(w) ==
  /\ Goto(w, "signal", "idle")
  /\ doneEvent' = TRUE
  /\ UNCHANGED <<queueVars, toLaunch, work, runVars, jobVars, poolVars>>

(* ... wait_all is woken, and the worker tries to schedule the next jobs.  *)
Signal(w) ==
  /\ Goto(w, "signal", "acquire")
  /\ doneEvent' = TRUE
  /\ UNCHANGED <<queueVars, toLaunch, work, runVars, jobVars, poolVars>>

-----------------------------------------------------------------------------
(* wait_all(): look under the lock, sleep until the event or two seconds.  *)
Unfinished == {j \in Jobs : jobState[j] \in {"queued", "running"}}

CheckPending(x) ==
  /\ lock = None
  /\ Goto(x, "check", IF Unfinished = {} THEN "returned" ELSE "sleep")
  /\ UNCHANGED <<queueVars, toLaunch, work, runVars, jobVars, doneEvent, poolVars>>

Wake(x) ==
  /\ Goto(x, "sleep", "check")
  /\ doneEvent' = FALSE
  /\ UNCHANGED <<queueVars, toLaunch, work, runVars, jobVars, poolVars>>

-----------------------------------------------------------------------------
TrySchedule(t) ==
  \/ BeginScan(t) \/ ProbeFor(t) \/ Place(t) \/ Defer(t) \/ ScanRaises(t)
  \/ EndScan(t) \/ Launch(t)

RunJob(w) ==
  \/ PickUp(w) \/ PostPending(w) \/ StartContainer(w) \/ StartFails(w)
  \/ ReadToEof(w) \/ ReadFails(w) \/ WaitExit(w) \/ WaitTimeout(w)
  \/ PostFinal(w) \/ HandleException(w) \/ ReleaseGpus(w) \/ Finish(w) \/ Signal(w)

WaitAll(x) == CheckPending(x) \/ Wake(x)

Next ==
  \/ \E t \in Submitters, j \in Jobs : Submit(t, j) \/ SubmitRejected(t, j)
  \/ \E t \in Submitters \cup Workers : TrySchedule(t)
  \/ \E w \in Workers : RunJob(w)
  \/ \E x \in Waiters : WaitAll(x)
  \/ \E j \in Jobs : ContainerCloses(j) \/ ContainerExits(j)

Spec == Init /\ [][Next]_vars

(* The operating system runs every thread; nothing makes anyone submit a   *)
(* job or a container end.                                                 *)
ThreadFairness ==
  /\ \A t \in Submitters \cup Workers : WF_vars(TrySchedule(t))
  /\ \A w \in Workers : WF_vars(RunJob(w))
  /\ \A x \in Waiters : WF_vars(WaitAll(x))

FairSpec == Spec /\ ThreadFairness

(* The tests a container runs are assumed to end.                          *)
TerminatingSpec == FairSpec /\ \A j \in Jobs : WF_vars(ContainerExits(j))
-----------------------------------------------------------------------------
Steps == {"idle", "acquire", "scan", "allocate", "launch",
          "post_pending", "start", "read", "wait", "post_final", "except",
          "release", "finish", "signal", "check", "sleep", "returned"}

TypeOK ==
  /\ PoolTypeOK
  /\ queue \in Seq(Jobs) /\ remaining \in Seq(Jobs) /\ work \in Seq(Jobs)
  /\ lock \in Submitters \cup Workers \cup {None}
  /\ toLaunch \in [Submitters \cup Workers -> Seq(Jobs)]
  /\ pc \in [Threads -> Steps]
  /\ cur \in [Workers -> Jobs \cup {None}]
  /\ outcome \in [Workers -> FinalStates \cup {"none"}]
  /\ jobState \in [Jobs -> FinalStates \cup {"new", "rejected", "queued", "running"}]
  /\ jobGpus \in [Jobs -> SUBSET Gpus]
  /\ jobResult \in [Jobs -> FinalStates \cup {"none"}]
  /\ container \in [Jobs -> {"none", "live", "closed", "passed", "failed", "killed"}]
  /\ status \in [Contexts -> FinalStates \cup {"none", "pending", "error"}]
  /\ doneEvent \in BOOLEAN

(* The lease a job holds on the devices it was given: from the scan that   *)
(* places it to the worker that releases them.                             *)
Released == {cur[w] : w \in {v \in Workers : pc[v] = "finish"}}

LeasePhase ==
  [j \in Jobs |-> CASE jobState[j] \in {"new", "rejected", "queued"}    -> "idle"
                    [] jobState[j] = "running" /\ j \notin Released -> "held"
                    [] OTHER                                        -> "returned"]

LeaseHeld == [j \in Jobs |-> IF LeasePhase[j] = "held" THEN jobGpus[j] ELSE {}]

Leases == INSTANCE GpuLease WITH phase <- LeasePhase, lease <- LeaseHeld

(* The scheduler implements the device leases: whatever the interleaving   *)
(* of scans and releases, every job acquires free devices at most once and *)
(* returns them at most once (_try_schedule, _run_job's finally).          *)
ImplementsLeases == Leases!LeaseSpec

Registry == INSTANCE JobRegistry WITH status <- jobState

(* The scheduler implements the job registry remote clients rely on: no    *)
(* scan, exception or late worker makes a job run or end twice, end before *)
(* it ran, or return to the queue (submit, _try_schedule, _run_job).       *)
ImplementsRegistry == Registry!RegistrySpec

(* Docker clients that run, and the workers that watch them.               *)
ClientRuns(j) == container[j] \in {"live", "closed"}
Watched(j) == \E w \in Workers : cur[w] = j /\ pc[w] \in {"read", "wait"}

(* Two containers that run at the same time may use a common device only   *)
(* where the code knows of it: one of them is configured with `gpu_ids:    *)
(* all`, which reserves nothing and excludes nobody, or its worker raised  *)
(* while it copied the output and left it behind (run.py 243-253,          *)
(* agent.py 365).  Whatever else happens, `auto` and pinned jobs never     *)
(* meet on a device.                                                       *)
ContainersDisjoint ==
  \A i, j \in Jobs :
    /\ i # j
    /\ ClientRuns(i) /\ ClientRuns(j)
    /\ ContainerGpus(i) \cap ContainerGpus(j) # {}
    => {i, j} \cap UsesAll # {} \/ ~Watched(i) \/ ~Watched(j)

(* The pool's books are exact: a device is marked allocated when and only  *)
(* when some job holds a lease on it, so none leaks, whichever post or     *)
(* read raises; and none is given back while a worker still watches the    *)
(* container that was started on it.  A container whose worker raised is   *)
(* watched by nobody: its devices do go back while it may still compute    *)
(* (_run_job's finally clause, agent.py 444-446).                          *)
LeasesAllocated == allocated = UNION {LeaseHeld[j] : j \in Jobs}

PoolExact ==
  /\ LeasesAllocated
  /\ \A j \in Jobs : Watched(j) => jobGpus[j] \subseteq allocated

(* Where a request can be.                                                 *)
InQueue == ToSet(queue) \cup ToSet(remaining)
InLaunch == UNION {ToSet(toLaunch[t]) : t \in Submitters \cup Workers}
AtWorker == {cur[w] : w \in Workers} \ {None}

(* No request is dropped between the queue, a scan's local lists, the      *)
(* thread pool's queue and a worker: "queued" and "running" in _jobs mean  *)
(* that somebody still holds the request.                                  *)
NoJobLost ==
  \A j \in Jobs :
    /\ jobState[j] = "queued" => j \in InQueue
    /\ jobState[j] = "running" => j \in InLaunch \cup ToSet(work) \cup AtWorker

(* Nobody is about to schedule or to run anything.                         *)
Quiescent ==
  /\ \A t \in Submitters \cup Workers : pc[t] = "idle"
  /\ work = <<>>

(* No lost wakeup: once every thread has come to rest no request is left   *)
(* in the queue, although the device that it waits for may be released in  *)
(* the middle of the very scan that passes it over.                        *)
NoStrandedJob == Quiescent => queue = <<>>

(* Commit statuses settle: at rest, and if every post is delivered, a      *)
(* context of finished jobs shows how one of them ended, even when several *)
(* jobs report to the same context at once ("error" stands for a job that  *)
(* never got to run its container).                                        *)
StatusSettles ==
  Quiescent =>
    \A j \in Jobs : jobState[j] \in FinalStates =>
      \E k \in Jobs : /\ ContextOf[k] = ContextOf[j]
                      /\ \/ status[ContextOf[j]] = jobState[k]
                         \/ status[ContextOf[j]] = "error" /\ jobState[k] = "failure"

(* wait_all leaves its loop only when every job submitted so far has a     *)
(* result, so that the list it returns leaves none of them out.            *)
WaitAllSound ==
  [][\A x \in Waiters :
       pc[x] = "check" /\ pc'[x] = "returned" =>
         \A j \in Jobs : jobState[j] \in {"new", "rejected"} \/ jobResult[j] # "none"]_vars

(* A published result is final: no late worker runs a finished job again   *)
(* or changes what GET /api/job/{id} already reported.                     *)
ResultIsFinal ==
  [][\A j \in Jobs : jobState[j] \in FinalStates =>
       /\ jobState'[j] = jobState[j]
       /\ jobResult'[j] = jobState[j]]_vars

(* A job that was accepted finishes.                                       *)
EveryJobFinishes == \A j \in Jobs : jobState[j] = "queued" ~> jobState[j] \in FinalStates

(* wait_all returns.                                                       *)
WaitAllReturns == \A x \in Waiters : <>(pc[x] = "returned")

(* "Docker execution has a Python-level timeout fallback ... to prevent    *)
(* stuck containers": a worker gets past its container (agent.py 372-386). *)
FallbackTimeout == \A w \in Workers : pc[w] = "read" ~> pc[w] # "read"
=============================================================================
