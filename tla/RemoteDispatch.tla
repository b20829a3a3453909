---------------------------- MODULE RemoteDispatch ----------------------------
(***************************************************************************)
(* `agent.py run' and the agents it talks to (src/.ci/agent.py): cmd_run   *)
(* dispatches the selected jobs one after the other, polls the accepted    *)
(* ones at the same time, and exits with 0 if all of them succeeded.  An   *)
(* agent's HTTP server handles one request at a time; GitHub pushes        *)
(* compete with the dispatches for its queue.                              *)
(*                                                                         *)
(* Requests and replies are lost or late, an agent restarts and forgets    *)
(* its jobs, a request the client has given up is still handled.  What the *)
(* agent's scheduler does with accepted jobs is JobRegistry, which         *)
(* Scheduler implements.                                                   *)
(***************************************************************************)
EXTENDS Naturals, Sequences, FiniteSets

CONSTANTS
    Jobs,           \* names in the client's configuration
    Selected,       \* those cmd_run dispatches, in order
    Agents,
    AgentOf,        \* AgentOf[j]: the agent of the job's platform
    Configurations, \* what the agents' own configurations may have: functions known
    PlatformJobs,   \* PlatformJobs[a]: those of its platform, in order
    MaxQueue,       \* MAX_QUEUE_SIZE
    MaxPushes,      \* bound: webhook deliveries, duplicates included
    MaxRestarts,    \* bound: restarts of agents
    None

ASSUME RemoteDispatchAssumption ==
    /\ Selected \in Seq(Jobs) /\ Selected # <<>>
    /\ \A m, n \in DOMAIN Selected : Selected[m] = Selected[n] => m = n
    /\ AgentOf \in [Jobs -> Agents]
    /\ Configurations \subseteq [Agents -> SUBSET Jobs]
    /\ PlatformJobs \in [Agents -> Seq(Jobs) \ {<<>>}]
    /\ MaxQueue \in Nat /\ MaxPushes \in Nat /\ MaxRestarts \in Nat

VARIABLES
    \* the client
    next,       \* position of the job to dispatch
    waiting,    \* whether its request awaits the reply
    ticket,     \* ticket[j]: the id the agent gave job j
    poll,       \* poll[j]: "idle", "asked" or "answered"
    answer,     \* answer[j]: what the agent answered: a record, or None (404)
    verdict,    \* verdict[j]: the result of job j's poll_remote_job
    results,    \* the list `results': records with a job and a state
    exit,       \* "none", or the exit code
    \* the agents and the network
    known,      \* known[a]: the names in the agent's configuration
    backlog,    \* backlog[a]: requests the agent has not taken yet
    handler,    \* handler[a]: the request it handles
    reply,      \* reply[j]: the response to the dispatch of j
    registry,   \* registry[a]: _jobs, from ids to records
    issued,     \* the last id given
    pushes, restarts,
    finished    \* history: the runs that have ended

clientVars == <<next, waiting, ticket, poll, answer, verdict, results, exit>>
agentVars  == <<known, backlog, handler, reply, registry, issued, pushes, restarts, finished>>
vars == <<clientVars, agentVars>>

States == {"queued", "running", "success", "failure"}
FinalStates == {"success", "failure"}

SelectedJobs == {Selected[n] : n \in DOMAIN Selected}
Ids == 1..issued

AllSent == next > Len(Selected)
Dispatched == {j \in SelectedJobs : ticket[j] # None}
Reported(j) == \E n \in DOMAIN results : results[n].job = j

Queued(a) == {id \in DOMAIN registry[a] : registry[a][id].state = "queued"}

-------------------------------------------------------------------------------
Init ==
    /\ next = 1
    /\ waiting = FALSE
    /\ ticket = [j \in SelectedJobs |-> None]
    /\ poll = [j \in SelectedJobs |-> "idle"]
    /\ answer = [j \in SelectedJobs |-> None]
    /\ verdict = [j \in SelectedJobs |-> None]
    /\ results = <<>>
    /\ exit = "none"
    /\ known \in Configurations
    /\ backlog = [a \in Agents |-> {}]
    /\ handler = [a \in Agents |-> None]
    /\ reply = [j \in SelectedJobs |-> None]
    /\ registry = [a \in Agents |-> <<>>]
    /\ issued = 0
    /\ pushes = 0
    /\ restarts = 0
    /\ finished = {}

-------------------------------------------------------------------------------
(* dispatch_remote_job, called in turn for every selected job.             *)

SendDispatch ==
    /\ ~AllSent
    /\ ~waiting
    /\ waiting' = TRUE
    /\ LET j == Selected[next]
       IN  backlog' = [backlog EXCEPT ![AgentOf[j]] = @ \cup {[kind |-> "run", job |-> j]}]
    /\ UNCHANGED <<next, ticket, poll, answer, verdict, results, exit,
                   known, handler, reply, registry, issued, pushes, restarts, finished>>

\* What cmd_run makes of the id, or of None.
Record(j, id) ==
    /\ next' = next + 1
    /\ waiting' = FALSE
    /\ ticket' = [ticket EXCEPT ![j] = id]
    /\ results' = IF id = None THEN Append(results, [job |-> j, state |-> "error"])
                               ELSE results
    /\ UNCHANGED <<poll, answer, verdict, exit, agentVars>>

DispatchAnswered ==
    /\ waiting
    /\ LET j == Selected[next]
       IN  /\ reply[j] # None
           /\ Record(j, IF reply[j].status = 200 /\ reply[j].ids # <<>>
                        THEN Head(reply[j].ids) ELSE None)

\* Any exception: refused, reset, no answer within 30 s.
DispatchFails == waiting /\ Record(Selected[next], None)

-------------------------------------------------------------------------------
(* poll_remote_job, one thread per dispatched job.                         *)

AskState(j) ==
    /\ AllSent
    /\ ticket[j] # None
    /\ verdict[j] = None
    /\ poll[j] = "idle"
    /\ poll' = [poll EXCEPT ![j] = "asked"]
    /\ UNCHANGED <<next, waiting, ticket, answer, verdict, results, exit, agentVars>>

\* Mutant of IsFinal: any state but queued ends the polling.
IsFinalUnlessQueued(info) == info # None /\ info.state # "queued"

IsFinal(info) == info # None /\ info.state \in FinalStates

PollReturns(j) ==
    /\ poll[j] = "answered"
    /\ poll' = [poll EXCEPT ![j] = "idle"]
    /\ answer' = [answer EXCEPT ![j] = None]
    /\ verdict' = [verdict EXCEPT ![j] = IF IsFinal(answer[j]) THEN answer[j] ELSE None]
    /\ UNCHANGED <<next, waiting, ticket, results, exit, agentVars>>

PollFails(j) ==
    /\ poll[j] \in {"asked", "answered"}
    /\ poll' = [poll EXCEPT ![j] = "idle"]
    /\ answer' = [answer EXCEPT ![j] = None]
    /\ UNCHANGED <<next, waiting, ticket, verdict, results, exit, agentVars>>

\* Mutant of Deadline: the deadline is looked at after an answer only.
DeadlineNeedsAnswer(j) ==
    /\ AllSent
    /\ ticket[j] # None /\ verdict[j] = None
    /\ poll[j] = "answered"
    /\ verdict' = [verdict EXCEPT ![j] = [job |-> j, state |-> "timeout"]]
    /\ UNCHANGED <<next, waiting, ticket, poll, answer, results, exit, agentVars>>

\* The two hours are over when the loop looks at the clock.
Deadline(j) ==
    /\ AllSent
    /\ ticket[j] # None /\ verdict[j] = None
    /\ poll[j] = "idle"
    /\ verdict' = [verdict EXCEPT ![j] = [job |-> j, state |-> "timeout"]]
    /\ UNCHANGED <<next, waiting, ticket, poll, answer, results, exit, agentVars>>

-------------------------------------------------------------------------------
(* cmd_run: the results as the threads end, and the exit code.             *)

Collected == {j \in Dispatched : Reported(j)}

Collect(j) ==
    /\ verdict[j] # None
    /\ ~Reported(j)
    /\ results' = Append(results, [job |-> verdict[j].job, state |-> verdict[j].state])
    /\ UNCHANGED <<next, waiting, ticket, poll, answer, verdict, exit, agentVars>>

\* Mutant of Failed: only what was polled counts.
FailedOfPolled == {n \in DOMAIN results : results[n].state \in {"failure", "timeout"}}

Failed == {n \in DOMAIN results : results[n].state # "success"}

Exit ==
    /\ AllSent
    /\ Collected = Dispatched
    /\ exit = "none"
    /\ exit' = IF Failed = {} THEN "0" ELSE "1"
    /\ UNCHANGED <<next, waiting, ticket, poll, answer, verdict, results, agentVars>>

-------------------------------------------------------------------------------
(* The agent's HTTP server: do_POST and do_GET, one at a time.             *)

Names(a, request) ==
    CASE request.kind = "push" -> PlatformJobs[a]
      [] request.kind = "run"  -> IF request.job \in known[a] THEN <<request.job>> ELSE <<>>

\* _handle_webhook and _handle_api_run, up to the loop of _submit_jobs.
TakeRequest(a) ==
    /\ handler[a] = None
    /\ \E r \in backlog[a] :
          /\ backlog' = [backlog EXCEPT ![a] = @ \ {r}]
          /\ handler' = [handler EXCEPT ![a] =
                [request |-> r, todo |-> Names(a, r), ids |-> <<>>,
                 status |-> IF Names(a, r) = <<>> THEN 400 ELSE 200]]
    /\ UNCHANGED <<clientVars, known, reply, registry, issued, pushes, restarts, finished>>

Register(a, j, origin) ==
    /\ issued' = issued + 1
    /\ registry' = [registry EXCEPT ![a] =
          [id \in DOMAIN @ \cup {issued + 1} |->
              IF id = issued + 1 THEN [job |-> j, origin |-> origin, state |-> "queued"]
              ELSE @[id]]]

\* The handler after a refused and after an accepted submission.
Refused(h) == [request |-> h.request, todo |-> <<>>, ids |-> h.ids, status |-> 503]
Accepted(h, id) ==
    [request |-> h.request, todo |-> Tail(h.todo), ids |-> Append(h.ids, id),
     status |-> h.status]

\* Mutant of SubmitJob: the request is registered before the queue is looked at.
SubmitJobFirst(a) ==
    /\ handler[a] # None /\ handler[a].todo # <<>>
    /\ Register(a, Head(handler[a].todo), handler[a].request.kind)
    /\ handler' = [handler EXCEPT ![a] =
          IF Cardinality(Queued(a)) >= MaxQueue THEN Refused(@) ELSE Accepted(@, issued + 1)]
    /\ UNCHANGED <<clientVars, known, backlog, reply, pushes, restarts, finished>>

\* One turn of that loop: Scheduler.submit, or 503 and no further job.
SubmitJob(a) ==
    /\ handler[a] # None /\ handler[a].todo # <<>>
    /\ IF Cardinality(Queued(a)) >= MaxQueue
       THEN /\ handler' = [handler EXCEPT ![a] = Refused(@)]
            /\ UNCHANGED <<registry, issued>>
       ELSE /\ Register(a, Head(handler[a].todo), handler[a].request.kind)
            /\ handler' = [handler EXCEPT ![a] = Accepted(@, issued + 1)]
    /\ UNCHANGED <<clientVars, known, backlog, reply, pushes, restarts, finished>>

\* Mutant of Respond: a full queue is taken for a rejection.
RespondByQueue(a) ==
    /\ handler[a] # None /\ handler[a].todo = <<>>
    /\ LET h == handler[a]
       IN  reply' = IF h.request.kind = "run"
                    THEN [reply EXCEPT ![h.request.job] =
                            [status |-> IF Cardinality(Queued(a)) < MaxQueue
                                        THEN h.status ELSE 503, ids |-> h.ids]]
                    ELSE reply
    /\ handler' = [handler EXCEPT ![a] = None]
    /\ UNCHANGED <<clientVars, known, backlog, registry, issued, pushes, restarts, finished>>

\* The client reads the first status line: after 400 or 503 the handler goes on
\* to respond with 200 on the same connection, which nobody reads.
Respond(a) ==
    /\ handler[a] # None /\ handler[a].todo = <<>>
    /\ LET h == handler[a]
       IN  reply' = IF h.request.kind = "run"
                    THEN [reply EXCEPT ![h.request.job] =
                            [status |-> h.status, ids |-> h.ids]]
                    ELSE reply
    /\ handler' = [handler EXCEPT ![a] = None]
    /\ UNCHANGED <<clientVars, known, backlog, registry, issued, pushes, restarts, finished>>

\* _handle_api_job
AnswerPoll(j) ==
    LET a == AgentOf[j]
    IN  /\ poll[j] = "asked"
        /\ handler[a] = None
        /\ poll' = [poll EXCEPT ![j] = "answered"]
        /\ answer' = [answer EXCEPT ![j] =
              IF ticket[j] \in DOMAIN registry[a] THEN registry[a][ticket[j]] ELSE None]
        /\ UNCHANGED <<next, waiting, ticket, verdict, results, exit, agentVars>>

-------------------------------------------------------------------------------
(* The scheduler, as JobRegistry promises, GitHub, and faults.             *)

SetState(a, id, s) ==
    /\ registry' = [registry EXCEPT ![a][id].state = s]
    /\ UNCHANGED <<clientVars, known, backlog, handler, reply, issued, pushes, restarts>>

StartJob(a, id) ==
    /\ registry[a][id].state = "queued"
    /\ SetState(a, id, "running")
    /\ UNCHANGED finished

EndJob(a, id, s) ==
    /\ registry[a][id].state = "running"
    /\ SetState(a, id, s)
    /\ finished' = finished \cup {[id |-> id, job |-> registry[a][id].job,
                                   origin |-> registry[a][id].origin, state |-> s]}

Push(a) ==
    /\ pushes < MaxPushes
    /\ pushes' = pushes + 1
    /\ backlog' = [backlog EXCEPT ![a] = @ \cup {[kind |-> "push", job |-> None]}]
    /\ UNCHANGED <<clientVars, known, handler, reply, registry, issued, restarts, finished>>

LoseRequest(a) ==
    /\ \E r \in backlog[a] : backlog' = [backlog EXCEPT ![a] = @ \ {r}]
    /\ UNCHANGED <<clientVars, known, handler, reply, registry, issued, pushes, restarts, finished>>

\* A restarted agent knows no job; connections to it are gone.
Restart(a) ==
    /\ restarts < MaxRestarts
    /\ restarts' = restarts + 1
    /\ backlog' = [backlog EXCEPT ![a] = {}]
    /\ handler' = [handler EXCEPT ![a] = None]
    /\ registry' = [registry EXCEPT ![a] = <<>>]
    /\ UNCHANGED <<clientVars, known, reply, issued, pushes, finished>>

-------------------------------------------------------------------------------
Client ==
    \/ SendDispatch \/ DispatchAnswered \/ DispatchFails \/ Exit
    \/ \E j \in SelectedJobs :
          AskState(j) \/ PollReturns(j) \/ PollFails(j) \/ Deadline(j) \/ Collect(j)

Agent(a) ==
    \/ TakeRequest(a) \/ SubmitJob(a) \/ Respond(a) \/ Restart(a)
    \/ \E id \in DOMAIN registry[a] :
          StartJob(a, id) \/ \E s \in FinalStates : EndJob(a, id, s)

Next ==
    \/ Client
    \/ \E j \in SelectedJobs : AnswerPoll(j)
    \/ \E a \in Agents : Agent(a) \/ Push(a) \/ LoseRequest(a)

Spec == Init /\ [][Next]_vars

\* The client's threads are scheduled and its requests time out (urlopen has a
\* timeout on each).  A loop that looks at the clock again and again finds the
\* deadline passed.  Nothing is assumed of agents and network.
FairSpec ==
    /\ Spec
    /\ WF_vars(SendDispatch)
    /\ WF_vars(DispatchAnswered \/ DispatchFails)
    /\ WF_vars(Exit)
    /\ \A j \in SelectedJobs :
          /\ WF_vars(PollReturns(j) \/ PollFails(j))
          /\ SF_vars(Deadline(j))
          /\ WF_vars(Collect(j))

-------------------------------------------------------------------------------
Entry == [job : Jobs, origin : {"run", "push"}, state : States]
Verdict == {[job |-> e.job, state |-> e.state] : e \in Entry}
           \cup [job : SelectedJobs, state : {"error", "timeout"}]

(* The variables keep their types, and no agent queues more than its limit. *)
TypeOK ==
    /\ next \in 1..(Len(Selected) + 1)
    /\ waiting \in BOOLEAN
    /\ ticket \in [SelectedJobs -> Ids \cup {None}]
    /\ poll \in [SelectedJobs -> {"idle", "asked", "answered"}]
    /\ answer \in [SelectedJobs -> Entry \cup {None}]
    /\ \A j \in SelectedJobs :
          verdict[j] \in {None, [job |-> j, state |-> "timeout"]} \cup Entry
    /\ results \in Seq(Verdict)
    /\ exit \in {"none", "0", "1"}
    /\ known \in Configurations
    /\ issued \in Nat
    /\ \A a \in Agents :
          /\ DOMAIN registry[a] \subseteq Ids
          /\ \A id \in DOMAIN registry[a] : registry[a][id] \in Entry
          /\ Cardinality(Queued(a)) <= MaxQueue

(* cmd_run exits with 0 only if every job it was asked for, started by its *)
(* own dispatch, ended with success: no job is overlooked because it was   *)
(* rejected, forgotten by a restarted agent or never answered for, and no  *)
(* run of a push is taken for it.                                          *)
NoFalsePass ==
    exit = "0" => \A j \in SelectedJobs : \E f \in finished :
        f.job = j /\ f.origin = "run" /\ f.state = "success"

(* The list of results a failed command prints names each selected job     *)
(* once, and each success or failure in it is how the run with that job's  *)
(* ticket ended.                                                           *)
ResultsTrue ==
    /\ exit # "none" =>
          /\ Len(results) = Len(Selected)
          /\ \A j \in SelectedJobs : Reported(j)
    /\ \A n \in DOMAIN results : results[n].state \notin {"error", "timeout"} =>
          \E f \in finished :
              /\ f.job = results[n].job /\ f.state = results[n].state
              /\ f.id = ticket[f.job]

(* A dispatch answered with an error has left no job behind: only one that *)
(* was given up without an answer may still run.                           *)
RejectedNeverRuns ==
    \A j \in SelectedJobs : reply[j] # None /\ reply[j].status # 200 =>
        \A a \in Agents : \A id \in DOMAIN registry[a] :
            ~(registry[a][id].job = j /\ registry[a][id].origin = "run")

(* cmd_run comes to an end, whatever agents and network do.                *)
CommandEnds == <>(exit # "none")
===============================================================================
