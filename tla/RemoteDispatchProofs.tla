-------------------------- MODULE RemoteDispatchProofs --------------------------
(***************************************************************************)
(* RemoteDispatch for any jobs, agents, configurations and bounds: the     *)
(* types with the queue's limit, NoFalsePass, ResultsTrue and              *)
(* RejectedNeverRuns.                                                      *)
(*                                                                         *)
(* The argument follows a job's request.  It is sent once (Once), so an    *)
(* answer that rejects it is the last word on it.  The id an agent gives   *)
(* is never given again, and what it stands for never changes (Owned),     *)
(* though the agent that restarts forgets it; so an answer to a poll, the  *)
(* verdict made of it and the result made of that all speak of the same    *)
(* run, recorded in `finished' when it ended (Truth).  The client's own    *)
(* books (Client) say that at the exit every selected job is reported.     *)
(***************************************************************************)
EXTENDS RemoteDispatch, FiniteSetTheorems, TLAPS

RunOf(j) == [kind |-> "run", job |-> j]
Requests == {RunOf(j) : j \in SelectedJobs} \cup {[kind |-> "push", job |-> None]}

Statuses == {200, 400, 503}
Handler == [request : Requests, todo : Seq(Jobs), ids : Seq(Nat), status : Statuses]
Reply == [status : Statuses, ids : Seq(Nat)]
Ended == [id : Nat, job : Jobs, origin : {"run", "push"}, state : FinalStates]

ClientTypes ==
    /\ next \in 1..(Len(Selected) + 1)
    /\ waiting \in BOOLEAN
    /\ ticket \in [SelectedJobs -> Ids \cup {None}]
    /\ poll \in [SelectedJobs -> {"idle", "asked", "answered"}]
    /\ answer \in [SelectedJobs -> Entry \cup {None}]
    /\ verdict \in [SelectedJobs ->
                      Entry \cup [job : SelectedJobs, state : {"timeout"}] \cup {None}]
    /\ results \in Seq(Verdict)
    /\ exit \in {"none", "0", "1"}

AgentTypes ==
    /\ known \in Configurations
    /\ backlog \in [Agents -> SUBSET Requests]
    /\ handler \in [Agents -> Handler \cup {None}]
    /\ reply \in [SelectedJobs -> Reply \cup {None}]
    /\ issued \in Nat
    /\ registry = [a \in Agents |-> registry[a]]
    /\ \A a \in Agents : /\ DOMAIN registry[a] \subseteq Ids
                         /\ registry[a] \in [DOMAIN registry[a] -> Entry]
    /\ finished \subseteq Ended
    /\ \A f \in finished : f.id \in Ids

QueuesBounded == \A a \in Agents : Cardinality(Queued(a)) <= MaxQueue

\* Where the client stands with each job.
ClientBooks ==
    /\ waiting => ~AllSent
    /\ \A n \in DOMAIN Selected : n >= next =>
          ticket[Selected[n]] = None /\ ~Reported(Selected[n])
    /\ \A n \in DOMAIN Selected : n < next =>
          \/ ticket[Selected[n]] # None
          \/ \E m \in DOMAIN results :
                results[m].job = Selected[n] /\ results[m].state = "error"
    /\ \A j \in SelectedJobs :
          /\ poll[j] # "idle" => AllSent /\ ticket[j] # None /\ verdict[j] = None
          /\ verdict[j] # None => AllSent /\ ticket[j] # None
    /\ \A n \in DOMAIN results :
          /\ results[n].job \in SelectedJobs
          /\ \/ results[n].state = "error" /\ ticket[results[n].job] = None
             \/ /\ verdict[results[n].job] # None
                /\ results[n].state = verdict[results[n].job].state
    /\ \A m, n \in DOMAIN results : results[m].job = results[n].job => m = n
    /\ exit # "none" => AllSent /\ Collected = Dispatched

\* The id was given to a run of j, and to nothing else.
Owned(id, j) ==
    /\ id \in Ids
    /\ \A a \in Agents : id \in DOMAIN registry[a] =>
          registry[a][id].job = j /\ registry[a][id].origin = "run"
    /\ \A f \in finished : f.id = id => f.job = j /\ f.origin = "run"

\* The run with the ticket of j ended in state s.
Witnessed(j, s) ==
    \E f \in finished :
        f.id = ticket[j] /\ f.job = j /\ f.origin = "run" /\ f.state = s

Handles(a, j) == handler[a] # None /\ handler[a].request = RunOf(j)

IdsOwned ==
    /\ \A a \in Agents : \A j \in SelectedJobs : Handles(a, j) =>
          \A n \in DOMAIN handler[a].ids : Owned(handler[a].ids[n], j)
    /\ \A j \in SelectedJobs : reply[j] # None =>
          \A n \in DOMAIN reply[j].ids : Owned(reply[j].ids[n], j)
    /\ \A j \in SelectedJobs : ticket[j] # None => Owned(ticket[j], j)

Truth ==
    /\ \A a \in Agents : \A id \in DOMAIN registry[a] :
          registry[a][id].state \in FinalStates =>
              [id |-> id, job |-> registry[a][id].job,
               origin |-> registry[a][id].origin,
               state |-> registry[a][id].state] \in finished
    /\ \A j \in SelectedJobs : answer[j] # None =>
          /\ poll[j] = "answered"
          /\ answer[j].job = j
          /\ answer[j].state \in FinalStates => Witnessed(j, answer[j].state)
    /\ \A j \in SelectedJobs : verdict[j] # None =>
          /\ verdict[j].job = j
          /\ verdict[j].state # "timeout" => Witnessed(j, verdict[j].state)

Sent(j) ==
    \E n \in DOMAIN Selected : Selected[n] = j /\ (n < next \/ (n = next /\ waiting))

NoEntry(j) ==
    \A a \in Agents : \A id \in DOMAIN registry[a] :
        ~(registry[a][id].job = j /\ registry[a][id].origin = "run")

\* A request for j is in one place, and has one effect.
Once ==
    \A j \in SelectedJobs :
        /\ ~Sent(j) => NoEntry(j) /\ reply[j] = None
        /\ \A a \in Agents : RunOf(j) \in backlog[a] =>
              /\ Sent(j) /\ NoEntry(j) /\ reply[j] = None /\ a = AgentOf[j]
              /\ \A b \in Agents : ~Handles(b, j)
        /\ \A a \in Agents : Handles(a, j) =>
              /\ Sent(j) /\ reply[j] = None /\ a = AgentOf[j]
              /\ handler[a].todo \in {<<>>, <<j>>}
              /\ handler[a].todo # <<>> => handler[a].status = 200 /\ NoEntry(j)
              /\ handler[a].status # 200 => NoEntry(j)
        /\ reply[j] # None /\ reply[j].status # 200 => NoEntry(j)

Inv ==
    /\ ClientTypes /\ AgentTypes /\ QueuesBounded /\ ClientBooks
    /\ IdsOwned /\ Truth /\ Once /\ NoFalsePass

-------------------------------------------------------------------------------
(* The selection names jobs, each at one place.                            *)
LEMMA Selection ==
    /\ SelectedJobs \subseteq Jobs
    /\ Len(Selected) \in Nat \ {0} /\ DOMAIN Selected = 1..Len(Selected)
    /\ \A n \in DOMAIN Selected : Selected[n] \in SelectedJobs
    /\ \A m, n \in DOMAIN Selected : Selected[m] = Selected[n] => m = n
BY RemoteDispatchAssumption DEF SelectedJobs

LEMMA NextIsSelected ==
    ASSUME ClientTypes, ~AllSent
    PROVE  next \in DOMAIN Selected /\ Selected[next] \in SelectedJobs
BY Selection DEF ClientTypes, AllSent

(* A dispatch ends with an id given to a run of its job, or with none.     *)
LEMMA DispatchEnds ==
    ASSUME Inv, DispatchAnswered \/ DispatchFails
    PROVE  /\ waiting /\ ~AllSent
           /\ \E id : /\ id = None \/ Owned(id, Selected[next])
                      /\ Record(Selected[next], id)
<1>1. waiting /\ ~AllSent
  BY DEF Inv, ClientBooks, DispatchAnswered, DispatchFails
<1>2. Selected[next] \in SelectedJobs
  BY <1>1, NextIsSelected DEF Inv
<1>3. CASE DispatchAnswered
  <2> DEFINE r == reply[Selected[next]]
  <2>1. CASE r.status = 200 /\ r.ids # <<>>
    <3>1. r # None /\ r \in Reply
      BY <1>2, <1>3 DEF DispatchAnswered, Inv, AgentTypes
    <3>2. r.ids \in Seq(Nat) /\ 1 \in DOMAIN r.ids /\ Head(r.ids) = r.ids[1]
      BY <2>1, <3>1 DEF Reply
    <3>3. Owned(Head(r.ids), Selected[next])
      BY <1>2, <3>1, <3>2 DEF Inv, IdsOwned
    <3> QED BY <1>1, <1>3, <2>1, <3>3 DEF DispatchAnswered
  <2>2. CASE ~(r.status = 200 /\ r.ids # <<>>)
    BY <1>1, <1>3, <2>2 DEF DispatchAnswered
  <2> QED BY <2>1, <2>2
<1>4. CASE DispatchFails
  BY <1>1, <1>4 DEF DispatchFails
<1> QED BY <1>3, <1>4

(* Entries the agents keep are entries.                                    *)
LEMMA RegistryEntry ==
    ASSUME AgentTypes, NEW a \in Agents, NEW id \in DOMAIN registry[a]
    PROVE  registry[a][id] \in Entry /\ id \in Ids
BY DEF AgentTypes

LEMMA ClientTypesStep ==
    ASSUME Inv, [Next]_vars
    PROVE  ClientTypes'
<1> USE DEF ClientTypes
<1>0. ClientTypes /\ AgentTypes
  BY DEF Inv
<1>1. CASE SendDispatch
  BY <1>0, <1>1 DEF SendDispatch, Ids, Verdict, Entry
<1>2. CASE DispatchAnswered \/ DispatchFails
  <2>1. PICK id : /\ id = None \/ Owned(id, Selected[next])
                  /\ Record(Selected[next], id)
    BY <1>2, DispatchEnds
  <2>2. ~AllSent /\ Selected[next] \in SelectedJobs /\ id \in Ids \cup {None}
    BY <1>0, <1>2, <2>1, DispatchEnds, NextIsSelected DEF Owned
  <2>3. next' \in 1..(Len(Selected) + 1)
    BY <1>0, <2>1, <2>2, Selection DEF Record, AllSent
  <2>4. ticket' \in [SelectedJobs -> Ids' \cup {None}]
    BY <1>0, <2>1, <2>2 DEF Record, agentVars, Ids
  <2>5. results' \in Seq(Verdict')
    <3>1. [job |-> Selected[next], state |-> "error"] \in Verdict
      BY <2>2 DEF Verdict
    <3>2. results' \in Seq(Verdict)
      BY <1>0, <2>1, <3>1 DEF Record
    <3> QED BY <3>2 DEF Verdict, Entry
  <2> QED BY <1>0, <2>1, <2>3, <2>4, <2>5 DEF Record, agentVars
<1>3. ASSUME NEW j \in SelectedJobs, AskState(j) PROVE ClientTypes'
  BY <1>0, <1>3 DEF AskState, agentVars, Ids, Verdict, Entry
<1>4. ASSUME NEW j \in SelectedJobs, PollReturns(j) PROVE ClientTypes'
  <2>1. IsFinal(answer[j]) => answer[j] \in Entry
    BY <1>0 DEF IsFinal
  <2> QED BY <1>0, <1>4, <2>1 DEF PollReturns, agentVars, Ids, Verdict, Entry
<1>5. ASSUME NEW j \in SelectedJobs, PollFails(j) PROVE ClientTypes'
  BY <1>0, <1>5 DEF PollFails, agentVars, Ids, Verdict, Entry
<1>6. ASSUME NEW j \in SelectedJobs, Deadline(j) PROVE ClientTypes'
  BY <1>0, <1>6 DEF Deadline, agentVars, Ids, Verdict, Entry
<1>7. ASSUME NEW j \in SelectedJobs, Collect(j) PROVE ClientTypes'
  <2>1. [job |-> verdict[j].job, state |-> verdict[j].state] \in Verdict
    <3>1. verdict[j] \in Entry \cup [job : SelectedJobs, state : {"timeout"}]
      BY <1>0, <1>7 DEF Collect
    <3>2. CASE verdict[j] \in Entry
      BY <3>2 DEF Verdict
    <3>3. CASE verdict[j] \in [job : SelectedJobs, state : {"timeout"}]
      BY <3>3 DEF Verdict
    <3> QED BY <3>1, <3>2, <3>3
  <2>2. results' \in Seq(Verdict)
    BY <1>0, <1>7, <2>1 DEF Collect
  <2> QED BY <1>0, <1>7, <2>2 DEF Collect, agentVars, Ids, Verdict, Entry
<1>8. CASE Exit
  BY <1>0, <1>8 DEF Exit, agentVars, Ids, Verdict, Entry
<1>9. ASSUME NEW j \in SelectedJobs, AnswerPoll(j) PROVE ClientTypes'
  <2>1. AgentOf[j] \in Agents
    BY Selection, RemoteDispatchAssumption
  <2>2. answer' \in [SelectedJobs -> Entry \cup {None}]
    BY <1>0, <1>9, <2>1, RegistryEntry DEF AnswerPoll
  <2> QED BY <1>0, <1>9, <2>2 DEF AnswerPoll, agentVars, Ids, Verdict, Entry
<1>10. ASSUME UNCHANGED clientVars, issued' \in Nat, issued <= issued'
       PROVE  ClientTypes'
  <2>1. Ids \subseteq Ids'
    BY <1>0, <1>10 DEF Ids, AgentTypes
  <2>2. ticket \in [SelectedJobs -> Ids' \cup {None}]
    BY <1>0, <2>1
  <2> QED BY <1>0, <1>10, <2>2 DEF clientVars, Verdict, Entry
<1>11. ASSUME NEW a \in Agents, Agent(a) \/ Push(a) \/ LoseRequest(a)
       PROVE  ClientTypes'
  <2>1. UNCHANGED clientVars
    BY <1>11 DEF Agent, TakeRequest, SubmitJob, Respond, Restart, StartJob, EndJob,
                 SetState, Push, LoseRequest
  <2>2. issued' = issued \/ issued' = issued + 1
    BY <1>11 DEF Agent, TakeRequest, SubmitJob, Register, Respond, Restart, StartJob,
                 EndJob, SetState, Push, LoseRequest
  <2> QED BY <1>0, <1>10, <2>1, <2>2 DEF AgentTypes
<1>12. CASE UNCHANGED vars
  BY <1>0, <1>10, <1>12 DEF vars, agentVars, AgentTypes
<1> QED
  BY <1>1, <1>2, <1>3, <1>4, <1>5, <1>6, <1>7, <1>8, <1>9, <1>11, <1>12
  DEF Next, Client

-------------------------------------------------------------------------------
(* The agents' side.                                                       *)

\* What an agent takes up is a request with the names it stands for.
LEMMA TakenUp ==
    ASSUME AgentTypes, NEW a \in Agents, NEW r \in backlog[a]
    PROVE  /\ r \in Requests
           /\ Names(a, r) \in Seq(Jobs)
           /\ r.kind = "run" => /\ r = RunOf(r.job) /\ r.job \in SelectedJobs
                                /\ Names(a, r) \in {<<>>, <<r.job>>}
<1>1. r \in Requests
  BY DEF AgentTypes
<1>2. CASE \E j \in SelectedJobs : r = RunOf(j)
  BY <1>1, <1>2, Selection DEF RunOf, Names
<1>3. CASE r = [kind |-> "push", job |-> None]
  BY <1>1, <1>3, RemoteDispatchAssumption DEF Names
<1> QED BY <1>1, <1>2, <1>3 DEF Requests

LEMMA Registered ==
    ASSUME AgentTypes, NEW a \in Agents, NEW j \in Jobs, NEW o \in {"run", "push"},
           Register(a, j, o)
    PROVE  /\ issued' = issued + 1
           /\ registry' = [b \in Agents |-> registry'[b]]
           /\ DOMAIN registry'[a] = DOMAIN registry[a] \cup {issued + 1}
           /\ issued + 1 \notin DOMAIN registry[a]
           /\ registry'[a][issued + 1].job = j
           /\ registry'[a][issued + 1].origin = o
           /\ registry'[a][issued + 1].state = "queued"
           /\ \A id \in DOMAIN registry[a] : registry'[a][id] = registry[a][id]
           /\ \A b \in Agents \ {a} : registry'[b] = registry[b]
           /\ registry'[a] \in [DOMAIN registry'[a] -> Entry]
<1>1. issued + 1 \notin DOMAIN registry[a]
  BY DEF AgentTypes, Ids
<1>2. registry'[a] =
        [id \in DOMAIN registry[a] \cup {issued + 1} |->
            IF id = issued + 1 THEN [job |-> j, origin |-> o, state |-> "queued"]
            ELSE registry[a][id]]
  BY DEF Register, AgentTypes
<1>3. [job |-> j, origin |-> o, state |-> "queued"] \in Entry
  BY DEF Entry, States
<1>4. registry'[a] \in [DOMAIN registry'[a] -> Entry]
  BY <1>2, <1>3, RegistryEntry
<1>5. /\ registry' = [b \in Agents |-> registry'[b]]
      /\ \A b \in Agents \ {a} : registry'[b] = registry[b]
  BY DEF Register, AgentTypes
<1> QED BY <1>1, <1>2, <1>4, <1>5 DEF Register

LEMMA StateSet ==
    ASSUME AgentTypes, NEW a \in Agents, NEW id \in DOMAIN registry[a],
           NEW s \in States, SetState(a, id, s)
    PROVE  /\ registry' = [b \in Agents |-> registry'[b]]
           /\ DOMAIN registry'[a] = DOMAIN registry[a]
           /\ registry'[a][id].state = s
           /\ \A i \in DOMAIN registry[a] : /\ registry'[a][i].job = registry[a][i].job
                                           /\ registry'[a][i].origin = registry[a][i].origin
           /\ \A i \in DOMAIN registry[a] \ {id} : registry'[a][i] = registry[a][i]
           /\ \A b \in Agents \ {a} : registry'[b] = registry[b]
           /\ registry'[a] \in [DOMAIN registry'[a] -> Entry]
<1>1. registry'[a] = [registry[a] EXCEPT ![id].state = s]
  BY DEF SetState, AgentTypes
<1>2. registry[a][id] \in Entry
  BY RegistryEntry
<1>3. [registry[a][id] EXCEPT !.state = s] \in Entry
  BY <1>2 DEF Entry
<1>4. registry[a] \in [DOMAIN registry[a] -> Entry]
  BY DEF AgentTypes
<1>5. registry'[a] \in [DOMAIN registry[a] -> Entry]
  BY <1>1, <1>3, <1>4
<1>6. /\ registry'[a][id].state = s
      /\ \A i \in DOMAIN registry[a] : /\ registry'[a][i].job = registry[a][i].job
                                      /\ registry'[a][i].origin = registry[a][i].origin
      /\ \A i \in DOMAIN registry[a] \ {id} : registry'[a][i] = registry[a][i]
  BY <1>1, <1>2, <1>4 DEF Entry
<1>7. /\ registry' = [b \in Agents |-> registry'[b]]
      /\ \A b \in Agents \ {a} : registry'[b] = registry[b]
  BY DEF SetState, AgentTypes
<1> QED BY <1>5, <1>6, <1>7

\* The two outcomes of a turn of _submit_jobs.
LEMMA SubmitOutcome ==
    ASSUME AgentTypes, NEW a \in Agents, SubmitJob(a)
    PROVE  /\ handler[a] \in Handler /\ handler[a].todo # <<>>
           /\ Head(handler[a].todo) \in Jobs
           /\ handler[a].request.kind \in {"run", "push"}
           /\ handler'[a] \in Handler
           /\ handler'[a].request = handler[a].request
           /\ handler' = [handler EXCEPT ![a] = handler'[a]]
<1>1. handler[a] \in Handler /\ handler[a].todo # <<>>
  BY DEF SubmitJob, AgentTypes
<1>2. /\ handler[a].todo \in Seq(Jobs) /\ handler[a].ids \in Seq(Nat)
      /\ handler[a].request \in Requests
      /\ Head(handler[a].todo) \in Jobs /\ Tail(handler[a].todo) \in Seq(Jobs)
      /\ Append(handler[a].ids, issued + 1) \in Seq(Nat)
  BY <1>1 DEF Handler, AgentTypes
<1>3. handler[a].request.kind \in {"run", "push"}
  BY <1>2 DEF Requests, RunOf
<1>4. handler'[a] \in {Refused(handler[a]), Accepted(handler[a], issued + 1)}
  BY <1>1 DEF SubmitJob, AgentTypes
<1>5. Refused(handler[a]) \in Handler
  BY <1>1 DEF Refused, Handler, Statuses
<1>6. Accepted(handler[a], issued + 1) \in Handler
  BY <1>1, <1>2 DEF Accepted, Handler
<1>7. handler'[a].request = handler[a].request
  BY <1>4 DEF Refused, Accepted
<1>8. handler' = [handler EXCEPT ![a] = handler'[a]]
  BY DEF SubmitJob, AgentTypes
<1> QED BY <1>1, <1>2, <1>3, <1>4, <1>5, <1>6, <1>7, <1>8

LEMMA AgentTypesStep ==
    ASSUME Inv, [Next]_vars
    PROVE  AgentTypes'
<1>0. AgentTypes /\ ClientTypes
  BY DEF Inv
<1>1. ASSUME UNCHANGED agentVars PROVE AgentTypes'
  BY <1>0, <1>1 DEF agentVars, AgentTypes, Ids, Entry, States
<1>2. ASSUME UNCHANGED <<known, handler, reply, registry, issued, finished>>,
             backlog' \in [Agents -> SUBSET Requests]
      PROVE  AgentTypes'
  BY <1>0, <1>2 DEF AgentTypes, Ids, Entry, States
<1>3. CASE SendDispatch
  <2>1. RunOf(Selected[next]) \in Requests /\ RunOf(Selected[next]) = [kind |-> "run", job |-> Selected[next]]
    BY <1>0, <1>3, NextIsSelected DEF SendDispatch, RunOf, Requests
  <2>2. backlog' \in [Agents -> SUBSET Requests]
    BY <1>0, <1>3, <2>1 DEF SendDispatch, AgentTypes
  <2> QED BY <1>2, <1>3, <2>2 DEF SendDispatch
<1>4. CASE \/ DispatchAnswered \/ DispatchFails \/ Exit \/ UNCHANGED vars
           \/ \E j \in SelectedJobs :
                 \/ AskState(j) \/ PollReturns(j) \/ PollFails(j) \/ Deadline(j)
                 \/ Collect(j) \/ AnswerPoll(j)
  BY <1>1, <1>4 DEF DispatchAnswered, DispatchFails, Record, Exit, AskState, PollReturns,
     PollFails, Deadline, Collect, AnswerPoll, vars
<1>5. ASSUME NEW a \in Agents, TakeRequest(a) PROVE AgentTypes'
  <2>1. PICK r \in backlog[a] :
          /\ backlog' = [backlog EXCEPT ![a] = @ \ {r}]
          /\ handler' = [handler EXCEPT ![a] =
                [request |-> r, todo |-> Names(a, r), ids |-> <<>>,
                 status |-> IF Names(a, r) = <<>> THEN 400 ELSE 200]]
    BY <1>5 DEF TakeRequest
  <2>2. r \in Requests /\ Names(a, r) \in Seq(Jobs)
    BY <1>0, TakenUp
  <2>3. [request |-> r, todo |-> Names(a, r), ids |-> <<>>,
         status |-> IF Names(a, r) = <<>> THEN 400 ELSE 200] \in Handler
    BY <2>2 DEF Handler, Statuses
  <2>4. handler' \in [Agents -> Handler \cup {None}] /\ backlog' \in [Agents -> SUBSET Requests]
    BY <1>0, <2>1, <2>3 DEF AgentTypes
  <2> QED BY <1>0, <1>5, <2>4 DEF TakeRequest, AgentTypes, Ids, Entry, States
<1>6. ASSUME NEW a \in Agents, SubmitJob(a) PROVE AgentTypes'
  <2>1. handler' \in [Agents -> Handler \cup {None}]
    BY <1>0, <1>6, SubmitOutcome DEF AgentTypes
  <2>2. UNCHANGED <<known, backlog, reply, finished>>
    BY <1>6 DEF SubmitJob
  <2>3. CASE UNCHANGED <<registry, issued>>
    BY <1>0, <2>1, <2>2, <2>3 DEF AgentTypes, Ids, Entry, States
  <2>4. CASE Register(a, Head(handler[a].todo), handler[a].request.kind)
    <3>1. /\ issued' = issued + 1
          /\ registry' = [b \in Agents |-> registry'[b]]
          /\ DOMAIN registry'[a] = DOMAIN registry[a] \cup {issued + 1}
          /\ \A b \in Agents \ {a} : registry'[b] = registry[b]
          /\ registry'[a] \in [DOMAIN registry'[a] -> Entry]
      BY <1>0, <1>6, <2>4, SubmitOutcome, Registered
    <3>2. Ids' = Ids \cup {issued + 1} /\ issued' \in Nat
      BY <1>0, <3>1 DEF Ids, AgentTypes
    <3>3. \A b \in Agents : /\ DOMAIN registry'[b] \subseteq Ids'
                           /\ registry'[b] \in [DOMAIN registry'[b] -> Entry]
      BY <1>0, <3>1, <3>2 DEF AgentTypes
    <3>4. \A f \in finished : f.id \in Ids'
      BY <1>0, <3>2 DEF AgentTypes
    <3>5. Entry' = Entry
      BY DEF Entry
    <3> QED BY <1>0, <2>1, <2>2, <3>1, <3>2, <3>3, <3>4, <3>5 DEF AgentTypes
  <2> QED BY <1>6, <2>3, <2>4 DEF SubmitJob
<1>7. ASSUME NEW a \in Agents, Respond(a) PROVE AgentTypes'
  <2>1. handler[a] \in Handler
    BY <1>0, <1>7 DEF Respond, AgentTypes
  <2>2. [status |-> handler[a].status, ids |-> handler[a].ids] \in Reply
    BY <2>1 DEF Handler, Reply
  <2>3. reply' \in [SelectedJobs -> Reply \cup {None}]
    BY <1>0, <1>7, <2>2 DEF Respond, AgentTypes
  <2>4. handler' \in [Agents -> Handler \cup {None}]
    BY <1>0, <1>7 DEF Respond, AgentTypes
  <2> QED BY <1>0, <1>7, <2>3, <2>4 DEF Respond, AgentTypes, Ids, Entry, States
<1>8. ASSUME NEW a \in Agents, NEW id \in DOMAIN registry[a], StartJob(a, id)
      PROVE  AgentTypes'
  <2>1. SetState(a, id, "running") /\ "running" \in States
    BY <1>8 DEF StartJob, States
  <2>2. /\ registry' = [b \in Agents |-> registry'[b]]
        /\ DOMAIN registry'[a] = DOMAIN registry[a]
        /\ \A b \in Agents \ {a} : registry'[b] = registry[b]
        /\ registry'[a] \in [DOMAIN registry'[a] -> Entry]
    BY <1>0, <2>1, StateSet
  <2> QED BY <1>0, <1>8, <2>1, <2>2 DEF StartJob, SetState, AgentTypes, Ids, Entry, States
<1>9. ASSUME NEW a \in Agents, NEW id \in DOMAIN registry[a], NEW s \in FinalStates,
             EndJob(a, id, s)
      PROVE  AgentTypes'
  <2>1. SetState(a, id, s) /\ s \in States
    BY <1>9 DEF EndJob, FinalStates, States
  <2>2. /\ registry' = [b \in Agents |-> registry'[b]]
        /\ DOMAIN registry'[a] = DOMAIN registry[a]
        /\ \A b \in Agents \ {a} : registry'[b] = registry[b]
        /\ registry'[a] \in [DOMAIN registry'[a] -> Entry]
    BY <1>0, <2>1, StateSet
  <2>3. registry[a][id] \in Entry /\ id \in Ids /\ id \in Nat
    BY <1>0, RegistryEntry DEF Ids
  <2>4. finished' \subseteq Ended /\ \A f \in finished' : f.id \in Ids
    BY <1>0, <1>9, <2>3 DEF EndJob, AgentTypes, Ended, Entry
  <2> QED BY <1>0, <2>1, <2>2, <2>4 DEF SetState, AgentTypes, Ids, Entry, States
<1>10. ASSUME NEW a \in Agents, Push(a) PROVE AgentTypes'
  <2>1. backlog' \in [Agents -> SUBSET Requests]
    BY <1>0, <1>10 DEF Push, AgentTypes, Requests
  <2> QED BY <1>2, <1>10, <2>1 DEF Push
<1>11. ASSUME NEW a \in Agents, LoseRequest(a) PROVE AgentTypes'
  <2>1. backlog' \in [Agents -> SUBSET Requests]
    BY <1>0, <1>11 DEF LoseRequest, AgentTypes
  <2> QED BY <1>2, <1>11, <2>1 DEF LoseRequest
<1>12. ASSUME NEW a \in Agents, Restart(a) PROVE AgentTypes'
  <2>1. backlog' \in [Agents -> SUBSET Requests] /\ handler' \in [Agents -> Handler \cup {None}]
    BY <1>0, <1>12 DEF Restart, AgentTypes
  <2>2. /\ registry' = [b \in Agents |-> registry'[b]]
        /\ \A b \in Agents : /\ DOMAIN registry'[b] \subseteq Ids
                             /\ registry'[b] \in [DOMAIN registry'[b] -> Entry]
    BY <1>0, <1>12 DEF Restart, AgentTypes
  <2> QED BY <1>0, <1>12, <2>1, <2>2 DEF Restart, AgentTypes, Ids, Entry, States
<1> QED
  BY <1>3, <1>4, <1>5, <1>6, <1>7, <1>8, <1>9, <1>10, <1>11, <1>12
  DEF Next, Client, Agent

-------------------------------------------------------------------------------
(* The limit of the agents' queues.                                        *)
LEMMA QueuedFinite ==
    ASSUME AgentTypes, NEW a \in Agents
    PROVE  IsFiniteSet(Queued(a)) /\ Cardinality(Queued(a)) \in Nat
<1>1. IsFiniteSet(1..issued)
  <2>1. issued \in Int /\ 1 \in Int
    BY DEF AgentTypes
  <2> QED BY <2>1, FS_Interval
<1>2. Queued(a) \subseteq 1..issued
  BY DEF AgentTypes, Queued, Ids
<1>3. IsFiniteSet(Queued(a))
  BY <1>1, <1>2, FS_Subset
<1> QED BY <1>3, FS_CardinalityType

LEMMA QueueShrinks ==
    ASSUME AgentTypes, QueuesBounded, NEW a \in Agents, Queued(a)' \subseteq Queued(a)
    PROVE  Cardinality(Queued(a)') <= MaxQueue
<1>1. /\ IsFiniteSet(Queued(a)')
      /\ Cardinality(Queued(a)') <= Cardinality(Queued(a))
  BY QueuedFinite, FS_Subset
<1>2. Cardinality(Queued(a)') \in Nat
  BY <1>1, FS_CardinalityType
<1> QED
  BY <1>1, <1>2, QueuedFinite, RemoteDispatchAssumption DEF QueuesBounded

LEMMA QueuesBoundedStep ==
    ASSUME Inv, [Next]_vars
    PROVE  QueuesBounded'
<1>0. AgentTypes /\ QueuesBounded
  BY DEF Inv
<1>1. ASSUME \A b \in Agents : Queued(b)' \subseteq Queued(b) PROVE QueuesBounded'
  BY <1>0, <1>1, QueueShrinks DEF QueuesBounded
<1>2. CASE UNCHANGED registry
  BY <1>1, <1>2 DEF Queued
<1>3. ASSUME NEW a \in Agents, SubmitJob(a) PROVE QueuesBounded'
  <2>1. CASE UNCHANGED registry
    BY <1>2, <2>1
  <2>2. CASE /\ ~(Cardinality(Queued(a)) >= MaxQueue)
             /\ Register(a, Head(handler[a].todo), handler[a].request.kind)
    <3>1. /\ DOMAIN registry'[a] = DOMAIN registry[a] \cup {issued + 1}
          /\ issued + 1 \notin DOMAIN registry[a]
          /\ registry'[a][issued + 1].state = "queued"
          /\ \A id \in DOMAIN registry[a] : registry'[a][id] = registry[a][id]
          /\ \A b \in Agents \ {a} : registry'[b] = registry[b]
      <4>1. /\ Head(handler[a].todo) \in Jobs
            /\ handler[a].request.kind \in {"run", "push"}
        BY <1>0, <1>3, SubmitOutcome
      <4>2. Register(a, Head(handler[a].todo), handler[a].request.kind)
        BY <2>2
      <4> QED BY <1>0, <4>1, <4>2, Registered
    <3>2. Queued(a)' = Queued(a) \cup {issued + 1} /\ issued + 1 \notin Queued(a)
      BY <3>1 DEF Queued
    <3>3. Cardinality(Queued(a)') <= MaxQueue
      <4>1. IsFiniteSet(Queued(a)) /\ Cardinality(Queued(a)) \in Nat
        BY <1>0, QueuedFinite
      <4>2. Cardinality(Queued(a)') = Cardinality(Queued(a)) + 1
        BY <3>2, <4>1, FS_AddElement
      <4> QED BY <2>2, <4>1, <4>2, RemoteDispatchAssumption
    <3>4. \A b \in Agents \ {a} : Queued(b)' = Queued(b)
      BY <3>1 DEF Queued
    <3> QED BY <1>0, <3>3, <3>4 DEF QueuesBounded
  <2> QED BY <1>3, <2>1, <2>2 DEF SubmitJob
<1>4. ASSUME NEW a \in Agents, NEW id \in DOMAIN registry[a], NEW s \in States \ {"queued"},
             SetState(a, id, s)
      PROVE  QueuesBounded'
  <2>1. /\ DOMAIN registry'[a] = DOMAIN registry[a]
        /\ registry'[a][id].state = s
        /\ \A i \in DOMAIN registry[a] \ {id} : registry'[a][i] = registry[a][i]
        /\ \A b \in Agents \ {a} : registry'[b] = registry[b]
    BY <1>0, <1>4, StateSet
  <2>2. \A b \in Agents : Queued(b)' \subseteq Queued(b)
    BY <2>1 DEF Queued
  <2> QED BY <1>1, <2>2
<1>5. ASSUME NEW a \in Agents, Restart(a) PROVE QueuesBounded'
  <2>1. \A b \in Agents : registry'[b] = registry[b] \/ DOMAIN registry'[b] = {}
    BY <1>0, <1>5 DEF Restart, AgentTypes
  <2>2. \A b \in Agents : Queued(b)' \subseteq Queued(b)
    BY <2>1 DEF Queued
  <2> QED BY <1>1, <2>2
<1>6. ASSUME NEW a \in Agents, NEW id \in DOMAIN registry[a],
             StartJob(a, id) \/ \E s \in FinalStates : EndJob(a, id, s)
      PROVE  QueuesBounded'
  BY <1>4, <1>6 DEF StartJob, EndJob, States, FinalStates
<1>7. ASSUME NEW a \in Agents,
             TakeRequest(a) \/ Respond(a) \/ Push(a) \/ LoseRequest(a)
      PROVE  QueuesBounded'
  BY <1>2, <1>7 DEF TakeRequest, Respond, Push, LoseRequest
<1>8. CASE Client \/ (\E j \in SelectedJobs : AnswerPoll(j)) \/ UNCHANGED vars
  BY <1>2, <1>8 DEF Client, SendDispatch, DispatchAnswered, DispatchFails, Record, Exit,
     AskState, PollReturns, PollFails, Deadline, Collect, AnswerPoll, agentVars, vars
<1> QED BY <1>3, <1>5, <1>6, <1>7, <1>8 DEF Next, Agent

-------------------------------------------------------------------------------
(* The client's books.                                                     *)
LEMMA ClientBooksStep ==
    ASSUME Inv, [Next]_vars
    PROVE  ClientBooks'
<1>0. ClientTypes /\ ClientBooks
  BY DEF Inv
<1>1. ASSUME UNCHANGED clientVars PROVE ClientBooks'
  BY <1>0, <1>1 DEF clientVars, ClientBooks, AllSent, Reported, Collected, Dispatched
<1>2. CASE SendDispatch
  BY <1>0, <1>2 DEF SendDispatch, ClientBooks, AllSent, Reported, Collected, Dispatched
<1>3. CASE DispatchAnswered \/ DispatchFails
  <2> DEFINE j == Selected[next]
  <2>1. PICK id : Record(j, id)
    BY <1>3, DispatchEnds
  <2>2. waiting /\ ~AllSent /\ next \in DOMAIN Selected /\ j \in SelectedJobs
    BY <1>0, <1>3, DispatchEnds, NextIsSelected
  <2>3. ticket[j] = None /\ ~Reported(j) /\ next \in Nat /\ Len(Selected) \in Nat
    BY <1>0, <2>2, Selection DEF ClientBooks, ClientTypes
  <2>4. /\ next' = next + 1 /\ waiting' = FALSE
        /\ UNCHANGED <<poll, verdict, exit>>
        /\ ticket' = [ticket EXCEPT ![j] = id]
        /\ IF id = None THEN results' = Append(results, [job |-> j, state |-> "error"])
                        ELSE results' = results
    BY <2>1 DEF Record
  <2> HIDE DEF j
  <2>5. /\ \A k \in SelectedJobs \ {j} : ticket'[k] = ticket[k]
        /\ ticket'[j] = id
    BY <1>0, <2>2, <2>4 DEF ClientTypes
  <2>6. /\ DOMAIN results \subseteq DOMAIN results'
        /\ \A n \in DOMAIN results : results'[n] = results[n]
        /\ \A n \in DOMAIN results' \ DOMAIN results :
              id = None /\ results'[n] = [job |-> j, state |-> "error"]
        /\ \A m, n \in DOMAIN results' \ DOMAIN results : m = n
        /\ id = None => \E n \in DOMAIN results' : results'[n] = [job |-> j, state |-> "error"]
    <3>1. CASE id # None
      BY <2>4, <3>1
    <3>2. CASE id = None
      <4>1. results \in Seq(Verdict)
        BY <1>0 DEF ClientTypes
      <4>2. /\ Len(results) \in Nat /\ DOMAIN results = 1..Len(results)
            /\ DOMAIN results' = 1..(Len(results) + 1)
            /\ results'[Len(results) + 1] = [job |-> j, state |-> "error"]
            /\ \A n \in DOMAIN results : results'[n] = results[n]
        BY <2>4, <3>2, <4>1
      <4> QED BY <3>2, <4>2
    <3> QED BY <3>1, <3>2
  <2>7. \A n \in DOMAIN Selected : n # next => Selected[n] # j
    BY <2>2, Selection DEF j
  <2>8. \A n \in DOMAIN Selected : n >= next' =>
           ticket'[Selected[n]] = None /\ ~Reported(Selected[n])'
    BY <1>0, <2>2, <2>3, <2>4, <2>5, <2>6, <2>7, Selection DEF ClientBooks, Reported
  <2>9. \A n \in DOMAIN Selected : n < next' =>
           \/ ticket'[Selected[n]] # None
           \/ \E m \in DOMAIN results' :
                 results'[m].job = Selected[n] /\ results'[m].state = "error"
    <3> TAKE n \in DOMAIN Selected
    <3> HAVE n < next'
    <3>1. CASE n = next
      BY <2>5, <2>6, <3>1 DEF j
    <3>2. CASE n # next
      <4>1. n < next /\ Selected[n] # j /\ Selected[n] \in SelectedJobs
        BY <2>3, <2>4, <2>7, <3>2, Selection
      <4> QED BY <1>0, <2>5, <2>6, <4>1 DEF ClientBooks
    <3> QED BY <3>1, <3>2
  <2>10. \A k \in SelectedJobs : poll'[k] = "idle" /\ verdict'[k] = None
    BY <1>0, <2>2, <2>4 DEF ClientBooks
  <2>11. \A n \in DOMAIN results' :
          /\ results'[n].job \in SelectedJobs
          /\ results'[n].state = "error" /\ ticket'[results'[n].job] = None
    <3> TAKE n \in DOMAIN results'
    <3>1. CASE n \in DOMAIN results
      <4>1. results'[n].job \in SelectedJobs \ {j}
        BY <1>0, <2>3, <2>6, <3>1 DEF ClientBooks, Reported
      <4> QED BY <1>0, <2>2, <2>5, <2>6, <3>1, <4>1 DEF ClientBooks
    <3>2. CASE n \notin DOMAIN results
      BY <2>2, <2>5, <2>6, <3>2
    <3> QED BY <3>1, <3>2
  <2>12. \A m, n \in DOMAIN results' : results'[m].job = results'[n].job => m = n
    BY <1>0, <2>3, <2>6 DEF ClientBooks, Reported
  <2>13. exit' = "none"
    BY <1>0, <2>2, <2>4 DEF ClientBooks
  <2> QED BY <2>4, <2>8, <2>9, <2>10, <2>11, <2>12, <2>13 DEF ClientBooks
<1>4. ASSUME NEW j \in SelectedJobs, AskState(j) PROVE ClientBooks'
  BY <1>0, <1>4 DEF AskState, ClientBooks, ClientTypes, AllSent, Reported, Collected, Dispatched
<1>5. ASSUME NEW j \in SelectedJobs, PollReturns(j) PROVE ClientBooks'
  <2>1. AllSent /\ ticket[j] # None /\ verdict[j] = None
    BY <1>0, <1>5 DEF PollReturns, ClientBooks
  <2>2. /\ \A k \in SelectedJobs \ {j} : verdict'[k] = verdict[k] /\ poll'[k] = poll[k]
        /\ poll'[j] = "idle"
    BY <1>0, <1>5 DEF PollReturns, ClientTypes
  <2> QED BY <1>0, <1>5, <2>1, <2>2 DEF PollReturns, ClientBooks, AllSent, Reported,
             Collected, Dispatched
<1>6. ASSUME NEW j \in SelectedJobs, PollFails(j) PROVE ClientBooks'
  BY <1>0, <1>6 DEF PollFails, ClientBooks, ClientTypes, AllSent, Reported, Collected, Dispatched
<1>7. ASSUME NEW j \in SelectedJobs, Deadline(j) PROVE ClientBooks'
  <2>1. \A k \in SelectedJobs \ {j} : verdict'[k] = verdict[k]
    BY <1>0, <1>7 DEF Deadline, ClientTypes
  <2> QED BY <1>0, <1>7, <2>1 DEF Deadline, ClientBooks, AllSent, Reported,
             Collected, Dispatched
<1>8. ASSUME NEW j \in SelectedJobs, Collect(j) PROVE ClientBooks'
  <2> DEFINE new == [job |-> verdict[j].job, state |-> verdict[j].state]
  <2>1. verdict[j].job = j /\ AllSent /\ ticket[j] # None
    BY <1>0, <1>8 DEF Collect, Inv, Truth, ClientBooks
  <2>2. results \in Seq(Verdict)
    BY <1>0 DEF ClientTypes
  <2>3. /\ DOMAIN results' = DOMAIN results \cup {Len(results) + 1}
        /\ Len(results) + 1 \notin DOMAIN results
        /\ results'[Len(results) + 1] = new
        /\ \A n \in DOMAIN results : results'[n] = results[n]
    BY <1>8, <2>2 DEF Collect
  <2>4. new.job = j /\ new.state = verdict[j].state
    BY <2>1
  <2> HIDE DEF new
  <2>5. /\ UNCHANGED <<next, waiting, ticket, poll, verdict, exit>>
        /\ ~Reported(j) /\ verdict[j] # None
    BY <1>8 DEF Collect
  <2>6. exit = "none"
    BY <1>0, <2>1, <2>5 DEF ClientBooks, Collected, Dispatched
  <2>7. \A k : Reported(k)' => Reported(k) \/ k = j
    BY <2>3, <2>4 DEF Reported
  <2>8. \A m, n \in DOMAIN results' : results'[m].job = results'[n].job => m = n
    BY <1>0, <2>3, <2>4, <2>5 DEF ClientBooks, Reported
  <2>9. \A n \in DOMAIN results' :
          /\ results'[n].job \in SelectedJobs
          /\ \/ results'[n].state = "error" /\ ticket'[results'[n].job] = None
             \/ /\ verdict'[results'[n].job] # None
                /\ results'[n].state = verdict'[results'[n].job].state
    BY <1>0, <2>3, <2>4, <2>5 DEF ClientBooks
  <2>10. \A n \in DOMAIN Selected : ~(n >= next)
    BY <1>0, <2>1, Selection DEF ClientTypes, AllSent
  <2> QED BY <1>0, <2>3, <2>5, <2>6, <2>8, <2>9, <2>10 DEF ClientBooks, AllSent
<1>9. CASE Exit
  BY <1>0, <1>9 DEF Exit, ClientBooks, AllSent, Reported, Collected, Dispatched
<1>10. ASSUME NEW j \in SelectedJobs, AnswerPoll(j) PROVE ClientBooks'
  BY <1>0, <1>10 DEF AnswerPoll, ClientBooks, ClientTypes, AllSent, Reported, Collected, Dispatched
<1>11. ASSUME NEW a \in Agents, Agent(a) \/ Push(a) \/ LoseRequest(a)
       PROVE  ClientBooks'
  BY <1>1, <1>11 DEF Agent, TakeRequest, SubmitJob, Respond, Restart, StartJob, EndJob,
     SetState, Push, LoseRequest
<1> QED
  BY <1>1, <1>2, <1>3, <1>4, <1>5, <1>6, <1>7, <1>8, <1>9, <1>10, <1>11
  DEF Next, Client, vars

-------------------------------------------------------------------------------
(* What a step does to the registries and to the history of ended runs.    *)

Same(a, i) ==
    /\ i \in DOMAIN registry[a]
    /\ registry'[a][i].job = registry[a][i].job
    /\ registry'[a][i].origin = registry[a][i].origin

New(a, i) ==
    /\ SubmitJob(a)
    /\ i = issued + 1 /\ issued' = issued + 1
    /\ handler'[a] = Accepted(handler[a], i)
    /\ registry'[a][i].job = Head(handler[a].todo)
    /\ registry'[a][i].origin = handler[a].request.kind

LEMMA SubmitKeepsEntries ==
    ASSUME Inv, NEW a \in Agents, SubmitJob(a)
    PROVE  /\ issued' \in {issued, issued + 1} /\ UNCHANGED finished
           /\ \A b \in Agents : \A i \in DOMAIN registry'[b] :
                 \/ Same(b, i) /\ registry'[b][i] = registry[b][i]
                 \/ New(b, i) /\ registry'[b][i].state = "queued"
<1>0. AgentTypes
  BY DEF Inv
<1>1. UNCHANGED finished
  BY DEF SubmitJob
<1>2. CASE UNCHANGED <<registry, issued>>
  BY <1>1, <1>2 DEF Same
<1>3. CASE /\ Register(a, Head(handler[a].todo), handler[a].request.kind)
           /\ handler' = [handler EXCEPT ![a] = Accepted(@, issued + 1)]
  <2>1. /\ Head(handler[a].todo) \in Jobs
        /\ handler[a].request.kind \in {"run", "push"}
    BY <1>0, SubmitOutcome
  <2>2. /\ issued' = issued + 1
        /\ DOMAIN registry'[a] = DOMAIN registry[a] \cup {issued + 1}
        /\ registry'[a][issued + 1].job = Head(handler[a].todo)
        /\ registry'[a][issued + 1].origin = handler[a].request.kind
        /\ registry'[a][issued + 1].state = "queued"
        /\ \A i \in DOMAIN registry[a] : registry'[a][i] = registry[a][i]
        /\ \A b \in Agents \ {a} : registry'[b] = registry[b]
    BY <1>0, <1>3, <2>1, Registered
  <2>3. handler'[a] = Accepted(handler[a], issued + 1)
    BY <1>0, <1>3 DEF AgentTypes
  <2> QED BY <1>1, <2>2, <2>3 DEF Same, New
<1> QED BY <1>2, <1>3 DEF SubmitJob

LEMMA StateSetKeepsEntries ==
    ASSUME Inv, NEW a \in Agents, NEW id \in DOMAIN registry[a], NEW s \in States,
           SetState(a, id, s)
    PROVE  /\ UNCHANGED issued
           /\ \A b \in Agents : \A i \in DOMAIN registry'[b] :
                 /\ Same(b, i)
                 /\ b # a \/ i # id => registry'[b][i] = registry[b][i]
                 /\ b = a /\ i = id => registry'[b][i].state = s
<1>1. /\ DOMAIN registry'[a] = DOMAIN registry[a]
      /\ registry'[a][id].state = s
      /\ \A i \in DOMAIN registry[a] : /\ registry'[a][i].job = registry[a][i].job
                                      /\ registry'[a][i].origin = registry[a][i].origin
      /\ \A i \in DOMAIN registry[a] \ {id} : registry'[a][i] = registry[a][i]
      /\ \A b \in Agents \ {a} : registry'[b] = registry[b]
  BY StateSet DEF Inv
<1> QED BY <1>1 DEF SetState, Same

LEMMA RegistryStep ==
    ASSUME Inv, [Next]_vars
    PROVE  /\ issued' \in {issued, issued + 1}
           /\ finished \subseteq finished'
           /\ \A f \in finished' \ finished : \E a \in Agents :
                 /\ f.id \in DOMAIN registry[a]
                 /\ f.job = registry[a][f.id].job
                 /\ f.origin = registry[a][f.id].origin
           /\ \A a \in Agents : \A i \in DOMAIN registry'[a] :
                 /\ Same(a, i) \/ New(a, i)
                 /\ registry'[a][i].state \in FinalStates =>
                       [id |-> i, job |-> registry'[a][i].job,
                        origin |-> registry'[a][i].origin,
                        state |-> registry'[a][i].state] \in finished'
<1> DEFINE P == /\ issued' \in {issued, issued + 1}
                /\ finished \subseteq finished'
                /\ \A f \in finished' \ finished : \E a \in Agents :
                      /\ f.id \in DOMAIN registry[a]
                      /\ f.job = registry[a][f.id].job
                      /\ f.origin = registry[a][f.id].origin
                /\ \A a \in Agents : \A i \in DOMAIN registry'[a] :
                      /\ Same(a, i) \/ New(a, i)
                      /\ registry'[a][i].state \in FinalStates =>
                            [id |-> i, job |-> registry'[a][i].job,
                             origin |-> registry'[a][i].origin,
                             state |-> registry'[a][i].state] \in finished'
<1>0. AgentTypes /\ Truth
  BY DEF Inv
<1>1. ASSUME /\ UNCHANGED <<issued, finished>>
             /\ \A a \in Agents : \A i \in DOMAIN registry'[a] :
                   i \in DOMAIN registry[a] /\ registry'[a][i] = registry[a][i]
      PROVE  P
  BY <1>0, <1>1 DEF Truth, Same
<1>2. CASE UNCHANGED <<registry, issued, finished>>
  BY <1>1, <1>2
<1>3. ASSUME NEW a \in Agents, SubmitJob(a) PROVE P
  <2>1. /\ issued' \in {issued, issued + 1} /\ UNCHANGED finished
        /\ \A b \in Agents : \A i \in DOMAIN registry'[b] :
              \/ Same(b, i) /\ registry'[b][i] = registry[b][i]
              \/ New(b, i) /\ registry'[b][i].state = "queued"
    BY <1>3, SubmitKeepsEntries
  <2>2. "queued" \notin FinalStates
    BY DEF FinalStates
  <2>3. \A b \in Agents : \A i \in DOMAIN registry'[b] : Same(b, i) => i \in DOMAIN registry[b]
    BY DEF Same
  <2> QED BY <1>0, <2>1, <2>2, <2>3 DEF Truth
<1>4. ASSUME NEW a \in Agents, NEW id \in DOMAIN registry[a], StartJob(a, id) PROVE P
  <2>1. SetState(a, id, "running") /\ "running" \in States /\ UNCHANGED finished
    BY <1>4 DEF StartJob, States
  <2>2. /\ UNCHANGED issued
        /\ \A b \in Agents : \A i \in DOMAIN registry'[b] :
              /\ Same(b, i)
              /\ b # a \/ i # id => registry'[b][i] = registry[b][i]
              /\ b = a /\ i = id => registry'[b][i].state = "running"
    BY <2>1, StateSetKeepsEntries
  <2>3. "running" \notin FinalStates
    BY DEF FinalStates
  <2>4. \A b \in Agents : \A i \in DOMAIN registry'[b] : i \in DOMAIN registry[b]
    BY <2>2 DEF Same
  <2> QED BY <1>0, <2>1, <2>2, <2>3, <2>4 DEF Truth
<1>5. ASSUME NEW a \in Agents, NEW id \in DOMAIN registry[a], NEW s \in FinalStates,
             EndJob(a, id, s)
      PROVE  P
  <2> DEFINE new == [id |-> id, job |-> registry[a][id].job,
                     origin |-> registry[a][id].origin, state |-> s]
  <2>1. SetState(a, id, s) /\ s \in States /\ finished' = finished \cup {new}
    BY <1>5 DEF EndJob, States, FinalStates
  <2>2. /\ UNCHANGED issued
        /\ \A b \in Agents : \A i \in DOMAIN registry'[b] :
              /\ Same(b, i)
              /\ b # a \/ i # id => registry'[b][i] = registry[b][i]
              /\ b = a /\ i = id => registry'[b][i].state = s
    BY <2>1, StateSetKeepsEntries
  <2>3. \A b \in Agents : \A i \in DOMAIN registry'[b] :
          registry'[b][i].state \in FinalStates =>
              [id |-> i, job |-> registry'[b][i].job,
               origin |-> registry'[b][i].origin,
               state |-> registry'[b][i].state] \in finished'
    <3> TAKE b \in Agents
    <3> TAKE i \in DOMAIN registry'[b]
    <3>1. CASE b = a /\ i = id
      <4>1. [id |-> i, job |-> registry'[b][i].job,
             origin |-> registry'[b][i].origin,
             state |-> registry'[b][i].state] = new
        BY <2>2, <3>1 DEF Same
      <4> QED BY <2>1, <4>1
    <3>2. CASE ~(b = a /\ i = id)
      <4>1. registry'[b][i] = registry[b][i] /\ i \in DOMAIN registry[b]
        BY <2>2, <3>2 DEF Same
      <4> QED BY <1>0, <2>1, <4>1 DEF Truth
    <3> QED BY <3>1, <3>2
  <2>4. new.id = id /\ new.job = registry[a][id].job /\ new.origin = registry[a][id].origin
    OBVIOUS
  <2> HIDE DEF new
  <2> QED BY <2>1, <2>2, <2>3, <2>4
<1>6. ASSUME NEW a \in Agents, Restart(a) PROVE P
  <2>1. \A b \in Agents : registry'[b] = registry[b] \/ DOMAIN registry'[b] = {}
    BY <1>0, <1>6 DEF Restart, AgentTypes
  <2>2. UNCHANGED <<issued, finished>>
    BY <1>6 DEF Restart
  <2> QED BY <1>1, <2>1, <2>2
<1>7. ASSUME NEW a \in Agents,
             TakeRequest(a) \/ Respond(a) \/ Push(a) \/ LoseRequest(a)
      PROVE  P
  BY <1>2, <1>7 DEF TakeRequest, Respond, Push, LoseRequest
<1>8. CASE Client \/ (\E j \in SelectedJobs : AnswerPoll(j)) \/ UNCHANGED vars
  BY <1>2, <1>8 DEF Client, SendDispatch, DispatchAnswered, DispatchFails, Record, Exit,
     AskState, PollReturns, PollFails, Deadline, Collect, AnswerPoll, agentVars, vars
<1>9. P
  BY <1>3, <1>4, <1>5, <1>6, <1>7, <1>8 DEF Next, Agent
<1> QED BY <1>9

(* A submission for a run registers the job of its request.                *)
LEMMA NewIsRequested ==
    ASSUME Inv, NEW a \in Agents, NEW i, New(a, i), handler[a].request.kind = "run"
    PROVE  /\ handler[a].request.job \in SelectedJobs
           /\ Handles(a, handler[a].request.job)
           /\ Head(handler[a].todo) = handler[a].request.job
           /\ handler'[a].todo = <<>> /\ handler[a].todo # <<>>
           /\ handler'[a].status = handler[a].status
           /\ handler'[a].request = handler[a].request
<1>0. AgentTypes /\ Once
  BY DEF Inv
<1>1. /\ handler[a] \in Handler /\ handler[a].todo # <<>> /\ handler[a] # None
      /\ handler'[a] = Accepted(handler[a], i)
  BY <1>0, SubmitOutcome DEF New, SubmitJob
<1>2. PICK j \in SelectedJobs : handler[a].request = RunOf(j)
  BY <1>1 DEF Handler, Requests
<1>3. Handles(a, j) /\ handler[a].request.job = j
  BY <1>1, <1>2 DEF Handles, RunOf
<1>4. handler[a].todo = <<j>>
  BY <1>0, <1>1, <1>3 DEF Once
<1> QED BY <1>1, <1>3, <1>4 DEF Accepted

LEMMA OwnedStays ==
    ASSUME Inv, [Next]_vars, NEW id, NEW j, Owned(id, j)
    PROVE  Owned(id, j)'
<1>1. id \in Ids /\ issued \in Nat
  BY DEF Owned, Inv, AgentTypes
<1>2. id \in Ids' /\ id # issued + 1
  BY <1>1, RegistryStep DEF Ids
<1>3. \A a \in Agents : id \in DOMAIN registry'[a] =>
          registry'[a][id].job = j /\ registry'[a][id].origin = "run"
  BY <1>2, RegistryStep DEF Owned, Same, New
<1>4. \A f \in finished' : f.id = id => f.job = j /\ f.origin = "run"
  BY RegistryStep DEF Owned
<1> QED BY <1>2, <1>3, <1>4 DEF Owned

-------------------------------------------------------------------------------
(* Whose ids travel.                                                       *)
LEMMA IdsOwnedStep ==
    ASSUME Inv, [Next]_vars
    PROVE  IdsOwned'
<1> DEFINE HandlersOwn == \A a \in Agents : \A j \in SelectedJobs : Handles(a, j) =>
               \A n \in DOMAIN handler[a].ids : Owned(handler[a].ids[n], j)
           RepliesOwn == \A j \in SelectedJobs : reply[j] # None =>
               \A n \in DOMAIN reply[j].ids : Owned(reply[j].ids[n], j)
           TicketsOwn == \A j \in SelectedJobs : ticket[j] # None => Owned(ticket[j], j)
<1>0. AgentTypes /\ ClientTypes /\ HandlersOwn /\ RepliesOwn /\ TicketsOwn
  BY DEF Inv, IdsOwned
<1>1. \A id, j : Owned(id, j) => Owned(id, j)'
  BY OwnedStays
<1>2. ASSUME UNCHANGED handler PROVE HandlersOwn'
  BY <1>0, <1>1, <1>2 DEF Handles
<1>3. ASSUME UNCHANGED reply PROVE RepliesOwn'
  BY <1>0, <1>1, <1>3
<1>4. ASSUME UNCHANGED ticket PROVE TicketsOwn'
  BY <1>0, <1>1, <1>4
<1>5. ASSUME NEW a \in Agents, UNCHANGED <<reply, ticket>>,
             \A b \in Agents \ {a} : handler'[b] = handler[b],
             \A j \in SelectedJobs : Handles(a, j)' =>
                \A n \in DOMAIN handler'[a].ids : Owned(handler[a].ids[n], j)'
      PROVE  IdsOwned'
  <2>1. ASSUME NEW b \in Agents, NEW j \in SelectedJobs, Handles(b, j)'
        PROVE  \A n \in DOMAIN handler'[b].ids : Owned(handler[b].ids[n], j)'
    <3>1. CASE b = a
      BY <1>5, <2>1, <3>1
    <3>2. CASE b # a
      BY <1>0, <1>1, <1>5, <2>1, <3>2 DEF Handles
    <3> QED BY <3>1, <3>2
  <2> QED BY <1>3, <1>4, <1>5, <2>1 DEF IdsOwned
<1>6. ASSUME NEW a \in Agents, TakeRequest(a) PROVE IdsOwned'
  <2>1. UNCHANGED <<reply, ticket>> /\ \A b \in Agents \ {a} : handler'[b] = handler[b]
    BY <1>0, <1>6 DEF TakeRequest, clientVars, AgentTypes
  <2>2. handler'[a].ids = <<>>
    BY <1>0, <1>6 DEF TakeRequest, AgentTypes
  <2> QED BY <1>5, <2>1, <2>2
<1>7. ASSUME NEW a \in Agents, SubmitJob(a) PROVE IdsOwned'
  <2>1. UNCHANGED <<reply, ticket>> /\ \A b \in Agents \ {a} : handler'[b] = handler[b]
    BY <1>0, <1>7 DEF SubmitJob, clientVars, AgentTypes
  <2>2. /\ handler[a] \in Handler /\ handler[a].ids \in Seq(Nat)
        /\ handler'[a].request = handler[a].request /\ handler[a] # None
    BY <1>0, <1>7, SubmitOutcome DEF Handler, SubmitJob
  <2>3. ASSUME NEW j \in SelectedJobs, Handles(a, j)',
               NEW n \in DOMAIN handler'[a].ids
        PROVE  Owned(handler[a].ids[n], j)'
    <3>1. Handles(a, j) /\ handler[a].request.kind = "run" /\ handler[a].request.job = j
      BY <2>2, <2>3 DEF Handles, RunOf
    <3>2. CASE handler'[a].ids = handler[a].ids
      BY <1>0, <1>1, <2>3, <3>1, <3>2
    <3>3. CASE /\ Register(a, Head(handler[a].todo), handler[a].request.kind)
               /\ handler' = [handler EXCEPT ![a] = Accepted(@, issued + 1)]
      <4>1. handler'[a].ids = Append(handler[a].ids, issued + 1)
        BY <1>0, <3>3 DEF Accepted, AgentTypes
      <4>2. CASE n \in DOMAIN handler[a].ids
        BY <1>0, <1>1, <2>2, <3>1, <4>1, <4>2
      <4>3. CASE n \notin DOMAIN handler[a].ids
        <5>1. handler'[a].ids[n] = issued + 1
          BY <2>2, <2>3, <4>1, <4>3
        <5>2. issued' = issued + 1 /\ issued \in Nat /\ issued + 1 \in Ids'
          BY <1>0, <3>3 DEF Register, AgentTypes, Ids
        <5>3. \A b \in Agents : issued + 1 \notin DOMAIN registry[b]
          BY <1>0, <5>2 DEF AgentTypes, Ids
        <5>4. \A f \in finished : f.id # issued + 1
          BY <1>0, <5>2 DEF AgentTypes, Ids
        <5>5. UNCHANGED finished
          BY <1>7 DEF SubmitJob
        <5>6. ASSUME NEW b \in Agents, issued + 1 \in DOMAIN registry'[b]
              PROVE  registry'[b][issued + 1].job = j /\ registry'[b][issued + 1].origin = "run"
          <6>1. New(b, issued + 1)
            BY <5>3, <5>6, RegistryStep DEF Same
          <6>2. b = a
            BY <1>0, <5>3, <5>6, <3>3 DEF Register, AgentTypes
          <6> QED BY <3>1, <6>1, <6>2, NewIsRequested DEF New
        <5> QED BY <5>1, <5>2, <5>4, <5>5, <5>6 DEF Owned
      <4> QED BY <4>2, <4>3
    <3>4. handler'[a].ids = handler[a].ids \/
          /\ Register(a, Head(handler[a].todo), handler[a].request.kind)
          /\ handler' = [handler EXCEPT ![a] = Accepted(@, issued + 1)]
      BY <1>0, <1>7 DEF SubmitJob, Refused, AgentTypes
    <3> QED BY <3>2, <3>3, <3>4
  <2> QED BY <1>5, <2>1, <2>3
<1>8. ASSUME NEW a \in Agents, Respond(a) PROVE IdsOwned'
  <2>1. UNCHANGED ticket
    BY <1>8 DEF Respond, clientVars
  <2>2. \A b \in Agents : handler'[b] = handler[b] \/ handler'[b] = None
    BY <1>0, <1>8 DEF Respond, AgentTypes
  <2>3. HandlersOwn'
    BY <1>0, <1>1, <2>2 DEF Handles
  <2>4. ASSUME NEW j \in SelectedJobs, reply'[j] # None, NEW n \in DOMAIN reply'[j].ids
        PROVE  Owned(reply[j].ids[n], j)'
    <3>1. CASE reply'[j] = reply[j]
      BY <1>0, <1>1, <2>4, <3>1
    <3>2. CASE reply'[j] # reply[j]
      <4>1. /\ handler[a].request.kind = "run" /\ handler[a].request.job = j
            /\ reply'[j] = [status |-> handler[a].status, ids |-> handler[a].ids]
        BY <1>0, <1>8, <3>2 DEF Respond, AgentTypes
      <4>2. Handles(a, j)
        BY <1>0, <1>8, <4>1 DEF Handles, Respond, AgentTypes, Handler, Requests, RunOf
      <4> QED BY <1>0, <1>1, <2>4, <4>1, <4>2
    <3> QED BY <3>1, <3>2
  <2> QED BY <1>4, <2>1, <2>3, <2>4 DEF IdsOwned
<1>9. ASSUME NEW a \in Agents, Restart(a) PROVE IdsOwned'
  <2>1. UNCHANGED <<reply, ticket>>
    BY <1>9 DEF Restart, clientVars
  <2>2. \A b \in Agents : handler'[b] = handler[b] \/ handler'[b] = None
    BY <1>0, <1>9 DEF Restart, AgentTypes
  <2>3. HandlersOwn'
    BY <1>0, <1>1, <2>2 DEF Handles
  <2> QED BY <1>3, <1>4, <2>1, <2>3 DEF IdsOwned
<1>10. CASE DispatchAnswered \/ DispatchFails
  <2>1. PICK id : /\ id = None \/ Owned(id, Selected[next])
                  /\ Record(Selected[next], id)
    BY <1>10, DispatchEnds
  <2>2. UNCHANGED <<handler, reply>>
    BY <2>1 DEF Record, agentVars
  <2>3. \A j \in SelectedJobs : ticket'[j] = ticket[j] \/ (j = Selected[next] /\ ticket'[j] = id)
    BY <1>0, <2>1 DEF Record, ClientTypes
  <2>4. TicketsOwn'
    BY <1>0, <1>1, <2>1, <2>3
  <2> QED BY <1>2, <1>3, <2>2, <2>4 DEF IdsOwned
<1>11. CASE UNCHANGED <<handler, reply, ticket>>
  BY <1>2, <1>3, <1>4, <1>11 DEF IdsOwned
<1>12. CASE SendDispatch \/ Exit \/ UNCHANGED vars
  BY <1>11, <1>12 DEF SendDispatch, Exit, vars, clientVars, agentVars
<1>13. ASSUME NEW j \in SelectedJobs,
              \/ AskState(j) \/ PollReturns(j) \/ PollFails(j) \/ Deadline(j)
              \/ Collect(j) \/ AnswerPoll(j)
       PROVE  IdsOwned'
  BY <1>11, <1>13 DEF AskState, PollReturns, PollFails, Deadline, Collect, AnswerPoll, agentVars
<1>14. ASSUME NEW a \in Agents,
              \/ Push(a) \/ LoseRequest(a)
              \/ \E id \in DOMAIN registry[a] :
                    StartJob(a, id) \/ \E s \in FinalStates : EndJob(a, id, s)
       PROVE  IdsOwned'
  BY <1>11, <1>14 DEF Push, LoseRequest, StartJob, EndJob, SetState, clientVars
<1> QED
  BY <1>6, <1>7, <1>8, <1>9, <1>10, <1>12, <1>13, <1>14 DEF Next, Client, Agent

-------------------------------------------------------------------------------
(* What is said of a run is what it came to.                               *)

\* Tickets of jobs that are polled, or were, do not change any more.
LEMMA TicketKept ==
    ASSUME Inv, [Next]_vars, NEW j \in SelectedJobs, AllSent
    PROVE  ticket'[j] = ticket[j]
<1>1. CASE DispatchAnswered \/ DispatchFails
  BY <1>1, DispatchEnds
<1>2. CASE UNCHANGED ticket
  BY <1>2
<1>3. CASE SendDispatch \/ Exit \/ (\E k \in SelectedJobs :
             AskState(k) \/ PollReturns(k) \/ PollFails(k) \/ Deadline(k) \/ Collect(k)
             \/ AnswerPoll(k))
  BY <1>2, <1>3 DEF SendDispatch, Exit, AskState, PollReturns, PollFails, Deadline, Collect,
     AnswerPoll
<1>4. CASE UNCHANGED clientVars
  BY <1>2, <1>4 DEF clientVars
<1>5. CASE \E a \in Agents : Agent(a) \/ Push(a) \/ LoseRequest(a)
  BY <1>4, <1>5 DEF Agent, TakeRequest, SubmitJob, Respond, Restart, StartJob, EndJob,
     SetState, Push, LoseRequest
<1> QED BY <1>1, <1>3, <1>4, <1>5 DEF Next, Client, vars

LEMMA WitnessStays ==
    ASSUME Inv, [Next]_vars, NEW j \in SelectedJobs, NEW s, AllSent, Witnessed(j, s)
    PROVE  Witnessed(j, s)'
<1>1. finished \subseteq finished'
  BY RegistryStep
<1>2. ticket'[j] = ticket[j]
  BY TicketKept
<1> QED BY <1>1, <1>2 DEF Witnessed

LEMMA TruthStep ==
    ASSUME Inv, [Next]_vars
    PROVE  Truth'
<1> DEFINE AnswerTrue(j) == answer[j] # None =>
               /\ poll[j] = "answered"
               /\ answer[j].job = j
               /\ answer[j].state \in FinalStates => Witnessed(j, answer[j].state)
           VerdictTrue(j) == verdict[j] # None =>
               /\ verdict[j].job = j
               /\ verdict[j].state # "timeout" => Witnessed(j, verdict[j].state)
<1>0. /\ AgentTypes /\ ClientTypes /\ ClientBooks
      /\ \A j \in SelectedJobs : AnswerTrue(j) /\ VerdictTrue(j)
  BY DEF Inv, Truth
<1>1. \A a \in Agents : \A id \in DOMAIN registry'[a] :
          registry'[a][id].state \in FinalStates =>
              [id |-> id, job |-> registry'[a][id].job,
               origin |-> registry'[a][id].origin,
               state |-> registry'[a][id].state] \in finished'
  BY RegistryStep
<1>2. SUFFICES ASSUME NEW j \in SelectedJobs
               PROVE  AnswerTrue(j)' /\ VerdictTrue(j)'
  BY <1>1, <1>2 DEF Truth
<1>3. ASSUME answer'[j] = answer[j], poll'[j] = poll[j] PROVE AnswerTrue(j)'
  <2>1. answer[j] # None => AllSent
    BY <1>0 DEF ClientBooks
  <2>2. ASSUME answer[j] # None, answer[j].state \in FinalStates
        PROVE  Witnessed(j, answer[j].state)'
    <3>1. Witnessed(j, answer[j].state) /\ AllSent
      BY <1>0, <2>1, <2>2
    <3>2. ticket'[j] = ticket[j] /\ finished \subseteq finished'
      BY <3>1, TicketKept, RegistryStep
    <3> QED BY <1>3, <3>1, <3>2 DEF Witnessed
  <2> QED BY <1>0, <1>3, <2>2
<1>4. ASSUME verdict'[j] = verdict[j] PROVE VerdictTrue(j)'
  <2>1. ASSUME verdict[j] # None, verdict[j].state # "timeout"
        PROVE  Witnessed(j, verdict[j].state)'
    <3>1. Witnessed(j, verdict[j].state) /\ AllSent
      BY <1>0, <2>1 DEF ClientBooks
    <3>2. ticket'[j] = ticket[j] /\ finished \subseteq finished'
      BY <3>1, TicketKept, RegistryStep
    <3> QED BY <1>4, <3>1, <3>2 DEF Witnessed
  <2> QED BY <1>0, <1>4, <2>1
<1>5. CASE answer'[j] = answer[j] /\ poll'[j] = poll[j] /\ verdict'[j] = verdict[j]
  BY <1>3, <1>4, <1>5
<1>6. CASE UNCHANGED <<answer, poll, verdict>>
  BY <1>5, <1>6
<1>7. ASSUME NEW k \in SelectedJobs, AskState(k) PROVE AnswerTrue(j)' /\ VerdictTrue(j)'
  <2>1. answer[k] = None
    BY <1>0, <1>7 DEF AskState
  <2>2. UNCHANGED <<answer, verdict>> /\ (j # k => poll'[j] = poll[j])
    BY <1>0, <1>7 DEF AskState, ClientTypes
  <2> QED BY <1>3, <1>4, <2>1, <2>2
<1>8. ASSUME NEW k \in SelectedJobs, PollReturns(k) PROVE AnswerTrue(j)' /\ VerdictTrue(j)'
  <2>1. CASE j # k
    BY <1>0, <1>5, <1>8, <2>1 DEF PollReturns, ClientTypes
  <2>2. CASE j = k
    <3>1. answer'[j] = None /\ verdict'[j] = (IF IsFinal(answer[j]) THEN answer[j] ELSE None)
      BY <1>0, <1>8, <2>2 DEF PollReturns, ClientTypes
    <3>2. CASE IsFinal(answer[j])
      <4>1. /\ AllSent /\ answer[j].job = j /\ Witnessed(j, answer[j].state)
        BY <1>0, <1>8, <2>2, <3>2 DEF IsFinal, ClientBooks, PollReturns
      <4>2. ticket'[j] = ticket[j] /\ finished \subseteq finished'
        BY <4>1, TicketKept, RegistryStep
      <4>3. Witnessed(j, verdict[j].state)'
        BY <3>1, <3>2, <4>1, <4>2 DEF Witnessed
      <4> QED BY <3>1, <3>2, <4>1, <4>3
    <3>3. CASE ~IsFinal(answer[j])
      BY <3>1, <3>3
    <3> QED BY <3>2, <3>3
  <2> QED BY <2>1, <2>2
<1>9. ASSUME NEW k \in SelectedJobs, PollFails(k) PROVE AnswerTrue(j)' /\ VerdictTrue(j)'
  <2>1. CASE j # k
    BY <1>0, <1>5, <1>9, <2>1 DEF PollFails, ClientTypes
  <2>2. CASE j = k
    <3>1. answer'[j] = None /\ verdict'[j] = verdict[j]
      BY <1>0, <1>9, <2>2 DEF PollFails, ClientTypes
    <3> QED BY <1>4, <3>1
  <2> QED BY <2>1, <2>2
<1>10. ASSUME NEW k \in SelectedJobs, Deadline(k) PROVE AnswerTrue(j)' /\ VerdictTrue(j)'
  <2>1. CASE j # k
    BY <1>0, <1>5, <1>10, <2>1 DEF Deadline, ClientTypes
  <2>2. CASE j = k
    <3>1. /\ UNCHANGED <<answer, poll>>
          /\ verdict'[j].job = j /\ verdict'[j].state = "timeout"
      BY <1>0, <1>10, <2>2 DEF Deadline, ClientTypes
    <3> QED BY <1>3, <3>1
  <2> QED BY <2>1, <2>2
<1>11. ASSUME NEW k \in SelectedJobs, AnswerPoll(k) PROVE AnswerTrue(j)' /\ VerdictTrue(j)'
  <2>1. CASE j # k
    BY <1>0, <1>5, <1>11, <2>1 DEF AnswerPoll, ClientTypes
  <2>2. CASE j = k
    <3> DEFINE a == AgentOf[j]
    <3>1. /\ poll[j] = "asked" /\ poll'[j] = "answered"
          /\ UNCHANGED <<verdict, ticket, finished>>
          /\ answer'[j] = IF ticket[j] \in DOMAIN registry[a]
                          THEN registry[a][ticket[j]] ELSE None
      BY <1>0, <1>11, <2>2 DEF AnswerPoll, ClientTypes, agentVars
    <3>2. a \in Agents
      BY Selection, RemoteDispatchAssumption
    <3> HIDE DEF a
    <3>3. ASSUME ticket[j] \in DOMAIN registry[a] PROVE AnswerTrue(j)'
      <4> DEFINE e == registry[a][ticket[j]]
      <4>1. ticket[j] # None
        BY <1>0, <3>1 DEF ClientBooks
      <4>2. e.job = j /\ e.origin = "run"
        BY <3>2, <3>3, <4>1 DEF Inv, IdsOwned, Owned
      <4>3. e.state \in FinalStates =>
              [id |-> ticket[j], job |-> e.job, origin |-> e.origin, state |-> e.state] \in finished
        BY <3>2, <3>3 DEF Inv, Truth
      <4>4. answer'[j] = e
        BY <3>1, <3>3
      <4> HIDE DEF e
      <4>5. answer'[j].state \in FinalStates => Witnessed(j, answer[j].state)'
        BY <3>1, <4>2, <4>3, <4>4 DEF Witnessed
      <4> QED BY <3>1, <4>2, <4>4, <4>5
    <3>4. AnswerTrue(j)'
      BY <3>1, <3>3
    <3> QED BY <1>4, <3>1, <3>4
  <2> QED BY <2>1, <2>2
<1>12. CASE \/ SendDispatch \/ DispatchAnswered \/ DispatchFails \/ Exit
            \/ (\E k \in SelectedJobs : Collect(k)) \/ UNCHANGED clientVars
  BY <1>6, <1>12 DEF SendDispatch, DispatchAnswered, DispatchFails, Record, Exit, Collect,
     clientVars
<1>13. CASE \E a \in Agents : Agent(a) \/ Push(a) \/ LoseRequest(a)
  BY <1>12, <1>13 DEF Agent, TakeRequest, SubmitJob, Respond, Restart, StartJob, EndJob,
     SetState, Push, LoseRequest
<1> QED
  BY <1>7, <1>8, <1>9, <1>10, <1>11, <1>12, <1>13 DEF Next, Client, vars

-------------------------------------------------------------------------------
(* The exit code.                                                          *)
LEMMA NoFalsePassStep ==
    ASSUME Inv, [Next]_vars
    PROVE  NoFalsePass'
<1>0. ClientTypes /\ ClientBooks /\ NoFalsePass /\ Truth
  BY DEF Inv
<1>1. finished \subseteq finished'
  BY RegistryStep
<1>2. CASE UNCHANGED exit
  BY <1>0, <1>1, <1>2 DEF NoFalsePass
<1>3. CASE Exit
  <2>1. SUFFICES ASSUME AllSent, Collected = Dispatched, Failed = {}, NEW j \in SelectedJobs
                 PROVE  \E f \in finished' :
                            f.job = j /\ f.origin = "run" /\ f.state = "success"
    BY <1>3, <2>1 DEF Exit, NoFalsePass
  <2>2. \A n \in DOMAIN results : results[n].state = "success"
    BY <2>1 DEF Failed
  <2>3. PICK n \in DOMAIN Selected : Selected[n] = j
    BY DEF SelectedJobs
  <2>4. n < next
    BY <1>0, <2>1, <2>3, Selection DEF AllSent, ClientTypes
  <2>5. ticket[j] # None
    BY <1>0, <2>2, <2>3, <2>4 DEF ClientBooks
  <2>6. PICK m \in DOMAIN results : results[m].job = j
    BY <2>1, <2>5 DEF Dispatched, Collected, Reported
  <2>7. verdict[j] # None /\ verdict[j].state = "success"
    BY <1>0, <2>2, <2>6 DEF ClientBooks
  <2>8. Witnessed(j, "success")
    BY <1>0, <2>7 DEF Truth
  <2> QED BY <1>1, <2>8 DEF Witnessed
<1>4. CASE SendDispatch \/ DispatchAnswered \/ DispatchFails \/ UNCHANGED vars
  BY <1>2, <1>4 DEF SendDispatch, DispatchAnswered, DispatchFails, Record, vars, clientVars
<1>5. CASE \E j \in SelectedJobs :
             AskState(j) \/ PollReturns(j) \/ PollFails(j) \/ Deadline(j) \/ Collect(j)
             \/ AnswerPoll(j)
  BY <1>2, <1>5 DEF AskState, PollReturns, PollFails, Deadline, Collect, AnswerPoll
<1>6. CASE \E a \in Agents : Agent(a) \/ Push(a) \/ LoseRequest(a)
  BY <1>2, <1>6 DEF Agent, TakeRequest, SubmitJob, Respond, Restart, StartJob, EndJob,
     SetState, Push, LoseRequest, clientVars
<1> QED BY <1>3, <1>4, <1>5, <1>6 DEF Next, Client

-------------------------------------------------------------------------------
(* A request is sent once and has one effect.                              *)

\* Once, for one job, by its parts.
BacklogOnce(j) ==
    \A a \in Agents : RunOf(j) \in backlog[a] =>
        /\ Sent(j) /\ NoEntry(j) /\ reply[j] = None /\ a = AgentOf[j]
        /\ \A b \in Agents : ~Handles(b, j)
HandlerOnce(j) ==
    \A a \in Agents : Handles(a, j) =>
        /\ Sent(j) /\ reply[j] = None /\ a = AgentOf[j]
        /\ handler[a].todo \in {<<>>, <<j>>}
        /\ handler[a].todo # <<>> => handler[a].status = 200 /\ NoEntry(j)
        /\ handler[a].status # 200 => NoEntry(j)
ReplyOnce(j) ==
    /\ ~Sent(j) => NoEntry(j) /\ reply[j] = None
    /\ reply[j] # None /\ reply[j].status # 200 => NoEntry(j)

LEMMA OnceParts == Once <=> \A j \in SelectedJobs :
                       BacklogOnce(j) /\ HandlerOnce(j) /\ ReplyOnce(j)
BY DEF Once, BacklogOnce, HandlerOnce, ReplyOnce

LEMMA SentStays ==
    ASSUME Inv, [Next]_vars, NEW j, Sent(j)
    PROVE  Sent(j)'
<1>0. next \in Nat
  BY DEF Inv, ClientTypes
<1>1. PICK n \in DOMAIN Selected : Selected[n] = j /\ (n < next \/ (n = next /\ waiting))
  BY DEF Sent
<1>2. CASE UNCHANGED <<next, waiting>>
  BY <1>2 DEF Sent
<1>3. CASE SendDispatch
  BY <1>1, <1>3 DEF SendDispatch, Sent
<1>4. CASE DispatchAnswered \/ DispatchFails
  <2>1. next' = next + 1
    BY <1>4, DispatchEnds DEF Record
  <2>2. n < next' /\ n \in DOMAIN Selected
    BY <1>0, <1>1, <2>1, Selection
  <2> QED BY <1>1, <2>2 DEF Sent
<1>5. CASE Exit \/ (\E k \in SelectedJobs :
             AskState(k) \/ PollReturns(k) \/ PollFails(k) \/ Deadline(k) \/ Collect(k)
             \/ AnswerPoll(k))
  BY <1>2, <1>5 DEF Exit, AskState, PollReturns, PollFails, Deadline, Collect, AnswerPoll
<1>6. CASE \/ UNCHANGED vars
           \/ \E a \in Agents : Agent(a) \/ Push(a) \/ LoseRequest(a)
  BY <1>2, <1>6 DEF Agent, TakeRequest, SubmitJob, Respond, Restart, StartJob, EndJob,
     SetState, Push, LoseRequest, vars, clientVars
<1> QED BY <1>3, <1>4, <1>5, <1>6 DEF Next, Client

\* An entry for a run of j appears only when its request is submitted.
LEMMA NoEntryStays ==
    ASSUME Inv, [Next]_vars, NEW j \in SelectedJobs, NoEntry(j),
           \A a \in Agents : Handles(a, j) => ~SubmitJob(a)
    PROVE  NoEntry(j)'
<1> SUFFICES ASSUME NEW a \in Agents, NEW i \in DOMAIN registry'[a],
                    registry'[a][i].job = j, registry'[a][i].origin = "run"
             PROVE  FALSE
  BY DEF NoEntry
<1>1. ~Same(a, i)
  BY DEF NoEntry, Same
<1>2. New(a, i)
  BY <1>1, RegistryStep
<1>3. handler[a].request.kind = "run"
  BY <1>2 DEF New
<1>4. /\ Handles(a, handler[a].request.job)
      /\ Head(handler[a].todo) = handler[a].request.job
  BY <1>2, <1>3, NewIsRequested
<1>5. Handles(a, j)
  BY <1>2, <1>4 DEF New
<1> QED BY <1>2, <1>5 DEF New

LEMMA SubmitChanges ==
    ASSUME AgentTypes, NEW a \in Agents, SubmitJob(a)
    PROVE  handler'[a].todo # handler[a].todo
<1>1. handler[a] \in Handler /\ handler[a].todo # <<>>
  BY SubmitOutcome
<1>2. handler'[a] \in {Refused(handler[a]), Accepted(handler[a], issued + 1)}
  BY DEF SubmitJob, AgentTypes
<1>3. /\ handler[a].todo \in Seq(Jobs)
      /\ Len(Tail(handler[a].todo)) # Len(handler[a].todo)
  BY <1>1 DEF Handler
<1>4. handler'[a].todo \in {<<>>, Tail(handler[a].todo)}
  BY <1>2 DEF Refused, Accepted
<1> QED BY <1>1, <1>3, <1>4

\* A step that sends, takes up, submits and answers nothing for j.
LEMMA OnceFrame ==
    ASSUME Inv, [Next]_vars, NEW j \in SelectedJobs,
           \A a \in Agents : RunOf(j) \in backlog'[a] => RunOf(j) \in backlog[a],
           \A a \in Agents : Handles(a, j)' => handler'[a] = handler[a],
           NoEntry(j) => NoEntry(j)',
           reply'[j] = reply[j]
    PROVE  BacklogOnce(j)' /\ HandlerOnce(j)' /\ ReplyOnce(j)'
<1>0. BacklogOnce(j) /\ HandlerOnce(j) /\ ReplyOnce(j)
  BY OnceParts DEF Inv
<1>1. \A a \in Agents : Handles(a, j)' => Handles(a, j) /\ handler'[a] = handler[a]
  BY DEF Handles
<1>2. Sent(j) => Sent(j)'
  BY SentStays
<1>3. ~Sent(j)' => ~Sent(j)
  BY <1>2
<1>4. BacklogOnce(j)'
  BY <1>0, <1>1, <1>2 DEF BacklogOnce
<1>5. HandlerOnce(j)'
  BY <1>0, <1>1, <1>2 DEF HandlerOnce
<1>6. ReplyOnce(j)'
  BY <1>0, <1>3 DEF ReplyOnce
<1> QED BY <1>4, <1>5, <1>6

LEMMA OnceStep ==
    ASSUME Inv, [Next]_vars
    PROVE  Once'
<1>1. SUFFICES ASSUME NEW j \in SelectedJobs
               PROVE  BacklogOnce(j)' /\ HandlerOnce(j)' /\ ReplyOnce(j)'
  BY <1>1 DEF Once, BacklogOnce, HandlerOnce, ReplyOnce
<1> DEFINE Goal == BacklogOnce(j)' /\ HandlerOnce(j)' /\ ReplyOnce(j)'
<1>0. /\ AgentTypes /\ ClientTypes /\ ClientBooks
      /\ BacklogOnce(j) /\ HandlerOnce(j) /\ ReplyOnce(j)
  BY OnceParts DEF Inv
<1>2. Sent(j) => Sent(j)'
  BY SentStays
<1>3. ASSUME UNCHANGED handler, NoEntry(j) PROVE NoEntry(j)'
  BY <1>0, <1>3, NoEntryStays, SubmitChanges
<1>4. CASE UNCHANGED <<backlog, handler, reply>>
  BY <1>3, <1>4, OnceFrame
<1>5. CASE SendDispatch
  <2>1. /\ next \in DOMAIN Selected /\ Selected[next] \in SelectedJobs
        /\ waiting' = TRUE /\ ~waiting /\ next' = next
        /\ UNCHANGED <<handler, reply, registry>>
    BY <1>0, <1>5, NextIsSelected DEF SendDispatch
  <2>2. \A a \in Agents : RunOf(j) \in backlog'[a] =>
           \/ RunOf(j) \in backlog[a]
           \/ j = Selected[next] /\ a = AgentOf[j]
    BY <1>0, <1>5, <2>1 DEF SendDispatch, AgentTypes, RunOf
  <2>3. CASE j # Selected[next]
    BY <1>3, <2>1, <2>2, <2>3, OnceFrame
  <2>4. CASE j = Selected[next]
    <3>1. ~Sent(j)
      BY <1>0, <2>1, <2>4, Selection DEF Sent, ClientTypes
    <3>2. Sent(j)'
      BY <2>1, <2>4 DEF Sent
    <3>3. NoEntry(j) /\ reply[j] = None /\ \A a \in Agents : ~Handles(a, j) /\ RunOf(j) \notin backlog[a]
      BY <1>0, <3>1 DEF ReplyOnce, HandlerOnce, BacklogOnce
    <3>4. NoEntry(j)' /\ reply'[j] = None /\ \A a \in Agents : ~Handles(a, j)'
      BY <2>1, <3>3 DEF NoEntry, Handles
    <3> QED BY <2>2, <3>2, <3>3, <3>4 DEF BacklogOnce, HandlerOnce, ReplyOnce
  <2> QED BY <2>3, <2>4
<1>6. ASSUME NEW a \in Agents, TakeRequest(a) PROVE Goal
  <2>1. PICK r \in backlog[a] :
          /\ backlog' = [backlog EXCEPT ![a] = @ \ {r}]
          /\ handler' = [handler EXCEPT ![a] =
                [request |-> r, todo |-> Names(a, r), ids |-> <<>>,
                 status |-> IF Names(a, r) = <<>> THEN 400 ELSE 200]]
    BY <1>6 DEF TakeRequest
  <2>2. handler[a] = None /\ UNCHANGED <<reply, registry>>
    BY <1>6 DEF TakeRequest
  <2>3. NoEntry(j) => NoEntry(j)'
    BY <2>2 DEF NoEntry
  <2>4. \A b \in Agents :
          /\ RunOf(j) \in backlog'[b] => RunOf(j) \in backlog[b]
          /\ b # a => handler'[b] = handler[b]
    BY <1>0, <2>1 DEF AgentTypes
  <2>5. /\ handler'[a].request = r /\ handler'[a].todo = Names(a, r)
        /\ handler'[a].todo # <<>> => handler'[a].status = 200
        /\ RunOf(j) \in backlog'[a] => r # RunOf(j)
    BY <1>0, <2>1 DEF AgentTypes
  <2>6. CASE r # RunOf(j)
    <3>1. \A b \in Agents : Handles(b, j)' => handler'[b] = handler[b]
      BY <2>4, <2>5, <2>6 DEF Handles
    <3> QED BY <2>2, <2>3, <2>4, <3>1, OnceFrame
  <2>7. CASE r = RunOf(j)
    <3>1. /\ Sent(j) /\ NoEntry(j) /\ reply[j] = None /\ a = AgentOf[j]
          /\ \A b \in Agents : ~Handles(b, j)
      BY <1>0, <2>7 DEF BacklogOnce
    <3>2. \A b \in Agents : RunOf(j) \notin backlog'[b]
      BY <1>0, <2>4, <2>5, <2>7, <3>1 DEF BacklogOnce
    <3>3. \A b \in Agents : Handles(b, j)' => b = a
      BY <2>4, <3>1 DEF Handles
    <3>4. Names(a, r) \in {<<>>, <<j>>}
      BY <1>0, <2>7, TakenUp DEF RunOf
    <3>5. Sent(j)' /\ NoEntry(j)' /\ reply'[j] = None
      BY <1>2, <2>2, <2>3, <3>1
    <3> QED BY <2>5, <3>1, <3>2, <3>3, <3>4, <3>5 DEF BacklogOnce, HandlerOnce, ReplyOnce
  <2> QED BY <2>6, <2>7
<1>7. ASSUME NEW a \in Agents, SubmitJob(a) PROVE Goal
  <2>1. UNCHANGED <<backlog, reply>> /\ \A b \in Agents \ {a} : handler'[b] = handler[b]
    BY <1>0, <1>7 DEF SubmitJob, AgentTypes
  <2>2. handler'[a].request = handler[a].request /\ handler[a] # None
    BY <1>0, <1>7, SubmitOutcome DEF SubmitJob
  <2>3. CASE ~Handles(a, j)
    <3>1. \A b \in Agents : Handles(b, j)' => handler'[b] = handler[b]
      BY <2>1, <2>2, <2>3 DEF Handles
    <3>2. \A b \in Agents : Handles(b, j) => ~SubmitJob(b)
      BY <1>0, <2>1, <2>3, SubmitChanges
    <3> QED BY <2>1, <3>1, <3>2, NoEntryStays, OnceFrame
  <2>4. CASE Handles(a, j)
    <3>1. /\ Sent(j) /\ reply[j] = None /\ a = AgentOf[j]
          /\ handler[a].todo = <<j>> /\ NoEntry(j)
      BY <1>0, <1>7, <2>4, SubmitOutcome DEF HandlerOnce
    <3>2. \A b \in Agents : RunOf(j) \notin backlog[b]
      BY <1>0, <2>4 DEF BacklogOnce
    <3>3. \A b \in Agents : Handles(b, j)' => b = a
      BY <1>0, <2>1, <3>1 DEF Handles, HandlerOnce
    <3>4. \/ UNCHANGED registry
          \/ /\ handler'[a] = Accepted(handler[a], issued + 1)
      BY <1>0, <1>7 DEF SubmitJob, AgentTypes
    <3>5. handler'[a].todo = <<>>
      <4>1. handler'[a].todo \in {<<>>, Tail(handler[a].todo)}
        BY <1>0, <1>7 DEF SubmitJob, Refused, Accepted, AgentTypes
      <4>2. Tail(<<j>>) = <<>>
        OBVIOUS
      <4> QED BY <3>1, <4>1, <4>2
    <3>6. handler'[a].status # 200 => NoEntry(j)'
      <4>1. CASE UNCHANGED registry
        BY <3>1, <4>1 DEF NoEntry
      <4>2. CASE handler'[a] = Accepted(handler[a], issued + 1)
        <5>1. handler[a].todo # <<>>
          BY <3>1
        <5>2. handler[a].status = 200
          BY <1>0, <2>4, <5>1 DEF HandlerOnce
        <5>3. handler'[a].status = 200
          BY <4>2, <5>2 DEF Accepted
        <5> QED BY <5>3
      <4> QED BY <3>4, <4>1, <4>2
    <3> QED BY <1>2, <2>1, <3>1, <3>2, <3>3, <3>5, <3>6 DEF BacklogOnce, HandlerOnce, ReplyOnce
  <2> QED BY <2>3, <2>4
<1>8. ASSUME NEW a \in Agents, Respond(a) PROVE Goal
  <2>1. /\ UNCHANGED <<backlog, registry>>
        /\ handler'[a] = None /\ \A b \in Agents \ {a} : handler'[b] = handler[b]
        /\ handler[a] # None /\ handler[a] \in Handler /\ handler[a].todo = <<>>
    BY <1>0, <1>8 DEF Respond, AgentTypes
  <2>2. NoEntry(j) => NoEntry(j)'
    BY <2>1 DEF NoEntry
  <2>3. \A b \in Agents : Handles(b, j)' => b # a /\ handler'[b] = handler[b]
    BY <2>1 DEF Handles
  <2>4. CASE ~Handles(a, j)
    <3>1. reply'[j] = reply[j]
      BY <1>0, <1>8, <2>1, <2>4 DEF Respond, AgentTypes, Handles, Handler, Requests, RunOf
    <3> QED BY <2>1, <2>2, <2>3, <3>1, OnceFrame
  <2>5. CASE Handles(a, j)
    <3>1. reply'[j] = [status |-> handler[a].status, ids |-> handler[a].ids]
      BY <1>0, <1>8, <2>5 DEF Respond, AgentTypes, Handles, RunOf
    <3>2. /\ Sent(j) /\ a = AgentOf[j]
          /\ handler[a].status # 200 => NoEntry(j)
          /\ \A b \in Agents : RunOf(j) \notin backlog[b]
      BY <1>0, <2>5 DEF HandlerOnce, BacklogOnce
    <3>3. \A b \in Agents : ~Handles(b, j)'
      BY <1>0, <2>3, <3>2 DEF Handles, HandlerOnce
    <3>4. reply'[j].status # 200 => NoEntry(j)'
      BY <2>2, <3>1, <3>2
    <3>5. BacklogOnce(j)' /\ HandlerOnce(j)'
      BY <2>1, <3>2, <3>3 DEF BacklogOnce, HandlerOnce
    <3>6. ReplyOnce(j)'
      BY <1>2, <3>2, <3>4 DEF ReplyOnce
    <3> QED BY <3>5, <3>6
  <2> QED BY <2>4, <2>5
<1>9. ASSUME NEW a \in Agents, Restart(a) PROVE Goal
  <2>1. /\ reply' = reply
        /\ \A b \in Agents : handler'[b] = handler[b] \/ handler'[b] = None
        /\ \A b \in Agents : backlog'[b] \subseteq backlog[b]
        /\ \A b \in Agents : registry'[b] = registry[b] \/ DOMAIN registry'[b] = {}
    BY <1>0, <1>9 DEF Restart, AgentTypes
  <2>2. NoEntry(j) => NoEntry(j)'
    BY <2>1 DEF NoEntry
  <2>3. \A b \in Agents : Handles(b, j)' => handler'[b] = handler[b]
    BY <2>1 DEF Handles
  <2> QED BY <2>1, <2>2, <2>3, OnceFrame
<1>10. ASSUME NEW a \in Agents, Push(a) \/ LoseRequest(a) PROVE Goal
  <2>1. UNCHANGED <<handler, reply>>
    BY <1>10 DEF Push, LoseRequest
  <2>2. RunOf(j) # [kind |-> "push", job |-> None]
    BY DEF RunOf
  <2>3. \A b \in Agents : RunOf(j) \in backlog'[b] => RunOf(j) \in backlog[b]
    BY <1>0, <1>10, <2>2 DEF Push, LoseRequest, AgentTypes
  <2> QED BY <1>3, <2>1, <2>3, OnceFrame
<1>11. CASE \/ DispatchAnswered \/ DispatchFails \/ Exit \/ UNCHANGED vars
            \/ \E k \in SelectedJobs :
                  \/ AskState(k) \/ PollReturns(k) \/ PollFails(k) \/ Deadline(k)
                  \/ Collect(k) \/ AnswerPoll(k)
  BY <1>4, <1>11 DEF DispatchAnswered, DispatchFails, Record, Exit, AskState, PollReturns,
     PollFails, Deadline, Collect, AnswerPoll, vars, agentVars
<1>12. ASSUME NEW a \in Agents, NEW id \in DOMAIN registry[a],
              StartJob(a, id) \/ \E s \in FinalStates : EndJob(a, id, s)
       PROVE  Goal
  BY <1>4, <1>12 DEF StartJob, EndJob, SetState
<1> QED
  BY <1>5, <1>6, <1>7, <1>8, <1>9, <1>10, <1>11, <1>12 DEF Next, Client, Agent

-------------------------------------------------------------------------------
LEMMA InvInit == Init => Inv
<1> SUFFICES ASSUME Init PROVE Inv
  OBVIOUS
<1>1. ClientTypes
  <2>1. next \in 1..(Len(Selected) + 1)
    BY Selection DEF Init
  <2>2. results \in Seq(Verdict)
    BY DEF Init
  <2> QED BY <2>1, <2>2 DEF Init, ClientTypes
<1>2. AgentTypes
  BY DEF Init, AgentTypes, Ids
<1>3. QueuesBounded
  <2>1. \A a \in Agents : Queued(a) = {}
    BY DEF Init, Queued
  <2>2. Cardinality({}) = 0 /\ 0 <= MaxQueue
    BY FS_EmptySet, RemoteDispatchAssumption
  <2>3. \A a \in Agents : Cardinality(Queued(a)) <= MaxQueue
    BY <2>1, <2>2
  <2> QED BY <2>3 DEF QueuesBounded
<1>4. ClientBooks
  BY Selection DEF Init, ClientBooks, AllSent, Reported
<1>5. IdsOwned /\ Truth
  BY DEF Init, IdsOwned, Truth, Handles
<1>6. Once /\ NoFalsePass
  BY Selection DEF Init, Once, Handles, NoEntry, NoFalsePass
<1> QED BY <1>1, <1>2, <1>3, <1>4, <1>5, <1>6 DEF Inv

LEMMA InvStep ==
    ASSUME Inv, [Next]_vars
    PROVE  Inv'
BY ClientTypesStep, AgentTypesStep, QueuesBoundedStep, ClientBooksStep, IdsOwnedStep,
   TruthStep, OnceStep, NoFalsePassStep DEF Inv

LEMMA Invariance == Spec => []Inv
BY InvInit, InvStep, PTL DEF Spec

(* The variables keep their types and no agent queues more than its limit, *)
(* whatever the clients and the pushes ask of it.                          *)
THEOREM TypeCorrect == Spec => []TypeOK
<1>1. Inv => TypeOK
  <2> SUFFICES ASSUME Inv PROVE TypeOK
    OBVIOUS
  <2>1. ClientTypes /\ AgentTypes /\ QueuesBounded /\ Truth
    BY DEF Inv
  <2>2. \A j \in SelectedJobs :
          verdict[j] \in {None, [job |-> j, state |-> "timeout"]} \cup Entry
    <3> TAKE j \in SelectedJobs
    <3>1. verdict[j] \in [job : SelectedJobs, state : {"timeout"}] /\ verdict[j] # None =>
            verdict[j] = [job |-> j, state |-> "timeout"]
      BY <2>1 DEF Truth
    <3> QED BY <2>1, <3>1 DEF ClientTypes
  <2>3. \A a \in Agents :
          /\ DOMAIN registry[a] \subseteq Ids
          /\ \A id \in DOMAIN registry[a] : registry[a][id] \in Entry
          /\ Cardinality(Queued(a)) <= MaxQueue
    BY <2>1 DEF AgentTypes, QueuesBounded
  <2> QED BY <2>1, <2>2, <2>3 DEF ClientTypes, AgentTypes, TypeOK
<1> QED BY <1>1, Invariance, PTL

(* cmd_run exits with 0 only after a run of its own of every selected job  *)
(* has ended with success, for any agents, losses, restarts and pushes.    *)
THEOREM ZeroMeansSuccess == Spec => []NoFalsePass
<1>1. Inv => NoFalsePass
  BY DEF Inv
<1> QED BY <1>1, Invariance, PTL

(* A dispatch an agent has answered with an error leaves no run behind.    *)
THEOREM RejectionsHold == Spec => []RejectedNeverRuns
<1>1. Inv => RejectedNeverRuns
  BY DEF Inv, Once, NoEntry, RejectedNeverRuns
<1> QED BY <1>1, Invariance, PTL

-------------------------------------------------------------------------------
(* An injection does not shrink.                                           *)
LEMMA NoMoreThan ==
    ASSUME NEW m \in Nat, NEW n \in Nat, NEW g \in [1..m -> 1..n],
           \A x, y \in 1..m : g[x] = g[y] => x = y
    PROVE  m <= n
<1>1. /\ IsFiniteSet(1..m) /\ Cardinality(1..m) = m
      /\ IsFiniteSet(1..n) /\ Cardinality(1..n) = n
  <2>1. m \in Int /\ n \in Int /\ 1 \in Int
    OBVIOUS
  <2>2. /\ IsFiniteSet(1..m) /\ Cardinality(1..m) = IF 1 > m THEN 0 ELSE m - 1 + 1
        /\ IsFiniteSet(1..n) /\ Cardinality(1..n) = IF 1 > n THEN 0 ELSE n - 1 + 1
    BY <2>1, FS_Interval
  <2> QED BY <2>2
<1>2. ASSUME ~(m <= n) PROVE FALSE
  <2>1. Cardinality(1..n) < Cardinality(1..m)
    BY <1>1, <1>2
  <2>2. \E x, y \in 1..m : x # y /\ g[x] = g[y]
    BY <1>1, <2>1, FS_PigeonHole
  <2> QED BY <2>2
<1> QED BY <1>2

LEMMA AllReported ==
    ASSUME Inv, exit # "none"
    PROVE  \A j \in SelectedJobs : Reported(j)
<1> TAKE j \in SelectedJobs
<1>1. AllSent /\ Collected = Dispatched /\ ClientBooks /\ ClientTypes
  BY DEF Inv, ClientBooks
<1>2. PICK n \in DOMAIN Selected : Selected[n] = j
  BY DEF SelectedJobs
<1>3. n < next
  BY <1>1, <1>2, Selection DEF AllSent, ClientTypes
<1>4. CASE ticket[j] # None
  BY <1>1, <1>4 DEF Collected, Dispatched
<1>5. CASE ticket[j] = None
  BY <1>1, <1>2, <1>3, <1>5 DEF ClientBooks, Reported
<1> QED BY <1>4, <1>5

LEMMA AsManyResults ==
    ASSUME Inv, exit # "none"
    PROVE  Len(results) = Len(Selected)
<1> DEFINE L == Len(Selected)
           R == Len(results)
           there == [n \in 1..L |-> CHOOSE m \in 1..R : results[m].job = Selected[n]]
           back  == [m \in 1..R |-> CHOOSE n \in 1..L : Selected[n] = results[m].job]
<1>1. /\ L \in Nat /\ DOMAIN Selected = 1..L
      /\ R \in Nat /\ DOMAIN results = 1..R
  BY Selection DEF Inv, ClientTypes
<1>2. \A m \in 1..R : results[m].job \in SelectedJobs
  BY <1>1 DEF Inv, ClientBooks
<1>3. \A m, n \in 1..R : results[m].job = results[n].job => m = n
  BY <1>1 DEF Inv, ClientBooks
<1>4. \A n \in 1..L : \E m \in 1..R : results[m].job = Selected[n]
  BY <1>1, AllReported, Selection DEF Reported
<1>5. \A m \in 1..R : \E n \in 1..L : Selected[n] = results[m].job
  BY <1>1, <1>2 DEF SelectedJobs
<1>6. \A m, n \in 1..L : Selected[m] = Selected[n] => m = n
  BY <1>1, Selection
<1> HIDE DEF L, R
<1>7. L <= R
  <2>1. \A n \in 1..L : there[n] \in 1..R /\ results[there[n]].job = Selected[n]
    BY <1>4
  <2>2. there \in [1..L -> 1..R]
    BY <2>1
  <2>3. \A x, y \in 1..L : there[x] = there[y] => x = y
    BY <1>6, <2>1
  <2> HIDE DEF there
  <2> QED BY <1>1, <2>2, <2>3, NoMoreThan
<1>8. R <= L
  <2>1. \A m \in 1..R : back[m] \in 1..L /\ Selected[back[m]] = results[m].job
    BY <1>5
  <2>2. back \in [1..R -> 1..L]
    BY <2>1
  <2>3. \A x, y \in 1..R : back[x] = back[y] => x = y
    BY <1>3, <2>1
  <2> HIDE DEF back
  <2> QED BY <1>1, <2>2, <2>3, NoMoreThan
<1>9. L = R
  BY <1>1, <1>7, <1>8
<1> QED BY <1>9 DEF L, R

(* The results of an ended command name each selected job once, and each   *)
(* success or failure among them is how the run with the job's ticket      *)
(* ended: no other run's result, and none from before a restart, is taken  *)
(* for it.                                                                 *)
THEOREM ResultsAreTrue == Spec => []ResultsTrue
<1>1. Inv => ResultsTrue
  <2> SUFFICES ASSUME Inv PROVE ResultsTrue
    OBVIOUS
  <2>1. ASSUME NEW n \in DOMAIN results, results[n].state \notin {"error", "timeout"}
        PROVE  \E f \in finished : /\ f.job = results[n].job /\ f.state = results[n].state
                                   /\ f.id = ticket[f.job]
    <3> DEFINE j == results[n].job
    <3>1. /\ j \in SelectedJobs /\ verdict[j] # None
          /\ results[n].state = verdict[j].state
      BY <2>1 DEF Inv, ClientBooks
    <3>2. Witnessed(j, results[n].state)
      BY <2>1, <3>1 DEF Inv, Truth
    <3> QED BY <3>2 DEF Witnessed
  <2> QED BY <2>1, AllReported, AsManyResults DEF ResultsTrue
<1> QED BY <1>1, Invariance, PTL
=================================================================================
