---------------------------- MODULE AgentQueries ----------------------------
(***************************************************************************)
(* goakt-ai: the query service and the orchestrator of each pod, and the   *)
(* specialized agents, of which there is one of each kind in the cluster.  *)
(*                                                                         *)
(* An orchestrator handles one query at a time and is blocked while it     *)
(* asks an agent.  What a language model answers is left open: a result or *)
(* an error.  Which kind of agent a query is for is open, too.  An agent   *)
(* for which no client could be made, because a key is missing, answers    *)
(* with a fixed text instead, and that counts as a result.                 *)
(***************************************************************************)
EXTENDS Integers, Sequences

CONSTANTS
  Pods, Queries,
  AgentKinds,  \* kindResearch, kindSummarizer, kindTool
  kindTool,    \* the agent that calculates
  None

VARIABLES
  \* QueryService
  answer,    \* query -> what its client hears: "none" yet, or an outcome
  pod,       \* query -> the pod it was sent to, or None
  \* OrchestratorAgent
  mailbox,   \* pod -> queries that wait
  handling,  \* pod -> the query it handles, or None
  step,      \* pod -> where in handleSubmitQuery: "locate", "spawn", "ask", "direct"
  kind,      \* pod -> the kind of agent for it
  retrying,  \* pod -> the first Ask has failed
  \* the cluster
  configured,  \* the pods whose agents have a client for a language model
  registry,  \* kind -> the pod that is said to have the agent, or None
  agent,     \* kind -> the pod that has it, or None
  requests,  \* kind -> ProcessQuery messages the agent has to handle
  \* history variables
  processed, \* query -> how often it was worked on
  outcomes,  \* query -> what came of that
  disturbed, \* query -> something failed while it was under way
  fault      \* a failure has happened.  Bound: one
orchestratorVars == <<mailbox, handling, step, kind, retrying>>
clusterVars == <<configured, registry, agent, requests>>
vars == <<answer, pod, orchestratorVars, clusterVars, processed, outcomes, disturbed,
          fault>>

\* A result is of a model, of the calculator, or the text of an agent without a
\* client.
Results == {"model", "tool", "canned"}
Outcomes == Results \cup {"error"}

Init ==
  /\ answer = [q \in Queries |-> "none"]
  /\ pod = [q \in Queries |-> None]
  /\ mailbox = [p \in Pods |-> <<>>]
  /\ handling = [p \in Pods |-> None]
  /\ step = [p \in Pods |-> "none"]
  /\ kind = [p \in Pods |-> None]
  /\ retrying = [p \in Pods |-> FALSE]
  /\ configured \in SUBSET Pods
  /\ registry = [k \in AgentKinds |-> None]
  /\ agent = [k \in AgentKinds |-> None]
  /\ requests = [k \in AgentKinds |-> {}]
  /\ processed = [q \in Queries |-> 0]
  /\ outcomes = [q \in Queries |-> {}]
  /\ disturbed = [q \in Queries |-> FALSE]
  /\ fault = FALSE

UnderWay == {q \in Queries : pod[q] # None /\ answer[q] = "none"}

\* A failure, which all queries that are under way may feel.
Fault ==
  /\ ~fault
  /\ fault' = TRUE
  /\ disturbed' = [q \in Queries |-> disturbed[q] \/ q \in UnderWay]

-----------------------------------------------------------------------------
(* The service *)

\* handleQuery: Ask.
Submit(q, p) ==
  /\ pod[q] = None
  /\ pod' = [pod EXCEPT ![q] = p]
  /\ mailbox' = [mailbox EXCEPT ![p] = Append(@, q)]
  /\ UNCHANGED <<answer, handling, step, kind, retrying, clusterVars, processed, outcomes,
                 disturbed, fault>>

\* Its Ask times out, which the orchestrator does not know: because of a failure,
\* of this query or of the one before it.
GiveUp(q) ==
  /\ q \in UnderWay
  /\ \/ Fault
     \/ /\ \E r \in {q, handling[pod[q]]} \ {None} : disturbed[r]
        /\ disturbed' = [disturbed EXCEPT ![q] = TRUE]
        /\ UNCHANGED fault
  /\ answer' = [answer EXCEPT ![q] = "error"]
  /\ UNCHANGED <<pod, orchestratorVars, clusterVars, processed, outcomes>>

-----------------------------------------------------------------------------
(* The orchestrator *)

\* handleSubmitQuery begins: selectAgentKind.
Receive(p) ==
  /\ handling[p] = None
  /\ mailbox[p] # <<>>
  /\ handling' = [handling EXCEPT ![p] = Head(mailbox[p])]
  /\ mailbox' = [mailbox EXCEPT ![p] = Tail(@)]
  /\ \E k \in AgentKinds : kind' = [kind EXCEPT ![p] = k]
  /\ step' = [step EXCEPT ![p] = "locate"]
  /\ UNCHANGED <<answer, pod, retrying, clusterVars, processed, outcomes, disturbed, fault>>

\* The Ask: a request that is sent to an agent which is gone is lost.
Request(p) == [query |-> handling[p], pod |-> p, retry |-> retrying[p]]
SendTo(k, p) ==
  requests' = IF agent'[k] = None THEN requests
              ELSE [requests EXCEPT ![k] = @ \cup {Request(p)}]

\* getOrSpawnAgent: ActorOf, which may find an agent that is gone.
Locate(p) ==
  /\ step[p] = "locate"
  /\ UNCHANGED agent
  /\ IF registry[kind[p]] = None
     THEN step' = [step EXCEPT ![p] = "spawn"] /\ UNCHANGED requests
     ELSE step' = [step EXCEPT ![p] = "ask"] /\ SendTo(kind[p], p)
  /\ disturbed' = [disturbed EXCEPT ![handling[p]] =
                     @ \/ (registry[kind[p]] # None /\ agent[kind[p]] = None)]
  /\ UNCHANGED <<answer, pod, mailbox, handling, kind, retrying, configured, registry,
                 processed, outcomes, fault>>

\* Response, if the client still waits, and the next message.
Respond(p, what) ==
  LET q == handling[p] IN
  /\ answer' = IF answer[q] = "none" THEN [answer EXCEPT ![q] = what] ELSE answer
  /\ handling' = [handling EXCEPT ![p] = None]
  /\ step' = [step EXCEPT ![p] = "none"]
  /\ kind' = [kind EXCEPT ![p] = None]
  /\ retrying' = [retrying EXCEPT ![p] = FALSE]
  /\ UNCHANGED <<pod, mailbox>>

\* getOrSpawnAgent: Spawn.
SpawnAgent(p) ==
  /\ step[p] = "spawn"
  /\ registry[kind[p]] = None
  /\ registry' = [registry EXCEPT ![kind[p]] = p]
  /\ agent' = [agent EXCEPT ![kind[p]] = p]
  /\ step' = [step EXCEPT ![p] = "ask"]
  /\ SendTo(kind[p], p)
  /\ UNCHANGED <<answer, pod, mailbox, handling, kind, retrying, configured, processed, outcomes,
                 disturbed, fault>>

\* Mutant of SpawnRefused: the error is the answer.
SpawnRefusedAnswers(p) ==
  /\ step[p] = "spawn"
  /\ registry[kind[p]] # None
  /\ Respond(p, "error")
  /\ UNCHANGED <<clusterVars, processed, outcomes, disturbed, fault>>

\* Spawn fails because another pod was faster: the orchestrator asks the model
\* itself, but for the second time it reports the error of the first Ask.
SpawnRefused(p) ==
  /\ step[p] = "spawn"
  /\ registry[kind[p]] # None
  /\ IF retrying[p]
     THEN Respond(p, "error")
     ELSE /\ step' = [step EXCEPT ![p] = "direct"]
          /\ UNCHANGED <<answer, pod, mailbox, handling, kind, retrying>>
  /\ UNCHANGED <<clusterVars, processed, outcomes, disturbed, fault>>

\* initLLMClient and completeWithLLM on a pod.
Completions(p) == IF p \in configured THEN {"model", "error"} ELSE {"canned"}

Process(q, outcome) ==
  /\ processed' = [processed EXCEPT ![q] = @ + 1]
  /\ outcomes' = [outcomes EXCEPT ![q] = @ \cup {outcome}]

Direct(p) ==
  /\ step[p] = "direct"
  /\ \E outcome \in Completions(p) :
       Process(handling[p], outcome) /\ Respond(p, outcome)
  /\ UNCHANGED <<clusterVars, disturbed, fault>>

\* Mutant of AskFails: it is tried again for ever.
AskFailsAgain(p) ==
  /\ step[p] = "ask"
  /\ step' = [step EXCEPT ![p] = "locate"]
  /\ retrying' = [retrying EXCEPT ![p] = TRUE]
  /\ \/ Fault
     \/ Request(p) \notin requests[kind[p]] /\ UNCHANGED <<disturbed, fault>>
  /\ UNCHANGED <<answer, pod, mailbox, handling, kind, clusterVars, processed, outcomes>>

\* The Ask fails: the agent is gone, or the answer is late.  It is tried once
\* more with a fresh reference.
AskFails(p) ==
  /\ step[p] = "ask"
  /\ IF retrying[p]
     THEN Respond(p, "error")
     ELSE /\ step' = [step EXCEPT ![p] = "locate"]
          /\ retrying' = [retrying EXCEPT ![p] = TRUE]
          /\ UNCHANGED <<answer, pod, mailbox, handling, kind>>
  /\ \/ Fault
     \/ Request(p) \notin requests[kind[p]] /\ UNCHANGED <<disturbed, fault>>
  /\ UNCHANGED <<clusterVars, processed, outcomes>>

-----------------------------------------------------------------------------
(* The agents *)

\* tryMath knows some of the queries for the calculator.
Answers(k) == Completions(agent[k]) \cup (IF k = kindTool THEN {"tool"} ELSE {})

\* handleProcessQuery: a request is worked on even if nobody waits any more.
AgentAnswers(k, r) ==
  /\ agent[k] # None /\ r \in requests[k]
  /\ requests' = [requests EXCEPT ![k] = @ \ {r}]
  /\ \E outcome \in Answers(k) :
       /\ Process(r.query, outcome)
       /\ IF step[r.pod] = "ask" /\ r = Request(r.pod)
          THEN Respond(r.pod, outcome)
          ELSE UNCHANGED <<answer, pod, orchestratorVars>>
  /\ UNCHANGED <<configured, registry, agent, disturbed, fault>>

\* A pod dies with its agents, its orchestrator and its clients' connections;
\* another one starts in its place.  The registry learns of it later.
CrashPod(p) ==
  LET lost == {k \in AgentKinds : agent[k] = p}
      here == {q \in UnderWay : pod[q] = p}
  IN
  /\ Fault
  /\ agent' = [k \in AgentKinds |-> IF k \in lost THEN None ELSE agent[k]]
  /\ requests' = [k \in AgentKinds |-> IF k \in lost THEN {} ELSE requests[k]]
  /\ answer' = [q \in Queries |-> IF q \in here THEN "error" ELSE answer[q]]
  /\ mailbox' = [mailbox EXCEPT ![p] = <<>>]
  /\ handling' = [handling EXCEPT ![p] = None]
  /\ step' = [step EXCEPT ![p] = "none"]
  /\ kind' = [kind EXCEPT ![p] = None]
  /\ retrying' = [retrying EXCEPT ![p] = FALSE]
  /\ UNCHANGED <<pod, configured, registry, processed, outcomes>>

\* The registry forgets an agent that is gone.
Forget(k) ==
  /\ registry[k] # None
  /\ agent[k] = None
  /\ registry' = [registry EXCEPT ![k] = None]
  /\ UNCHANGED <<answer, pod, orchestratorVars, configured, agent, requests, processed,
                 outcomes, disturbed, fault>>

\* A pod leaves in good order and its agents move to another one.
Relocate(k, p) ==
  /\ agent[k] \notin {None, p}
  /\ Fault
  /\ agent' = [agent EXCEPT ![k] = p]
  /\ registry' = [registry EXCEPT ![k] = p]
  /\ requests' = [requests EXCEPT ![k] = {}]
  /\ UNCHANGED <<answer, pod, orchestratorVars, configured, processed, outcomes>>

Next ==
  \/ \E q \in Queries : GiveUp(q) \/ \E p \in Pods : Submit(q, p)
  \/ \E p \in Pods :
       \/ Receive(p) \/ Locate(p) \/ SpawnAgent(p) \/ SpawnRefused(p) \/ Direct(p)
       \/ AskFails(p) \/ CrashPod(p)
  \/ \E k \in AgentKinds :
       \/ \E r \in requests[k] : AgentAnswers(k, r)
       \/ Forget(k)
       \/ \E p \in Pods : Relocate(k, p)

\* An orchestrator goes on, an Ask ends with its timeout if not with an answer,
\* and so does a call of a model.
Fairness ==
  \A p \in Pods :
    WF_vars(\/ Receive(p) \/ Locate(p) \/ SpawnAgent(p) \/ SpawnRefused(p) \/ Direct(p)
            \/ AskFails(p) \/ \E k \in AgentKinds : AgentAnswers(k, Request(p)))

Spec == Init /\ [][Next]_vars /\ Fairness

-----------------------------------------------------------------------------
(* Properties *)

\* A query that nothing happened to is worked on exactly once, and fails only if
\* its model refuses it: also when two pods spawn the same agent at the same
\* time, and for the queries after a crash as soon as the registry has forgotten
\* the agents that were lost.  No query is worked on more than twice, and its
\* client is told what came of that and nothing else (handleSubmitQuery,
\* getOrSpawnAgent).  Only where every pod has a client for a model is no result
\* the fixed text of an agent without one (completeWithLLM).
QueriesAnswered ==
  \A q \in Queries :
    /\ answer[q] = "error" => disturbed[q] \/ "error" \in outcomes[q]
    /\ answer[q] \in Results => answer[q] \in outcomes[q]
    /\ answer[q] # "none" /\ ~disturbed[q] => processed[q] = 1
    /\ processed[q] <= 2
    /\ configured = Pods => answer[q] # "canned"

\* Whoever submits a query hears of it, from the orchestrator or because its pod
\* died: agents that are gone, late or registered for ever do not keep an
\* orchestrator, which handles one query at a time, from the next query
\* (handleSubmitQuery).
EveryQueryEnds ==
  \A q \in Queries : pod[q] # None ~> answer[q] # "none"
=============================================================================
