-------------------------- MODULE ServiceLifecycle --------------------------
(***************************************************************************)
(* The life of a process of the service examples, from main to exit: the   *)
(* steps of run.go in their order, a failing step that ends the process,   *)
(* the HTTP server that a goroutine starts, the termination signal and the *)
(* order in which actor system, store and server are stopped.  Each        *)
(* program is a script of steps, read off its run.go (or main.go).         *)
(***************************************************************************)
EXTENDS Sequences

CONSTANTS
  Procs,   \* the processes; a multi-datacenter program runs one in each
  Local    \* the process of a program that is not spread over datacenters

ASSUME LocalAssumption == Local \in Procs

VARIABLES
  program,  \* the example that is deployed
  mode,     \* mode[p]: "off", "starting", "serving" or "stopping"
  todo,     \* todo[p]: the steps p has still to take, starting or stopping
  store,    \* store[p]: the store of p is open
  system,   \* system[p]: the actor system of p is running
  server    \* server[p]: what has become of the HTTP server of p

lifecycleVars == <<program, mode, todo, store, system, server>>

MultiDC == {"multi-dc", "multi-dc-isolated"}

\* One program, whose --codec decides between the REST and the Connect face.
K8s == {"k8s", "k8s-proto"}

Modes == {"off", "starting", "serving", "stopping"}

\* "none": Start not called; "nil": Start called, s.server not yet assigned.
\* "aborted": listenAndServe gave up before it assigned s.server.
ServerStates == {"none", "nil", "aborted", "set", "up", "failed", "down"}

-----------------------------------------------------------------------------
(* The scripts: what run.go does before it waits for a signal, and after *)

\* Mutant of RunDnssd, and of RunTwoPC: the stop takes the order of the start.
StoreFirst ==
  [up |-> <<"config", "telemetry", "store", "system", "service">>,
   down |-> <<"store", "system", "service">>]

RunDnssd ==
  [up |-> <<"config", "telemetry", "store", "system", "service">>,
   down |-> <<"system", "store", "service">>]

RunK8s ==
  [up |-> <<"config", "store", "system", "telemetry", "service">>,
   down |-> <<"system", "store", "service">>]

RunEbpf ==
  [up |-> <<"config", "store", "system", "telemetry", "service">>,
   down |-> <<"system", "store", "service">>]

\* The dc-gateway singleton may exist already; only another error is fatal.
RunMultiDC ==
  [up |-> <<"config", "store", "system", "telemetry", "singleton", "service">>,
   down |-> <<"system", "store", "service">>]

RunIsolated ==
  [up |-> <<"config", "store", "system", "telemetry", "singleton", "service">>,
   down |-> <<"system", "store", "service">>]

RunGrainsDnssd ==
  [up |-> <<"config", "telemetry", "store", "system", "service">>,
   down |-> <<"system", "store", "service">>]

\* ActorSystem.Run starts the system and calls the two hooks, which start and
\* stop the service; it is library code, and either order is allowed for.
HookFirst ==
  [up |-> <<"config", "service", "system">>, down |-> <<"system", "service">>]

RunStatic ==
  [up |-> <<"config", "system", "service">>, down |-> <<"service", "system">>]

RunDynalloc ==
  [up |-> <<"config", "system", "service">>, down |-> <<"service", "system">>]

RunTwoPC ==
  [up |-> <<"config", "store", "telemetry", "system", "service">>,
   down |-> <<"system", "store", "service">>]

RunSaga ==
  [up |-> <<"config", "store", "telemetry", "system", "service">>,
   down |-> <<"system", "store", "service">>]

RunBlockchain ==
  [up |-> <<"config", "store", "system", "replica", "singleton", "service">>,
   down |-> <<"system", "store", "service">>]

\* QueryService.Start spawns the orchestrator before it creates the server.
RunAI ==
  [up |-> <<"config", "telemetry", "system", "orchestrator", "service">>,
   down |-> <<"system", "service">>]

\* The two programs without a server drive one account themselves, and close
\* the store before the system.
MainGrains ==
  [up |-> <<"store", "system", "activate", "create", "credit", "poison",
            "get">>,
   down |-> <<"store", "system">>]

MainPersistence ==
  [up |-> <<"store", "system", "activate", "create", "credit", "passivate",
            "activate", "get">>,
   down |-> <<"store", "system">>]

Scripts(a) ==
  CASE a = "dnssd"             -> {RunDnssd}
    [] a \in K8s               -> {RunK8s}
    [] a = "k8s-ebpf"          -> {RunEbpf}
    [] a = "multi-dc"          -> {RunMultiDC}
    [] a = "multi-dc-isolated" -> {RunIsolated}
    [] a = "grains-dnssd"      -> {RunGrainsDnssd}
    [] a = "static"            -> {RunStatic, HookFirst}
    [] a = "dynalloc"          -> {RunDynalloc, HookFirst}
    [] a = "2pc"               -> {RunTwoPC}
    [] a = "saga"              -> {RunSaga}
    [] a = "blockchain"        -> {RunBlockchain}
    [] a = "ai"                -> {RunAI}
    [] a = "goakt-grains"      -> {MainGrains}
    [] a = "goakt-persistence" -> {MainPersistence}

Programs ==
  MultiDC \cup K8s \cup
  {"dnssd", "k8s-ebpf", "grains-dnssd", "static", "dynalloc", "2pc",
   "saga", "blockchain", "ai", "goakt-grains", "goakt-persistence"}

\* Programs whose actor system has a store among its extensions.
Stored == Programs \ {"static", "dynalloc", "ai"}

-----------------------------------------------------------------------------
(* Telemetry: what a failing exporter does to the process *)

InitTracerDnssd == {"provider", "panic"}

InitTracerGrains == {"provider", "panic"}

InitTracerK8s == {"provider", "disabled"}

InitTracerEbpf == {"provider", "disabled"}

InitTracerMultiDC == {"provider", "disabled"}

InitTracerIsolated == {"provider", "disabled"}

InitTracerTwoPC == {"provider", "disabled"}

InitTracerSaga == {"provider", "disabled"}

InitTracerAI == {"provider", "disabled"}

InitTracer ==
  CASE program = "dnssd"             -> InitTracerDnssd
    [] program = "grains-dnssd"      -> InitTracerGrains
    [] program \in K8s               -> InitTracerK8s
    [] program = "k8s-ebpf"          -> InitTracerEbpf
    [] program = "multi-dc"          -> InitTracerMultiDC
    [] program = "multi-dc-isolated" -> InitTracerIsolated
    [] program = "2pc"               -> InitTracerTwoPC
    [] program = "saga"              -> InitTracerSaga
    [] program = "ai"                -> InitTracerAI

\* Every failing step but Start of the service ends the process; a tracer that
\* cannot be created does so only where initTracer panics.
Fatal(s) ==
  /\ s # "service"
  /\ s = "telemetry" => "panic" \in InitTracer

-----------------------------------------------------------------------------
(* Steps of a process *)

Deployed == IF program \in MultiDC THEN Procs ELSE {Local}

LifecycleInit ==
  /\ program \in Programs
  /\ mode = [p \in Procs |-> "off"]
  /\ todo = [p \in Procs |-> <<>>]
  /\ store = [p \in Procs |-> FALSE]
  /\ system = [p \in Procs |-> FALSE]
  /\ server = [p \in Procs |-> "none"]

\* What is left of a process that returns from main, panics or is killed.
Exited(p) ==
  /\ mode' = [mode EXCEPT ![p] = "off"]
  /\ todo' = [todo EXCEPT ![p] = <<>>]
  /\ store' = [store EXCEPT ![p] = FALSE]
  /\ system' = [system EXCEPT ![p] = FALSE]
  /\ server' = [server EXCEPT ![p] = "none"]
  /\ UNCHANGED program

Boot(p) ==
  /\ mode[p] = "off"
  /\ \E r \in Scripts(program) : todo' = [todo EXCEPT ![p] = r.up]
  /\ mode' = [mode EXCEPT ![p] = "starting"]
  /\ UNCHANGED <<program, store, system, server>>

\* The next step of the start succeeds.
StepUp(p) ==
  LET s == Head(todo[p]) IN
  /\ mode[p] = "starting"
  /\ todo' = [todo EXCEPT ![p] = Tail(@)]
  /\ mode' = [mode EXCEPT ![p] = IF Tail(todo[p]) = <<>> THEN "serving" ELSE @]
  /\ store' = [store EXCEPT ![p] = @ \/ s = "store"]
  /\ system' = [system EXCEPT ![p] = @ \/ s = "system"]
  /\ server' = [server EXCEPT ![p] =
                  IF s # "service" THEN @
                  ELSE IF program = "ai" THEN "set" ELSE "nil"]
  /\ UNCHANGED program

StepFails(p) ==
  /\ mode[p] = "starting"
  /\ Fatal(Head(todo[p]))
  /\ Exited(p)

\* SIGINT or SIGTERM, once run.go waits for it.
Signal(p) ==
  /\ mode[p] = "serving"
  /\ mode' = [mode EXCEPT ![p] = "stopping"]
  /\ \E r \in Scripts(program) : todo' = [todo EXCEPT ![p] = r.down]
  /\ UNCHANGED <<program, store, system, server>>

\* Stop of a service whose goroutine has not assigned s.server dereferences
\* nil, and the panic ends the process.
StopPanics(p) ==
  Head(todo[p]) = "service" /\ server[p] \in {"nil", "aborted"}

StepDown(p) ==
  LET s == Head(todo[p]) IN
  /\ mode[p] = "stopping"
  /\ IF Tail(todo[p]) = <<>> \/ StopPanics(p)
     THEN Exited(p)
     ELSE /\ todo' = [todo EXCEPT ![p] = Tail(@)]
          /\ store' = [store EXCEPT ![p] = @ /\ s # "store"]
          /\ system' = [system EXCEPT ![p] = @ /\ s # "system"]
          /\ server' = [server EXCEPT ![p] = IF s = "service" THEN "down" ELSE @]
          /\ UNCHANGED <<program, mode>>

\* Only grains-dnssd treats an error of a stop as fatal; the others log it.
StepDownFatal(p) ==
  /\ mode[p] = "stopping"
  /\ program = "grains-dnssd"
  /\ Exited(p)

Kill(p) ==
  /\ mode[p] # "off"
  /\ Exited(p)

-----------------------------------------------------------------------------
(* listenAndServe, in the goroutine that Start spawned *)

Listening(p) == mode[p] # "off" /\ server[p] \in {"nil", "set"}

Serve(p, outcome) ==
  /\ server' = [server EXCEPT ![p] = outcome]
  /\ UNCHANGED <<program, mode, todo, store, system>>

\* A server that cannot listen is logged, and the process goes on without it.
ServeOrLog(p) == Serve(p, "up") \/ Serve(p, "failed")

\* Here a server that cannot listen is an os.Exit.
ServeOrExit(p) == Serve(p, "up") \/ Exited(p)

\* Without its otel interceptor listenAndServe returns at once.
ServeOrAbort(p) == ServeOrLog(p) \/ Serve(p, "aborted")

ListenDnssd(p) == ServeOrAbort(p)

ListenHTTP(p) == ServeOrLog(p)

ListenProto(p) == ServeOrLog(p)

ListenK8s(p) == IF program = "k8s-proto" THEN ListenProto(p) ELSE ListenHTTP(p)

ListenEbpf(p) == ServeOrLog(p)

ListenMultiDC(p) == ServeOrLog(p)

ListenIsolated(p) == ServeOrLog(p)

ListenGrains(p) == ServeOrAbort(p)

ListenTwoPC(p) == ServeOrLog(p)

ListenSaga(p) == ServeOrLog(p)

ListenBlockchain(p) == ServeOrLog(p)

ListenAI(p) == ServeOrLog(p)

ListenStatic(p) == ServeOrExit(p)

ListenDynalloc(p) == ServeOrExit(p)

Listen(p) ==
  /\ Listening(p)
  /\ CASE program = "dnssd"             -> ListenDnssd(p)
       [] program \in K8s               -> ListenK8s(p)
       [] program = "k8s-ebpf"          -> ListenEbpf(p)
       [] program = "multi-dc"          -> ListenMultiDC(p)
       [] program = "multi-dc-isolated" -> ListenIsolated(p)
       [] program = "grains-dnssd"      -> ListenGrains(p)
       [] program = "static"            -> ListenStatic(p)
       [] program = "dynalloc"          -> ListenDynalloc(p)
       [] program = "2pc"               -> ListenTwoPC(p)
       [] program = "saga"              -> ListenSaga(p)
       [] program = "blockchain"        -> ListenBlockchain(p)
       [] program = "ai"                -> ListenAI(p)

LifecycleTypeOK ==
  /\ program \in Programs
  /\ mode \in [Procs -> Modes]
  /\ store \in [Procs -> BOOLEAN]
  /\ system \in [Procs -> BOOLEAN]
  /\ server \in [Procs -> ServerStates]
  /\ \A p \in Procs : mode[p] \in {"starting", "stopping"} <=> todo[p] # <<>>

=============================================================================
