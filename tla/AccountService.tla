--------------------------- MODULE AccountService ---------------------------
(***************************************************************************)
(* The account examples: an HTTP or RPC service in front of one account    *)
(* actor (or grain) per datacenter, which loads its balance when it starts *)
(* and writes it when it stops.  The examples differ in the entity, in the *)
(* store, in where an account is looked up and in how an error is          *)
(* answered; `program` (ServiceLifecycle) says which of them is deployed.  *)
(* An account is opened with Opening units (Money), and a credit adds one; *)
(* that clients may give other amounts is a subject of Saga.               *)
(***************************************************************************)
EXTENDS ServiceLifecycle, Money, FiniteSets

CONSTANTS
  Clients,     \* the clients, each with one request at a time
  DCClients,   \* bound: those of them that a multi-datacenter program has
  Opening,     \* the opening balance of a CreateAccount
  Cent,        \* the units in a cent
  MaxBalance   \* bound: no credit is asked for beyond this balance

ASSUME AmountsAssumption ==
  /\ Opening \in Nat \ {0} /\ Cent \in Nat \ {0}
  /\ MaxBalance \in {Cent * n : n \in 0..MaxBalance} /\ Opening < MaxBalance

VARIABLES
  acct,    \* acct[p]: the account actor in the datacenter of p
  row,     \* row[p]: the account's row in the database of that datacenter
  client,  \* client[c]: the request of c
  told     \* told[p]: the balance last reported, since the account counts as created

accountVars == <<acct, row, client, told>>
vars == <<program, mode, todo, store, system, server, acct, row, client, told>>

\* Programs whose actors write to PostgreSQL; the transfers between the
\* accounts of Transfers are in modules of their own.
Transfers == {"2pc", "saga"}
PostgresActors == {"dnssd", "k8s-ebpf"} \cup K8s \cup MultiDC \cup Transfers
MemoryPrograms == {"goakt-grains", "goakt-persistence"}

\* Programs that stop their actor system before their store.
Nested == Stored \ MemoryPrograms

NoActor == [up |-> FALSE, balance |-> 0, created |-> FALSE, named |-> FALSE]
NoRow == [stored |-> FALSE, balance |-> 0, created |-> FALSE]
Idle == [pc |-> "idle", kind |-> "none", family |-> "none",
         front |-> Local, at |-> Local, code |-> "none"]

Init ==
  /\ LifecycleInit
  /\ acct = [p \in Procs |-> NoActor]
  /\ row = [p \in Procs |-> NoRow]
  /\ client = [c \in Clients |-> Idle]
  /\ told = [p \in Procs |-> 0]

-----------------------------------------------------------------------------
(* Stores *)

NewAccount(balance, created) ==
  [up |-> TRUE, balance |-> balance, created |-> created, named |-> TRUE]

DnssdGetState(r) == NewAccount(r.balance, r.created)

K8sGetState(r) == DnssdGetState(r)

EbpfGetState(r) == DnssdGetState(r)

MultiDCGetState(r) == DnssdGetState(r)

IsolatedGetState(r) == DnssdGetState(r)

TwoPCGetAccountState(r) == DnssdGetState(r)

SagaGetAccountState(r) == DnssdGetState(r)

Stores(balance, created) ==
  [stored |-> TRUE, balance |-> balance, created |-> created]

\* The upsert writes the balance, of which numeric(19, 2) keeps the cents; the
\* column created_at defaults to NOW(), so whatever has a row is created.
DnssdWriteState(r, a) == Stores(ToNumeric(a.balance, Cent), TRUE)

K8sWriteState(r, a) == DnssdWriteState(r, a)

EbpfWriteState(r, a) == DnssdWriteState(r, a)

MultiDCWriteState(r, a) == DnssdWriteState(r, a)

IsolatedWriteState(r, a) == DnssdWriteState(r, a)

\* Here the first write fixes created_at, and the later ones leave it alone.
TwoPCWriteAccountState(r, a) ==
  Stores(ToNumeric(a.balance, Cent), IF r.stored THEN r.created ELSE a.created)

SagaWriteAccountState(r, a) ==
  Stores(ToNumeric(a.balance, Cent), IF r.stored THEN r.created ELSE a.created)

\* A query without a row leaves the empty account it was to scan into, which
\* has no accountID, and the grain takes that one for its state ...
GrainGetState(r) == [NewAccount(r.balance, FALSE) EXCEPT !.named = r.stored]

\* ... so what the transaction deletes and inserts is a row without a name.
GrainWriteState(r, a) ==
  IF a.named THEN Stores(ToNumeric(a.balance, Cent), FALSE) ELSE r

\* The two stores in memory: an unknown key is an empty account.
GrainsGetLatestState(r) == NewAccount(r.balance, FALSE)

PersistenceGetLatestState(r) == NewAccount(r.balance, FALSE)

MemoryWriteState(r, a) == Stores(a.balance, FALSE)

PersistenceWriteState(r, a) == Stores(a.balance, FALSE)

\* Disconnect deletes every entry.
Disconnect(r) == NoRow

\* What the actor of p starts from: PreStart, or OnActivate of a grain.
PreStart(r) ==
  CASE program = "dnssd"             -> DnssdGetState(r)
    [] program \in K8s               -> K8sGetState(r)
    [] program = "k8s-ebpf"          -> EbpfGetState(r)
    [] program = "multi-dc"          -> MultiDCGetState(r)
    [] program = "multi-dc-isolated" -> IsolatedGetState(r)
    [] program = "2pc"               -> TwoPCGetAccountState(r)
    [] program = "saga"              -> SagaGetAccountState(r)
    [] program = "grains-dnssd"      -> GrainGetState(r)
    [] program = "goakt-grains"      -> GrainsGetLatestState(r)
    [] program = "goakt-persistence" -> PersistenceGetLatestState(r)
    [] OTHER                         -> NewAccount(0, FALSE)

\* What its PostStop, or OnDeactivate, writes.
PostStop(r, a) ==
  CASE program = "dnssd"             -> DnssdWriteState(r, a)
    [] program \in K8s               -> K8sWriteState(r, a)
    [] program = "k8s-ebpf"          -> EbpfWriteState(r, a)
    [] program = "multi-dc"          -> MultiDCWriteState(r, a)
    [] program = "multi-dc-isolated" -> IsolatedWriteState(r, a)
    [] program = "2pc"               -> TwoPCWriteAccountState(r, a)
    [] program = "saga"              -> SagaWriteAccountState(r, a)
    [] program = "grains-dnssd"      -> GrainWriteState(r, a)
    [] program = "goakt-grains"      -> MemoryWriteState(r, a)
    [] program = "goakt-persistence" -> PersistenceWriteState(r, a)
    [] OTHER                         -> r

-----------------------------------------------------------------------------
(* Receive of the entities: the new state and the reply *)

Replies(a, reply) == [acct |-> a, reply |-> reply]

Credited(a) == [a EXCEPT !.balance = @ + 1]

DnssdReceive(a, kind) ==
  CASE kind = "create" /\ a.created -> Replies(a, "account")
    [] kind = "create" /\ ~a.created ->
         Replies([a EXCEPT !.balance = Opening, !.created = TRUE], "account")
    [] kind = "credit" -> Replies(Credited(a), "account")
    [] kind = "get" -> Replies(a, "account")

EbpfReceive(a, kind) == DnssdReceive(a, kind)

MultiDCReceive(a, kind) == DnssdReceive(a, kind)

IsolatedReceive(a, kind) == DnssdReceive(a, kind)

\* CreditAccount is sent by the service and Unhandled by this entity.
TwoPCReceive(a, kind) ==
  IF kind = "credit" THEN Replies(a, "none") ELSE DnssdReceive(a, kind)

SagaReceive(a, kind) == DnssdReceive(a, kind)

\* Codec.Encode: the family of types a message travels in.
Encode(codec) == IF codec = "proto" THEN "samplepb" ELSE "messages"

\* wire.Decode: the codec a message arrived in.
Decode(family) == IF family = "samplepb" THEN "proto" ELSE "cbor"

\* toAccount: the reply, in either family, is narrowed to an account.
ToAccount(family) ==
  IF Decode(family) \in {"cbor", "proto"} THEN "account" ELSE "other"

K8sReceive(a, kind, family) ==
  Replies(DnssdReceive(a, kind).acct, ToAccount(Encode(Decode(family))))

\* Created already: no response at all.
StaticReceive(a, kind) ==
  IF kind = "create" /\ a.created THEN Replies(a, "none")
  ELSE DnssdReceive(a, kind)

DynallocReceive(a, kind) == StaticReceive(a, kind)

\* Created already: NoErr, a reply that is not an account.
GrainReceive(a, kind) ==
  IF kind = "create" /\ a.created THEN Replies(a, "other")
  ELSE DnssdReceive(a, kind)

\* `created` is never set: CreateAccount adds to the balance every time.
GrainsOnReceive(a, kind) ==
  Replies([a EXCEPT !.balance = CASE kind = "create" -> @ + Opening
                                  [] kind = "credit" -> @ + 1
                                  [] kind = "get"    -> @], "account")

PersistenceReceive(a, kind) == GrainsOnReceive(a, kind)

Receive(a, kind, family) ==
  CASE program = "dnssd"             -> DnssdReceive(a, kind)
    [] program \in K8s               -> K8sReceive(a, kind, family)
    [] program = "k8s-ebpf"          -> EbpfReceive(a, kind)
    [] program = "multi-dc"          -> MultiDCReceive(a, kind)
    [] program = "multi-dc-isolated" -> IsolatedReceive(a, kind)
    [] program = "2pc"               -> TwoPCReceive(a, kind)
    [] program = "saga"              -> SagaReceive(a, kind)
    [] program = "static"            -> StaticReceive(a, kind)
    [] program = "dynalloc"          -> DynallocReceive(a, kind)
    [] program = "grains-dnssd"      -> GrainReceive(a, kind)
    [] program = "goakt-grains"      -> GrainsOnReceive(a, kind)
    [] program = "goakt-persistence" -> PersistenceReceive(a, kind)

-----------------------------------------------------------------------------
(* What the service calls of the actor system *)

Codes == {"ok", "badrequest", "notfound", "internal", "unknown", "error"}

\* The errors of the actor system.  An Ask whose message was delivered fails by its
\* timeout, or because the connection does.
Errors == {"ErrActorNotFound", "ErrRequestTimeout", "ErrOther"}
Failures == {"ErrRequestTimeout", "ErrOther"}

\* Mutant of isNotFound: whatever goes wrong, there is no such account.
AnyError(err) == TRUE

isNotFound(err) == err = "ErrActorNotFound"

Classified ==
  [err \in Errors |-> IF isNotFound(err) THEN "notfound" ELSE "internal"]

Always(code) == [err \in Errors |-> code]

\* How a handler answers an error of its first call (Spawn, GrainOf, ActorOf),
\* and of Ask.  Here both calls share one return.
connectError == [find |-> Classified, ask |-> Classified]

\* The handlers that look at the error of ActorOf only.
LookupError == [find |-> Classified, ask |-> Always("internal")]

InternalError == [find |-> Always("internal"), ask |-> Always("internal")]

\* A Connect handler that returns a bare error answers CodeUnknown.
SpawnError == [find |-> Always("unknown"), ask |-> Always("internal")]

\* Both branches of the lookup's error are CodeNotFound.
StaticError == [find |-> Always("notfound"), ask |-> Always("internal")]

\* Whatever goes wrong, the empty account that the gateway answers with then
\* included, is "account not found".
GatewayError == [find |-> Always("notfound"), ask |-> Always("notfound")]

\* An answer ends the request; it is not remembered.
Answer(c, code) == code \in Codes /\ client' = [client EXCEPT ![c] = Idle]

\* An HTTP request reaches the service of p while its server listens.
Admitted(c, p) ==
  /\ server[p] = "up" /\ client[c].pc = "idle"
  /\ program \in MultiDC => c \in DCClients

Credits(q) == {c \in Clients : /\ client[c].pc \in {"asked", "late"}
                               /\ client[c].kind = "credit"
                               /\ client[c].at = q}

\* The message is in the mailbox of the account at q; `code` is what the
\* client of p is answered should Ask fail.
Ask(c, kind, family, p, q, status) ==
  /\ kind = "credit" =>
       acct[q].balance + Cardinality(Credits(q)) < MaxBalance
  /\ \E err \in Failures :
       client' = [client EXCEPT ![c] =
         [pc |-> "asked", kind |-> kind, family |-> family,
          front |-> p, at |-> q, code |-> status.ask[err]]]

\* The body of a REST request is not the JSON it should be.
Malformed(c, p) ==
  /\ Admitted(c, p)
  /\ Answer(c, "badrequest")
  /\ UNCHANGED acct

\* Spawn, or GrainOf: an account that is up already is used as it is.
SpawnAndAsk(c, p, q, kind, family, status) ==
  /\ Admitted(c, p)
  /\ \/ \E err \in Errors : Answer(c, status.find[err]) /\ UNCHANGED acct
     \/ /\ system[q]
        /\ acct[q].up \/ store[q] \/ program \notin Stored
        /\ acct' = [acct EXCEPT ![q] = IF @.up THEN @ ELSE PreStart(row[q])]
        /\ \/ \E err \in Errors : Answer(c, status.ask[err])
           \/ Ask(c, kind, family, p, q, status)

\* ActorOf, and Ask if there is such an actor.
LocateAndAsk(c, p, kind, family, status) ==
  /\ Admitted(c, p)
  /\ UNCHANGED acct
  /\ \/ \E err \in Failures : Answer(c, status.find[err])
     \/ system[p] /\ ~acct[p].up /\ Answer(c, status.find["ErrActorNotFound"])
     \/ /\ system[p] /\ acct[p].up
        /\ \/ \E err \in Errors : Answer(c, status.ask[err])
           \/ Ask(c, kind, family, p, p, status)

-----------------------------------------------------------------------------
(* The handlers of the services *)

DnssdCreate(c, p, status) == SpawnAndAsk(c, p, p, "create", "messages", status)

DnssdCredit(c, p, status) == LocateAndAsk(c, p, "credit", "messages", status)

DnssdGet(c, p, status) == LocateAndAsk(c, p, "get", "messages", status)

DnssdRest(c, p) ==
  \/ Malformed(c, p)
  \/ DnssdCreate(c, p, InternalError)
  \/ DnssdCredit(c, p, connectError)
  \/ DnssdGet(c, p, InternalError)

\* An unknown account is CodeNotFound here for a Get as well.
DnssdRpc(c, p) ==
  \/ DnssdCreate(c, p, connectError)
  \/ DnssdCredit(c, p, connectError)
  \/ DnssdGet(c, p, connectError)

K8sCreate(c, p, codec) ==
  SpawnAndAsk(c, p, p, "create", Encode(codec), InternalError)

\* Its two faces test the error in the same way.
K8sCredit(c, p, codec) ==
  LocateAndAsk(c, p, "credit", Encode(codec), connectError)

K8sGet(c, p, codec) == LocateAndAsk(c, p, "get", Encode(codec), InternalError)

K8sRest(c, p) ==
  \/ Malformed(c, p)
  \/ K8sCreate(c, p, "cbor")
  \/ K8sCredit(c, p, "cbor")
  \/ K8sGet(c, p, "cbor")

K8sRpc(c, p) ==
  \/ K8sCreate(c, p, "proto")
  \/ K8sCredit(c, p, "proto")
  \/ K8sGet(c, p, "proto")

EbpfCreateAccount(c, p) ==
  Malformed(c, p) \/ SpawnAndAsk(c, p, p, "create", "messages", InternalError)

EbpfCreditAccount(c, p) ==
  Malformed(c, p) \/ LocateAndAsk(c, p, "credit", "messages", LookupError)

EbpfGetAccount(c, p) == LocateAndAsk(c, p, "get", "messages", InternalError)

\* The gateway asks the account wherever it runs.
ForwardViaGateway(c, p, kind) ==
  /\ Admitted(c, p) /\ system[p] /\ ~acct[p].up
  /\ UNCHANGED acct
  /\ \/ \E err \in Errors : Answer(c, GatewayError.ask[err])
     \/ \E q \in Deployed \ {p} :
          /\ system[q] /\ acct[q].up
          /\ Ask(c, kind, "messages", p, q, GatewayError)

\* Only when ActorOf finds no such actor is the request forwarded.
LocalOrForward(c, p, kind) ==
  \/ /\ Admitted(c, p)
     /\ UNCHANGED acct
     /\ \/ \E err \in Failures : Answer(c, LookupError.find[err])
        \/ /\ system[p] /\ acct[p].up
           /\ \/ \E err \in Errors : Answer(c, LookupError.ask[err])
              \/ Ask(c, kind, "messages", p, p, LookupError)
  \/ ForwardViaGateway(c, p, kind)

MultiDCCreateAccount(c, p) ==
  Malformed(c, p) \/ SpawnAndAsk(c, p, p, "create", "messages", InternalError)

MultiDCCreditAccount(c, p) == Malformed(c, p) \/ LocalOrForward(c, p, "credit")

MultiDCGetAccount(c, p) == LocalOrForward(c, p, "get")

MultiDCSpawnRemoteAccount(c, p) ==
  \/ Malformed(c, p)
  \/ \E q \in Deployed : SpawnAndAsk(c, p, q, "create", "messages", InternalError)

IsolatedCreateAccount(c, p) == MultiDCCreateAccount(c, p)

IsolatedCreditAccount(c, p) == MultiDCCreditAccount(c, p)

IsolatedGetAccount(c, p) == MultiDCGetAccount(c, p)

IsolatedSpawnRemoteAccount(c, p) == MultiDCSpawnRemoteAccount(c, p)

TwoPCCreateAccount(c, p) ==
  Malformed(c, p) \/ SpawnAndAsk(c, p, p, "create", "messages", InternalError)

TwoPCGetAccount(c, p) == LocateAndAsk(c, p, "get", "messages", LookupError)

TwoPCCreditAccount(c, p) ==
  Malformed(c, p) \/ LocateAndAsk(c, p, "credit", "messages", LookupError)

SagaCreateAccount(c, p) == TwoPCCreateAccount(c, p)

SagaGetAccount(c, p) == TwoPCGetAccount(c, p)

SagaCreditAccount(c, p) == TwoPCCreditAccount(c, p)

StaticCreateAccount(c, p) ==
  SpawnAndAsk(c, p, p, "create", "samplepb", SpawnError)

StaticCreditAccount(c, p) ==
  LocateAndAsk(c, p, "credit", "samplepb", StaticError)

StaticGetAccount(c, p) == LocateAndAsk(c, p, "get", "samplepb", InternalError)

DynallocCreateAccount(c, p) ==
  SpawnAndAsk(c, p, p, "create", "samplepb", SpawnError)

DynallocCreditAccount(c, p) ==
  LocateAndAsk(c, p, "credit", "samplepb", InternalError)

DynallocGetAccount(c, p) == LocateAndAsk(c, p, "get", "samplepb", InternalError)

\* getGrain activates the grain, whatever is asked of it.
GrainCreateAccount(c, p) ==
  SpawnAndAsk(c, p, p, "create", "samplepb", InternalError)

GrainCreditAccount(c, p) ==
  SpawnAndAsk(c, p, p, "credit", "samplepb", InternalError)

GrainGetAccount(c, p) == SpawnAndAsk(c, p, p, "get", "samplepb", InternalError)

Request(c, p) ==
  /\ CASE program = "dnssd" -> DnssdRest(c, p) \/ DnssdRpc(c, p)
       [] program = "k8s" -> K8sRest(c, p)
       [] program = "k8s-proto" -> K8sRpc(c, p)
       [] program = "k8s-ebpf" ->
            \/ EbpfCreateAccount(c, p)
            \/ EbpfCreditAccount(c, p)
            \/ EbpfGetAccount(c, p)
       [] program = "multi-dc" ->
            \/ MultiDCCreateAccount(c, p)
            \/ MultiDCCreditAccount(c, p)
            \/ MultiDCGetAccount(c, p)
            \/ MultiDCSpawnRemoteAccount(c, p)
       [] program = "multi-dc-isolated" ->
            \/ IsolatedCreateAccount(c, p)
            \/ IsolatedCreditAccount(c, p)
            \/ IsolatedGetAccount(c, p)
            \/ IsolatedSpawnRemoteAccount(c, p)
       [] program = "2pc" ->
            \/ TwoPCCreateAccount(c, p)
            \/ TwoPCGetAccount(c, p)
            \/ TwoPCCreditAccount(c, p)
       [] program = "saga" ->
            \/ SagaCreateAccount(c, p)
            \/ SagaGetAccount(c, p)
            \/ SagaCreditAccount(c, p)
       [] program = "static" ->
            \/ StaticCreateAccount(c, p)
            \/ StaticCreditAccount(c, p)
            \/ StaticGetAccount(c, p)
       [] program = "dynalloc" ->
            \/ DynallocCreateAccount(c, p)
            \/ DynallocCreditAccount(c, p)
            \/ DynallocGetAccount(c, p)
       [] program = "grains-dnssd" ->
            \/ GrainCreateAccount(c, p)
            \/ GrainCreditAccount(c, p)
            \/ GrainGetAccount(c, p)
       [] OTHER -> FALSE
  /\ UNCHANGED <<program, mode, todo, store, system, server, row, told>>

-----------------------------------------------------------------------------
(* The account at work *)

\* The balance reported last, from when the account counts as created.
Reported(q, cl, res) ==
  IF /\ cl.pc = "asked" /\ res.reply = "account"
     /\ res.acct.created \/ told[q] > 0
  THEN res.acct.balance ELSE told[q]

Handle(c) ==
  LET cl  == client[c]
      q   == cl.at
      res == Receive(acct[q], cl.kind, cl.family)
  IN
  /\ cl.pc \in {"asked", "late"} /\ acct[q].up
  /\ acct' = [acct EXCEPT ![q] = res.acct]
  /\ told' = [told EXCEPT ![q] = Reported(q, cl, res)]
  /\ client' = [client EXCEPT ![c] =
       IF cl.pc = "asked" /\ res.reply = "none"
       THEN [cl EXCEPT !.pc = "mute"] ELSE Idle]
  /\ UNCHANGED <<program, mode, todo, store, system, server, row>>

\* Ask gives up: the client is answered, the message stays in the mailbox.
Timeout(c) ==
  /\ client' = [client EXCEPT ![c] =
       IF @.pc = "asked" THEN [@ EXCEPT !.pc = "late"] ELSE Idle]
  /\ client[c].pc \in {"asked", "mute"}
  /\ UNCHANGED <<program, mode, todo, store, system, server, acct, row, told>>

\* The account of p is gone, and every message in its mailbox with it.
Settled(cl, p) ==
  IF cl.pc # "idle" /\ cl.at = p THEN Idle ELSE cl

\* The connections of p are gone; what it forwarded is still handled.
Orphaned(cl, p) ==
  IF cl.pc \in {"asked", "mute"} /\ cl.front = p
  THEN Settled([cl EXCEPT !.pc = "late", !.code = "error"], p)
  ELSE Settled(cl, p)

\* The account is stopped.  Its write is lost when the store is closed, and it
\* may fail: then PostStop returns the error, and nobody is told.
AccountStops(p) ==
  /\ acct' = [acct EXCEPT ![p] = NoActor]
  /\ \/ /\ store[p] /\ acct[p].up
        /\ row' = [row EXCEPT ![p] = PostStop(@, acct[p])]
        /\ told' = [told EXCEPT ![p] = IF program \in Stored THEN @ ELSE 0]
     \/ /\ UNCHANGED row
        /\ told' = [told EXCEPT ![p] =
             IF (store[p] /\ acct[p].up) \/ program \notin Nested THEN 0 ELSE @]

\* A grain that has been idle for two minutes.
GrainPassivates(p) ==
  /\ program = "grains-dnssd" /\ acct[p].up /\ system[p]
  /\ \A c \in Clients : client[c].pc = "idle"
  /\ AccountStops(p)
  /\ UNCHANGED <<program, mode, todo, store, system, server, client>>

\* The process ends without stopping the account.
Abandoned(p) ==
  /\ acct' = [acct EXCEPT ![p] = NoActor]
  /\ row' = [row EXCEPT ![p] = IF program \in MemoryPrograms THEN NoRow ELSE @]
  /\ told' = [told EXCEPT ![p] =
       IF acct[p].up \/ program \in MemoryPrograms THEN 0 ELSE @]
  /\ client' = [c \in Clients |-> Orphaned(client[c], p)]

-----------------------------------------------------------------------------
(* The process: its steps and what they do to the account *)

Driven == {"activate", "create", "credit", "get", "poison", "passivate"}

Up(p) ==
  /\ mode[p] = "starting" /\ Head(todo[p]) \notin Driven
  /\ StepUp(p)
  /\ UNCHANGED accountVars

\* main of goakt-grains and goakt-persistence: every Receive writes the state.
Drive(p) ==
  LET s   == Head(todo[p])
      a   == IF acct[p].up THEN acct[p] ELSE PreStart(row[p])
      res == Receive(a, s, "samplepb").acct
  IN
  /\ mode[p] = "starting" /\ s \in Driven
  /\ StepUp(p)
  /\ CASE s = "activate" ->
            acct' = [acct EXCEPT ![p] = a] /\ UNCHANGED <<row, told>>
       [] s \in {"create", "credit", "get"} ->
            /\ acct' = [acct EXCEPT ![p] = res]
            /\ row' = [row EXCEPT ![p] = IF s = "get" THEN @ ELSE PostStop(@, res)]
            /\ told' = [told EXCEPT ![p] = res.balance]
       [] s \in {"poison", "passivate"} ->
            /\ acct' = [acct EXCEPT ![p] = NoActor]
            /\ row' = [row EXCEPT ![p] = PostStop(@, acct[p])]
            /\ UNCHANGED told
  /\ UNCHANGED client

Crash(p) ==
  /\ StepFails(p) \/ StepDownFatal(p) \/ Kill(p)
  /\ Abandoned(p)

Started(p) == Boot(p) /\ UNCHANGED accountVars

Signalled(p) == Signal(p) /\ UNCHANGED accountVars

Listens(p) ==
  /\ Listen(p)
  /\ IF mode'[p] = "off" THEN Abandoned(p) ELSE UNCHANGED accountVars

Down(p) ==
  /\ StepDown(p)
  /\ CASE Head(todo[p]) = "system" -> AccountStops(p)
       [] Head(todo[p]) = "store" /\ program \in MemoryPrograms ->
            /\ row' = [row EXCEPT ![p] = Disconnect(@)]
            /\ told' = [told EXCEPT ![p] = 0]
            /\ UNCHANGED acct
       [] OTHER -> UNCHANGED <<acct, row, told>>
  /\ client' = [c \in Clients |->
       IF mode'[p] = "off" THEN Orphaned(client[c], p)
       ELSE IF ~system'[p] THEN Settled(client[c], p)
       ELSE client[c]]

Next ==
  \/ \E p \in Deployed :
       \/ Started(p) \/ Up(p) \/ Drive(p) \/ Listens(p)
       \/ Signalled(p) \/ Down(p) \/ Crash(p)
       \/ GrainPassivates(p)
       \/ \E c \in Clients : Request(c, p)
  \/ \E c \in Clients : Handle(c) \/ Timeout(c)

Spec == Init /\ [][Next]_vars

-----------------------------------------------------------------------------
(* Properties *)

\* Every variable has the values its declaration says.
TypeOK ==
  /\ LifecycleTypeOK
  /\ acct \in [Procs -> [up : BOOLEAN, balance : 0..MaxBalance,
                         created : BOOLEAN, named : BOOLEAN]]
  /\ row \in [Procs -> [stored : BOOLEAN, balance : 0..MaxBalance,
                        created : BOOLEAN]]
  /\ told \in [Procs -> 0..MaxBalance]
  /\ client \in [Clients ->
       [pc : {"idle", "asked", "late", "mute"},
        kind : {"none", "create", "credit", "get"},
        family : {"none", "messages", "samplepb"},
        front : Procs, at : Procs, code : Codes \cup {"none"}]]

\* The balance of the account, or what it will be loaded with.
Current(p) == IF acct[p].up THEN acct[p].balance ELSE row[p].balance

\* A balance that a client was told is not lost, to the cent: it is in the
\* actor, or PostStop has written it while the store was still open, and no
\* repeated CreateAccount sets it back.  Excused are a killed process, a write
\* that the database refused, the programs without a store that outlives the
\* system, and grains-dnssd: no row of it bears the name of an account
\* (GrainGetState), so it loses the balance whenever the grain is passivated.
ToldBalanceSurvives ==
  program # "grains-dnssd" =>
    \A p \in Procs : ToNumeric(told[p], Cent) <= ToNumeric(Current(p), Cent)

\* The same without goakt-2pc and goakt-saga, whose created_at is lost.
ToldBalanceKept == program \notin Transfers => ToldBalanceSurvives

\* While an actor system runs, the store that its actors load from and write
\* to in PostStop is open: run.go starts and stops the two in nested order.
\* goakt-grains and goakt-persistence do not; see the README.
StoreOutlivesSystem ==
  program \in Nested => \A p \in Procs : system[p] => store[p]

\* Who is answered "account not found" to a credit has not credited: no such
\* message is in a mailbox.  So the handlers must not take a timeout of Ask for
\* a missing actor (isNotFound).  What the multi-datacenter gateway forwards is
\* excepted: it answers so to every error, a timeout included.
NotFoundNotCredited ==
  \A c \in Clients :
    ~ /\ client[c].pc = "late" /\ client[c].kind = "credit"
      /\ client[c].front = client[c].at /\ client[c].code = "notfound"

=============================================================================
