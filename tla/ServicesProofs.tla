--------------------------- MODULE ServicesProofs ---------------------------
(***************************************************************************)
(* Proofs about the systems of MCServices.                                 *)
(*                                                                         *)
(* AccountService: for every program of the repository that serves         *)
(* accounts, any processes, clients and amounts.                           *)
(*                                                                         *)
(* ChatRooms: the chat server agrees with its clients and shows them all   *)
(* that is said in their rooms, for any addresses, rooms and processes and *)
(* a mailbox of any length.                                                *)
(***************************************************************************)
EXTENDS MCServices, SumTheorems, SequenceTheorems, TLAPS

USE DEF lifecycleVars, accountVars

-----------------------------------------------------------------------------
(* The inductive invariant *)

Accounts == [up : BOOLEAN, balance : Nat, created : BOOLEAN, named : BOOLEAN]
Rows == [stored : BOOLEAN, balance : Nat, created : BOOLEAN]
Kinds == {"create", "credit", "get"}
Steps == {"config", "telemetry", "store", "system", "service", "singleton",
          "replica", "orchestrator"} \cup Driven
Requests == [pc : {"idle", "asked", "late", "mute"}, kind : {"none"} \cup Kinds,
             family : {"none", "messages", "samplepb"},
             front : Procs, at : Procs, code : Codes \cup {"none"}]

\* The kinds of values; balances without their bound.
LifeTypes ==
  /\ program \in Programs
  /\ mode \in [Procs -> Modes]
  /\ todo \in [Procs -> Seq(Steps)]
  /\ store \in [Procs -> BOOLEAN]
  /\ system \in [Procs -> BOOLEAN]
  /\ server \in [Procs -> ServerStates]

DataTypes ==
  /\ acct \in [Procs -> Accounts]
  /\ row \in [Procs -> Rows]
  /\ client \in [Clients -> Requests]
  /\ told \in [Procs -> Nat]

Types == LifeTypes /\ DataTypes

\* In a script of a start, the store comes before the actor system.
StoreBeforeSystem(s, open) ==
  \A i \in 1 .. Len(s) :
    s[i] = "system" => open \/ \E j \in 1 .. i - 1 : s[j] = "store"

\* In the script of main.go, an account is stopped only after it was used.
UsedBeforeStop(s, up) ==
  \A i \in 1 .. Len(s) :
    s[i] \in {"poison", "passivate"} =>
      IF i = 1 THEN up ELSE s[i - 1] = "credit"

\* Where process p stands in its script, and what is open there.
ScriptOK(p) ==
  /\ mode[p] \in {"starting", "stopping"} => todo[p] # <<>>
  /\ mode[p] = "off" => ~store[p] /\ ~system[p]
  /\ mode[p] = "starting" /\ program \notin MemoryPrograms =>
       \A i \in 1 .. Len(todo[p]) : todo[p][i] \notin Driven
  /\ mode[p] = "starting" /\ program \in MemoryPrograms =>
       /\ UsedBeforeStop(todo[p], acct[p].up)
       /\ \A i \in 1 .. Len(todo[p]) : todo[p][i] # "service"
  /\ program \in MemoryPrograms => server[p] \notin {"nil", "set"}
  /\ program \in Nested =>
       /\ system[p] => store[p]
       /\ mode[p] = "starting" => StoreBeforeSystem(todo[p], store[p])
       /\ mode[p] = "stopping" /\ system[p] => Head(todo[p]) = "system"

\* What a column keeps of a balance.
Cents(n) == ToNumeric(n, Cent)

\* Programs that lose what they told.
Losing == Transfers \cup {"grains-dnssd"}

\* A request that waits is one of the three, and unless it was forwarded by the
\* gateway a failing Ask does not answer it "notfound".
RequestOK(cl) ==
  /\ cl.pc # "idle" => cl.kind \in Kinds
  /\ cl.front = cl.at => cl.code # "notfound"

ClientOK(c) == RequestOK(client[c])

\* What was told is in the actor or, to the cent, in the row, and the account
\* counts as created wherever CreateAccount would set its balance again.
ToldOK(p) ==
  /\ acct[p].up => program \notin {"blockchain", "ai"}
  /\ program \in Nested /\ acct[p].up => system[p]
  /\ program \notin Stored => row[p].balance = 0
  /\ program \notin Losing => Cents(told[p]) <= Cents(Current(p))
  /\ program \notin Losing \cup MemoryPrograms /\ told[p] > 0 =>
       IF acct[p].up THEN acct[p].created
       ELSE program \in PostgresActors /\ row[p].created

IInv ==
  /\ Types
  /\ \A p \in Procs : ScriptOK(p) /\ ToldOK(p)
  /\ \A c \in Clients : ClientOK(c)

-----------------------------------------------------------------------------
(* What the programs have in common *)

\* PreStart: the account starts from its row, if its program has a store.
LEMMA PreStartEffect ==
  ASSUME program \in Programs, NEW r \in Rows
  PROVE  /\ PreStart(r) \in Accounts
         /\ PreStart(r).up
         /\ program \in Stored \ {"blockchain"} => PreStart(r).balance = r.balance
         /\ program \notin Stored \ {"blockchain"} => PreStart(r).balance = 0
         /\ program \in PostgresActors => PreStart(r).created = r.created
  BY DEF PreStart, DnssdGetState, K8sGetState, EbpfGetState, MultiDCGetState,
         IsolatedGetState, TwoPCGetAccountState, SagaGetAccountState,
         GrainGetState, GrainsGetLatestState, PersistenceGetLatestState,
         NewAccount, Rows, Accounts, Programs, Stored, PostgresActors, K8s,
         MultiDC, Transfers

\* The order of balances is kept, and to write a balance again keeps it.
LEMMA CentsFacts ==
  /\ Cents(0) = 0
  /\ \A n \in Nat : Cents(n) \in Nat /\ Cents(Cents(n)) = Cents(n)
  /\ \A m, n \in Nat : m <= n => Cents(m) <= Cents(n)
<1>0. Cent \in Nat \ {0}
  BY AmountsAssumption
<1>1. Cents(0) = 0
  <2>1. PICK k \in Int : /\ ToNumeric(0, Cent) = Cent * k
                         /\ -Cent < 2 * (Cent * k - 0)
                         /\ 2 * (Cent * k - 0) <= Cent
    BY <1>0, NumericOfNat
  <2>2. PICK v \in Int : v = Cent * k
    BY <1>0
  <2>3. Cent * 0 = 0 /\ v < Cent /\ -Cent < v
    BY <1>0, <2>1, <2>2
  <2>4. /\ v < 0 => v + Cent <= 0
        /\ 0 < v => 0 + Cent <= v
    BY <1>0, <2>2, <2>3, WholeCents
  <2> QED
    BY <1>0, <2>1, <2>2, <2>3, <2>4 DEF Cents
<1>2. ASSUME NEW n \in Nat PROVE Cents(n) \in Nat /\ Cents(Cents(n)) = Cents(n)
  <2>1. Cents(n) \in Int /\ Cents(Cents(n)) = Cents(n)
    BY <1>0, NumericTwice DEF Cents
  <2>2. ToNumeric(0, Cent) <= ToNumeric(n, Cent)
    BY <1>0, NumericMonotone
  <2> QED
    BY <1>1, <2>1, <2>2 DEF Cents
<1>3. \A m, n \in Nat : m <= n => Cents(m) <= Cents(n)
  BY <1>0, NumericMonotone DEF Cents
<1> QED
  BY <1>1, <1>2, <1>3

\* PostStop: the balance is written to the cent, and the row counts as created in the
\* programs whose column defaults to NOW().
LEMMA PostStopEffect ==
  ASSUME program \in Programs, NEW r \in Rows, NEW a \in Accounts
  PROVE  /\ PostStop(r, a) \in Rows
         /\ program \in PostgresActors \cup MemoryPrograms =>
              Cents(PostStop(r, a).balance) = Cents(a.balance)
         /\ program \in PostgresActors \ Transfers => PostStop(r, a).created
         /\ program \notin Stored => PostStop(r, a) = r
<1>1. /\ ToNumeric(a.balance, Cent) \in Nat /\ a.balance \in Nat
      /\ Cents(ToNumeric(a.balance, Cent)) = Cents(a.balance)
  BY CentsFacts DEF Cents, Accounts
<1> QED
  BY <1>1 DEF PostStop, DnssdWriteState, K8sWriteState, EbpfWriteState,
         MultiDCWriteState, IsolatedWriteState, TwoPCWriteAccountState,
         SagaWriteAccountState, GrainWriteState, MemoryWriteState,
         PersistenceWriteState, Stores, Rows, Accounts, Programs, Stored,
         PostgresActors, MemoryPrograms, K8s, MultiDC, Transfers

\* Receive: a balance never falls, unless CreateAccount finds an account that is
\* not created and sets it to the opening balance.
LEMMA ReceiveEffect ==
  ASSUME program \in Programs \ {"blockchain", "ai"}, NEW a \in Accounts,
         NEW kind \in Kinds, NEW family
  PROVE  LET res == Receive(a, kind, family)
         IN /\ res.acct \in Accounts
            /\ res.acct.up = a.up
            /\ program \in MemoryPrograms => res.acct.balance >= a.balance
            /\ program \notin MemoryPrograms =>
                 /\ a.created => res.acct.balance >= a.balance
                 /\ kind # "create" => res.acct.balance >= a.balance
                 /\ a.created \/ kind = "create" => res.acct.created
<1> DEFINE Sound(res) ==
      /\ res.acct \in Accounts
      /\ res.acct.up = a.up
      /\ a.created => res.acct.balance >= a.balance
      /\ kind # "create" => res.acct.balance >= a.balance
      /\ a.created \/ kind = "create" => res.acct.created
<1>1. Sound(DnssdReceive(a, kind))
  <2>1. CASE kind = "create" /\ a.created
    BY <2>1 DEF DnssdReceive, Replies, Accounts
  <2>2. CASE kind = "create" /\ ~a.created
    BY <2>2, AmountsAssumption DEF DnssdReceive, Replies, Accounts
  <2>3. CASE kind = "credit"
    BY <2>3 DEF DnssdReceive, Replies, Credited, Accounts
  <2>4. CASE kind = "get"
    BY <2>4 DEF DnssdReceive, Replies, Accounts
  <2> QED
    BY <2>1, <2>2, <2>3, <2>4 DEF Kinds
<1>2. /\ GrainsOnReceive(a, kind).acct \in Accounts
      /\ GrainsOnReceive(a, kind).acct.up = a.up
      /\ GrainsOnReceive(a, kind).acct.balance >= a.balance
  <2>1. CASE kind = "create"
    BY <2>1, AmountsAssumption DEF GrainsOnReceive, Replies, Accounts
  <2>2. CASE kind = "credit"
    BY <2>2 DEF GrainsOnReceive, Replies, Accounts
  <2>3. CASE kind = "get"
    BY <2>3 DEF GrainsOnReceive, Replies, Accounts
  <2> QED
    BY <2>1, <2>2, <2>3 DEF Kinds
<1>3. Sound(StaticReceive(a, kind)) /\ Sound(GrainReceive(a, kind))
  BY <1>1 DEF StaticReceive, GrainReceive, Replies, Accounts
<1>4. Sound(TwoPCReceive(a, kind)) /\ Sound(K8sReceive(a, kind, family))
  BY <1>1 DEF TwoPCReceive, K8sReceive, Replies, Accounts
<1> HIDE DEF Sound
<1>5. CASE program \in MemoryPrograms
  <2>1. Receive(a, kind, family) = GrainsOnReceive(a, kind)
    BY <1>5 DEF Receive, MemoryPrograms, PersistenceReceive, K8s
  <2> QED
    BY <1>2, <1>5, <2>1
<1>6. CASE program \notin MemoryPrograms
  <2> SUFFICES Sound(Receive(a, kind, family))
    BY <1>6 DEF Sound
  <2>1. CASE program \in {"dnssd", "k8s-ebpf", "multi-dc", "multi-dc-isolated", "saga"}
    <3>1. Receive(a, kind, family) = DnssdReceive(a, kind)
      BY <2>1 DEF Receive, EbpfReceive, MultiDCReceive, IsolatedReceive,
                  SagaReceive, K8s
    <3> QED
      BY <1>1, <3>1
  <2>2. CASE program \in K8s
    <3>1. Receive(a, kind, family) = K8sReceive(a, kind, family)
      BY <2>2 DEF Receive, K8s
    <3> QED
      BY <1>4, <3>1
  <2>3. CASE program = "2pc"
    <3>1. Receive(a, kind, family) = TwoPCReceive(a, kind)
      BY <2>3 DEF Receive, K8s
    <3> QED
      BY <1>4, <3>1
  <2>4. CASE program \in {"static", "dynalloc"}
    <3>1. Receive(a, kind, family) = StaticReceive(a, kind)
      BY <2>4 DEF Receive, DynallocReceive, K8s
    <3> QED
      BY <1>3, <3>1
  <2>5. CASE program = "grains-dnssd"
    <3>1. Receive(a, kind, family) = GrainReceive(a, kind)
      BY <2>5 DEF Receive, K8s
    <3> QED
      BY <1>3, <3>1
  <2> QED
    BY <1>6, <2>1, <2>2, <2>3, <2>4, <2>5
       DEF Programs, MemoryPrograms, MultiDC
<1> QED
  BY <1>5, <1>6

\* What a request does: it may start an account, and it ends or waits.
Served(c) ==
  /\ \/ UNCHANGED acct
     \/ \E q \in Procs : /\ ~acct[q].up /\ system[q]
                         /\ acct' = [acct EXCEPT ![q] = PreStart(row[q])]
  /\ \E cl \in Requests : /\ client' = [client EXCEPT ![c] = cl]
                          /\ cl = Idle \/ cl.kind \in Kinds
                          /\ cl.front = cl.at => cl.code # "notfound"

\* The handlers that do not take a failing Ask for a missing account.
Statuses == [find : [Errors -> Codes], ask : [Errors -> Codes]]
Honest == {status \in Statuses :
             \A err \in Failures : status.ask[err] # "notfound"}

LEMMA StatusTypes ==
  /\ {connectError, LookupError, InternalError, SpawnError, StaticError}
       \subseteq Honest
  /\ GatewayError \in Statuses
<1>1. /\ Classified \in [Errors -> Codes]
      /\ \A err \in Failures : Classified[err] # "notfound"
  BY DEF Classified, isNotFound, Errors, Failures, Codes
<1>2. ASSUME NEW code \in {"internal", "unknown", "notfound"}
      PROVE  /\ Always(code) \in [Errors -> Codes]
             /\ \A err \in Failures : Always(code)[err] = code
  BY DEF Always, Errors, Failures, Codes
<1> QED
  BY <1>1, <1>2 DEF connectError, LookupError, InternalError, SpawnError,
     StaticError, GatewayError, Honest, Statuses

LEMMA IdleType == Idle \in Requests /\ Idle.pc = "idle" /\ Idle.code = "none"
  BY LocalAssumption DEF Idle, Requests

LEMMA AnswerServes ==
  ASSUME NEW c \in Clients, NEW code, Answer(c, code),
         \/ UNCHANGED acct
         \/ \E q \in Procs : /\ ~acct[q].up /\ system[q]
                             /\ acct' = [acct EXCEPT ![q] = PreStart(row[q])]
  PROVE  Served(c)
  BY IdleType DEF Answer, Served

LEMMA AskServes ==
  ASSUME NEW c \in Clients, NEW kind \in Kinds,
         NEW family \in {"messages", "samplepb"}, NEW p \in Procs, NEW q \in Procs,
         NEW status \in Statuses,
         p = q => status \in Honest,
         Ask(c, kind, family, p, q, status),
         \/ UNCHANGED acct
         \/ /\ ~acct[q].up /\ system[q]
            /\ acct' = [acct EXCEPT ![q] = PreStart(row[q])]
  PROVE  Served(c)
<1>1. PICK err \in Failures : client' = [client EXCEPT ![c] =
        [pc |-> "asked", kind |-> kind, family |-> family,
         front |-> p, at |-> q, code |-> status.ask[err]]]
  BY DEF Ask
<1> DEFINE cl == [pc |-> "asked", kind |-> kind, family |-> family,
                  front |-> p, at |-> q, code |-> status.ask[err]]
<1>2. status.ask[err] \in Codes
  BY DEF Statuses, Errors, Failures
<1>3. p = q => status.ask[err] # "notfound"
  BY DEF Honest
<1>4. /\ cl \in Requests /\ cl.kind = kind
      /\ cl.front = cl.at => cl.code # "notfound"
  BY <1>2, <1>3 DEF Requests
<1> QED
  BY <1>1, <1>4 DEF Served

LEMMA SpawnServes ==
  ASSUME Types, NEW c \in Clients, NEW p \in Procs, NEW q \in Procs,
         NEW kind \in Kinds, NEW family \in {"messages", "samplepb"},
         NEW status \in Honest, SpawnAndAsk(c, p, q, kind, family, status)
  PROVE  Served(c)
<1>0. status \in Statuses
  BY DEF Honest
<1>1. ASSUME NEW code, Answer(c, code), UNCHANGED acct PROVE Served(c)
  BY <1>1, AnswerServes
<1>2. CASE /\ system[q]
           /\ acct' = [acct EXCEPT ![q] = IF @.up THEN @ ELSE PreStart(row[q])]
           /\ \/ \E err \in Errors : Answer(c, status.ask[err])
              \/ Ask(c, kind, family, p, q, status)
  <2>1. \/ UNCHANGED acct
        \/ ~acct[q].up /\ acct' = [acct EXCEPT ![q] = PreStart(row[q])]
    BY <1>2 DEF Types, DataTypes
  <2>2. CASE Ask(c, kind, family, p, q, status)
    BY <1>0, <1>2, <2>1, <2>2, AskServes
  <2>3. ASSUME NEW code, Answer(c, code) PROVE Served(c)
    BY <1>2, <2>1, <2>3, AnswerServes
  <2> QED
    BY <1>2, <2>2, <2>3
<1> QED
  BY <1>1, <1>2 DEF SpawnAndAsk

LEMMA LocateServes ==
  ASSUME NEW c \in Clients, NEW p \in Procs, NEW kind \in Kinds,
         NEW family \in {"messages", "samplepb"}, NEW status \in Honest,
         LocateAndAsk(c, p, kind, family, status)
  PROVE  Served(c)
<1>0. status \in Statuses /\ UNCHANGED acct
  BY DEF Honest, LocateAndAsk
<1>1. ASSUME NEW code, Answer(c, code) PROVE Served(c)
  BY <1>0, <1>1, AnswerServes
<1>2. CASE Ask(c, kind, family, p, p, status)
  BY <1>0, <1>2, AskServes
<1> QED
  BY <1>1, <1>2 DEF LocateAndAsk

LEMMA ForwardServes ==
  ASSUME NEW c \in Clients, NEW p \in Procs,
         NEW kind \in Kinds, LocalOrForward(c, p, kind)
  PROVE  Served(c)
<1>0. /\ "messages" \in {"messages", "samplepb"} /\ Deployed \subseteq Procs
      /\ LookupError \in Honest /\ LookupError \in Statuses
      /\ GatewayError \in Statuses
  BY LocalAssumption, StatusTypes DEF Deployed, Honest
<1>1. ASSUME NEW code, Answer(c, code), UNCHANGED acct PROVE Served(c)
  BY <1>1, AnswerServes
<1>2. CASE ForwardViaGateway(c, p, kind)
  <2>1. ASSUME NEW q \in Deployed \ {p}, Ask(c, kind, "messages", p, q, GatewayError)
        PROVE  Served(c)
    <3>1. UNCHANGED acct
      BY <1>2 DEF ForwardViaGateway
    <3> QED
      BY <1>0, <2>1, <3>1, AskServes
  <2> QED
    BY <1>1, <1>2, <2>1 DEF ForwardViaGateway
<1>3. CASE ~ForwardViaGateway(c, p, kind)
  <2>1. UNCHANGED acct
    BY <1>3 DEF LocalOrForward
  <2>2. CASE Ask(c, kind, "messages", p, p, LookupError)
    BY <1>0, <2>1, <2>2, AskServes
  <2> QED
    BY <1>1, <1>3, <2>1, <2>2 DEF LocalOrForward
<1> QED
  BY <1>2, <1>3

LEMMA MalformedServes ==
  ASSUME NEW c \in Clients, NEW p, Malformed(c, p) PROVE Served(c)
  BY AnswerServes DEF Malformed

\* The handlers of all programs.
LEMMA RequestServes ==
  ASSUME Types, NEW c \in Clients, NEW p \in Procs, Request(c, p)
  PROVE  /\ Served(c)
         /\ program \notin MemoryPrograms \cup {"blockchain", "ai"}
         /\ UNCHANGED <<program, mode, todo, store, system, server, row, told>>
<1>0. /\ {"create", "credit", "get"} = Kinds /\ Deployed \subseteq Procs
      /\ {connectError, LookupError, InternalError, SpawnError, StaticError}
           \subseteq Honest
      /\ \A codec : Encode(codec) \in {"messages", "samplepb"}
  BY LocalAssumption, StatusTypes DEF Kinds, Encode, Deployed
<1>1. CASE program = "dnssd"
  BY <1>0, <1>1, SpawnServes, LocateServes, MalformedServes
     DEF Request, DnssdRest, DnssdRpc, DnssdCreate, DnssdCredit, DnssdGet,
         MemoryPrograms
<1>2. CASE program \in K8s
  BY <1>0, <1>2, SpawnServes, LocateServes, MalformedServes
     DEF Request, K8s, K8sRest, K8sRpc, K8sCreate, K8sCredit, K8sGet,
         MemoryPrograms
<1>3. CASE program = "k8s-ebpf"
  BY <1>0, <1>3, SpawnServes, LocateServes, MalformedServes
     DEF Request, EbpfCreateAccount, EbpfCreditAccount, EbpfGetAccount,
         MemoryPrograms
<1>4. CASE program \in MultiDC
  <2>1. \/ MultiDCCreateAccount(c, p)
        \/ MultiDCCreditAccount(c, p)
        \/ MultiDCGetAccount(c, p)
        \/ MultiDCSpawnRemoteAccount(c, p)
    <3>1. CASE program = "multi-dc"
      BY <3>1 DEF Request, K8s
    <3>2. CASE program = "multi-dc-isolated"
      BY <3>2 DEF Request, IsolatedCreateAccount, IsolatedCreditAccount,
                  IsolatedGetAccount, IsolatedSpawnRemoteAccount
    <3> QED
      BY <1>4, <3>1, <3>2 DEF MultiDC
  <2>2. ASSUME MultiDCCreateAccount(c, p) \/ MultiDCSpawnRemoteAccount(c, p)
        PROVE  Served(c)
    BY <1>0, <2>2, SpawnServes, MalformedServes
       DEF MultiDCCreateAccount, MultiDCSpawnRemoteAccount
  <2>3. ASSUME MultiDCCreditAccount(c, p) \/ MultiDCGetAccount(c, p)
        PROVE  Served(c)
    BY <1>0, <1>4, <2>3, ForwardServes, MalformedServes
       DEF MultiDCCreditAccount, MultiDCGetAccount
  <2>4. Served(c)
    BY <2>1, <2>2, <2>3
  <2> QED
    BY <1>4, <2>4 DEF Request, MultiDC, MemoryPrograms
<1>5. CASE program \in Transfers
  <2>1. \/ TwoPCCreateAccount(c, p)
        \/ TwoPCGetAccount(c, p)
        \/ TwoPCCreditAccount(c, p)
    <3>1. CASE program = "2pc"
      BY <3>1 DEF Request, K8s
    <3>2. CASE program = "saga"
      BY <3>2 DEF Request, SagaCreateAccount, SagaGetAccount, SagaCreditAccount
    <3> QED
      BY <1>5, <3>1, <3>2 DEF Transfers
  <2>2. Served(c)
    BY <1>0, <2>1, SpawnServes, LocateServes, MalformedServes
       DEF TwoPCCreateAccount, TwoPCGetAccount, TwoPCCreditAccount
  <2> QED
    BY <1>5, <2>2 DEF Request, Transfers, MemoryPrograms
<1>6. CASE program \in {"static", "dynalloc"}
  BY <1>0, <1>6, SpawnServes, LocateServes
     DEF Request, StaticCreateAccount, StaticCreditAccount, StaticGetAccount,
         DynallocCreateAccount, DynallocCreditAccount, DynallocGetAccount,
         MemoryPrograms
<1>7. CASE program = "grains-dnssd"
  BY <1>0, <1>7, SpawnServes
     DEF Request, GrainCreateAccount, GrainCreditAccount, GrainGetAccount,
         MemoryPrograms
<1>8. CASE program \in MemoryPrograms \cup {"blockchain", "ai"}
  BY <1>8 DEF Request, MemoryPrograms
<1> QED
  BY <1>1, <1>2, <1>3, <1>4, <1>5, <1>6, <1>7, <1>8
     DEF Types, LifeTypes, Programs, K8s, MultiDC, Transfers, MemoryPrograms

-----------------------------------------------------------------------------
(* The scripts *)

\* What the invariant needs of a script.
ScriptSound(r) ==
  /\ r.up \in Seq(Steps) /\ r.up # <<>>
  /\ r.down \in Seq(Steps) /\ r.down # <<>>
  /\ program \notin MemoryPrograms =>
       \A i \in 1 .. Len(r.up) : r.up[i] \notin Driven
  /\ program \in MemoryPrograms =>
       /\ UsedBeforeStop(r.up, FALSE)
       /\ \A i \in 1 .. Len(r.up) : r.up[i] # "service"
  /\ program \in Nested =>
       StoreBeforeSystem(r.up, FALSE) /\ Head(r.down) = "system"

\* A sequence in which every "system" stands behind a "store".
LEMMA StoreFirstOrder ==
  ASSUME NEW s \in Seq(Steps), NEW k \in 1 .. Len(s), s[k] = "store",
         \A i \in 1 .. Len(s) : s[i] = "system" => i > k
  PROVE  StoreBeforeSystem(s, FALSE)
  <1>1. \A i \in 1 .. Len(s) : s[i] = "system" => k \in 1 .. i - 1
    BY LenProperties
  <1> QED
    BY <1>1 DEF StoreBeforeSystem

LEMMA ServiceScripts ==
  ASSUME program \notin MemoryPrograms,
         NEW r \in {RunDnssd, RunK8s, RunEbpf, RunMultiDC, RunIsolated,
                    RunGrainsDnssd, RunTwoPC, RunSaga, RunBlockchain}
  PROVE  ScriptSound(r)
<1> DEFINE s == r.up
<1>0. ASSUME s \in Seq(Steps), s # <<>>, r.down = <<"system", "store", "service">>,
             \A i \in 1 .. Len(s) : s[i] \notin Driven,
             StoreBeforeSystem(s, FALSE)
      PROVE  ScriptSound(r)
  <2>1. r.down \in Seq(Steps) /\ r.down # <<>> /\ Head(r.down) = "system"
    BY <1>0 DEF Steps
  <2> QED
    BY <1>0, <2>1 DEF ScriptSound
<1>1. CASE r \in {RunDnssd, RunGrainsDnssd}
  <2>0. /\ s = <<"config", "telemetry", "store", "system", "service">>
        /\ r.down = <<"system", "store", "service">>
    BY <1>1 DEF RunDnssd, RunGrainsDnssd
  <2>1. /\ s \in Seq(Steps) /\ Len(s) = 5 /\ s # <<>>
        /\ s[1] = "config" /\ s[2] = "telemetry" /\ s[3] = "store"
        /\ s[4] = "system" /\ s[5] = "service"
        /\ r.down = <<"system", "store", "service">>
    BY <2>0 DEF Steps, Driven
  <2> HIDE DEF s
  <2>2. \A i \in 1 .. Len(s) : i = 1 \/ i = 2 \/ i = 3 \/ i = 4 \/ i = 5
    BY <2>1
  <2>3. \A i \in 1 .. Len(s) : s[i] \notin Driven
    BY <2>1, <2>2 DEF Driven
  <2>4. \A i \in 1 .. Len(s) : s[i] = "system" => i > 3
    BY <2>1, <2>2
  <2>5. StoreBeforeSystem(s, FALSE)
    <3>1. 3 \in 1 .. Len(s) /\ s[3] = "store"
      BY <2>1
    <3> QED
      BY <2>1, <2>4, <3>1, StoreFirstOrder
  <2> QED
    BY <1>0, <2>1, <2>3, <2>5
<1>2. CASE r \in {RunK8s, RunEbpf}
  <2>0. /\ s = <<"config", "store", "system", "telemetry", "service">>
        /\ r.down = <<"system", "store", "service">>
    BY <1>2 DEF RunK8s, RunEbpf
  <2>1. /\ s \in Seq(Steps) /\ Len(s) = 5 /\ s # <<>>
        /\ s[1] = "config" /\ s[2] = "store" /\ s[3] = "system"
        /\ s[4] = "telemetry" /\ s[5] = "service"
        /\ r.down = <<"system", "store", "service">>
    BY <2>0 DEF Steps, Driven
  <2> HIDE DEF s
  <2>2. \A i \in 1 .. Len(s) : i = 1 \/ i = 2 \/ i = 3 \/ i = 4 \/ i = 5
    BY <2>1
  <2>3. \A i \in 1 .. Len(s) : s[i] \notin Driven
    BY <2>1, <2>2 DEF Driven
  <2>4. \A i \in 1 .. Len(s) : s[i] = "system" => i > 2
    BY <2>1, <2>2
  <2>5. StoreBeforeSystem(s, FALSE)
    <3>1. 2 \in 1 .. Len(s) /\ s[2] = "store"
      BY <2>1
    <3> QED
      BY <2>1, <2>4, <3>1, StoreFirstOrder
  <2> QED
    BY <1>0, <2>1, <2>3, <2>5
<1>3. CASE r \in {RunMultiDC, RunIsolated}
  <2>0. /\ s = <<"config", "store", "system", "telemetry", "singleton", "service">>
        /\ r.down = <<"system", "store", "service">>
    BY <1>3 DEF RunMultiDC, RunIsolated
  <2>1. /\ s \in Seq(Steps) /\ Len(s) = 6 /\ s # <<>>
        /\ s[1] = "config" /\ s[2] = "store" /\ s[3] = "system"
        /\ s[4] = "telemetry" /\ s[5] = "singleton" /\ s[6] = "service"
        /\ r.down = <<"system", "store", "service">>
    BY <2>0 DEF Steps, Driven
  <2> HIDE DEF s
  <2>2. \A i \in 1 .. Len(s) : i = 1 \/ i = 2 \/ i = 3 \/ i = 4 \/ i = 5 \/ i = 6
    BY <2>1
  <2>3. \A i \in 1 .. Len(s) : s[i] \notin Driven
    BY <2>1, <2>2 DEF Driven
  <2>4. \A i \in 1 .. Len(s) : s[i] = "system" => i > 2
    BY <2>1, <2>2
  <2>5. StoreBeforeSystem(s, FALSE)
    <3>1. 2 \in 1 .. Len(s) /\ s[2] = "store"
      BY <2>1
    <3> QED
      BY <2>1, <2>4, <3>1, StoreFirstOrder
  <2> QED
    BY <1>0, <2>1, <2>3, <2>5
<1>4. CASE r \in {RunTwoPC, RunSaga}
  <2>0. /\ s = <<"config", "store", "telemetry", "system", "service">>
        /\ r.down = <<"system", "store", "service">>
    BY <1>4 DEF RunTwoPC, RunSaga
  <2>1. /\ s \in Seq(Steps) /\ Len(s) = 5 /\ s # <<>>
        /\ s[1] = "config" /\ s[2] = "store" /\ s[3] = "telemetry"
        /\ s[4] = "system" /\ s[5] = "service"
        /\ r.down = <<"system", "store", "service">>
    BY <2>0 DEF Steps, Driven
  <2> HIDE DEF s
  <2>2. \A i \in 1 .. Len(s) : i = 1 \/ i = 2 \/ i = 3 \/ i = 4 \/ i = 5
    BY <2>1
  <2>3. \A i \in 1 .. Len(s) : s[i] \notin Driven
    BY <2>1, <2>2 DEF Driven
  <2>4. \A i \in 1 .. Len(s) : s[i] = "system" => i > 2
    BY <2>1, <2>2
  <2>5. StoreBeforeSystem(s, FALSE)
    <3>1. 2 \in 1 .. Len(s) /\ s[2] = "store"
      BY <2>1
    <3> QED
      BY <2>1, <2>4, <3>1, StoreFirstOrder
  <2> QED
    BY <1>0, <2>1, <2>3, <2>5
<1>5. CASE r \in {RunBlockchain}
  <2>0. /\ s = <<"config", "store", "system", "replica", "singleton", "service">>
        /\ r.down = <<"system", "store", "service">>
    BY <1>5 DEF RunBlockchain
  <2>1. /\ s \in Seq(Steps) /\ Len(s) = 6 /\ s # <<>>
        /\ s[1] = "config" /\ s[2] = "store" /\ s[3] = "system"
        /\ s[4] = "replica" /\ s[5] = "singleton" /\ s[6] = "service"
        /\ r.down = <<"system", "store", "service">>
    BY <2>0 DEF Steps, Driven
  <2> HIDE DEF s
  <2>2. \A i \in 1 .. Len(s) : i = 1 \/ i = 2 \/ i = 3 \/ i = 4 \/ i = 5 \/ i = 6
    BY <2>1
  <2>3. \A i \in 1 .. Len(s) : s[i] \notin Driven
    BY <2>1, <2>2 DEF Driven
  <2>4. \A i \in 1 .. Len(s) : s[i] = "system" => i > 2
    BY <2>1, <2>2
  <2>5. StoreBeforeSystem(s, FALSE)
    <3>1. 2 \in 1 .. Len(s) /\ s[2] = "store"
      BY <2>1
    <3> QED
      BY <2>1, <2>4, <3>1, StoreFirstOrder
  <2> QED
    BY <1>0, <2>1, <2>3, <2>5
<1> QED
  BY <1>1, <1>2, <1>3, <1>4, <1>5

LEMMA StorelessScripts ==
  ASSUME program \notin Stored, program \notin MemoryPrograms,
         NEW r \in {RunStatic, RunDynalloc, HookFirst, RunAI}
  PROVE  ScriptSound(r)
<1> DEFINE s == r.up
<1>1. /\ r.down \in Seq(Steps) /\ r.down # <<>>
      /\ s \in Seq(Steps) /\ s # <<>> /\ Len(s) \in {3, 5}
      /\ \A i \in {1, 2, 3} : s[i] \notin Driven
      /\ Len(s) = 5 => s[4] \notin Driven /\ s[5] \notin Driven
  <2>1. CASE r \in {RunStatic, RunDynalloc}
    <3>1. r = RunStatic
      BY <2>1 DEF RunStatic, RunDynalloc
    <3> QED
      BY <3>1 DEF RunStatic, Steps, Driven
  <2>2. CASE r = HookFirst
    BY <2>2 DEF HookFirst, Steps, Driven
  <2>3. CASE r = RunAI
    BY <2>3 DEF RunAI, Steps, Driven
  <2> QED
    BY <2>1, <2>2, <2>3
<1> HIDE DEF s
<1>2. \A i \in 1 .. Len(s) : s[i] \notin Driven
  BY <1>1
<1> QED
  BY <1>1, <1>2 DEF s, ScriptSound, Nested

LEMMA MainScripts ==
  ASSUME program \in MemoryPrograms, NEW r \in {MainGrains, MainPersistence}
  PROVE  ScriptSound(r)
<1> DEFINE s == r.up
<1>0. ASSUME s \in Seq(Steps), s # <<>>, r.down = <<"store", "system">>,
             \A i \in 1 .. Len(s) : s[i] # "service",
             UsedBeforeStop(s, FALSE)
      PROVE  ScriptSound(r)
  <2>1. r.down \in Seq(Steps) /\ r.down # <<>>
    BY <1>0 DEF Steps
  <2> QED
    BY <1>0, <2>1 DEF ScriptSound, Nested
<1>1. CASE r = MainGrains
  <2>1. /\ s \in Seq(Steps) /\ Len(s) = 7 /\ s # <<>>
        /\ s[1] = "store" /\ s[2] = "system" /\ s[3] = "activate"
        /\ s[4] = "create" /\ s[5] = "credit" /\ s[6] = "poison"
        /\ s[7] = "get"
        /\ r.down = <<"store", "system">>
    BY <1>1 DEF MainGrains, Steps, Driven
  <2> HIDE DEF s
  <2>2. \A i \in 1 .. Len(s) : \/ i = 1 \/ i = 2 \/ i = 3 \/ i = 4
                                 \/ i = 5 \/ i = 6 \/ i = 7
    BY <2>1
  <2>3. \A i \in 1 .. Len(s) : s[i] # "service"
    BY <2>1, <2>2
  <2>4. UsedBeforeStop(s, FALSE)
    BY <2>1, <2>2 DEF UsedBeforeStop
  <2> QED
    BY <1>0, <2>1, <2>3, <2>4
<1>2. CASE r = MainPersistence
  <2>1. /\ s \in Seq(Steps) /\ Len(s) = 8 /\ s # <<>>
        /\ s[1] = "store" /\ s[2] = "system" /\ s[3] = "activate"
        /\ s[4] = "create" /\ s[5] = "credit" /\ s[6] = "passivate"
        /\ s[7] = "activate" /\ s[8] = "get"
        /\ r.down = <<"store", "system">>
    BY <1>2 DEF MainPersistence, Steps, Driven
  <2> HIDE DEF s
  <2>2. \A i \in 1 .. Len(s) : \/ i = 1 \/ i = 2 \/ i = 3 \/ i = 4
                                 \/ i = 5 \/ i = 6 \/ i = 7 \/ i = 8
    BY <2>1
  <2>3. \A i \in 1 .. Len(s) : s[i] # "service"
    BY <2>1, <2>2
  <2>4. UsedBeforeStop(s, FALSE)
    BY <2>1, <2>2 DEF UsedBeforeStop
  <2> QED
    BY <1>0, <2>1, <2>3, <2>4
<1> QED
  BY <1>1, <1>2

LEMMA ScriptsSound ==
  ASSUME program \in Programs, NEW r \in Scripts(program)
  PROVE  ScriptSound(r)
<1>1. CASE program \in Nested
  <2>1. /\ program \notin MemoryPrograms
        /\ r \in {RunDnssd, RunK8s, RunEbpf, RunMultiDC, RunIsolated,
                  RunGrainsDnssd, RunTwoPC, RunSaga, RunBlockchain}
    BY <1>1 DEF Scripts, Nested, Stored, Programs, MemoryPrograms, K8s, MultiDC
  <2> QED
    BY <2>1, ServiceScripts
<1>2. CASE program \notin Stored
  <2>1. /\ program \notin MemoryPrograms
        /\ r \in {RunStatic, RunDynalloc, HookFirst, RunAI}
    BY <1>2 DEF Scripts, Stored, Programs, MemoryPrograms, K8s, MultiDC
  <2> QED
    BY <1>2, <2>1, StorelessScripts
<1>3. CASE program \in MemoryPrograms
  <2>1. r \in {MainGrains, MainPersistence}
    BY <1>3 DEF Scripts, MemoryPrograms, K8s
  <2> QED
    BY <1>3, <2>1, MainScripts
<1> QED
  BY <1>1, <1>2, <1>3 DEF Nested

-----------------------------------------------------------------------------
(* Steps of a process *)

\* Only process p takes a step of its life.
Alone(p) ==
  /\ program' = program
  /\ \A q \in Procs \ {p} :
       /\ mode'[q] = mode[q] /\ todo'[q] = todo[q]
       /\ store'[q] = store[q] /\ system'[q] = system[q]
       /\ server'[q] = server[q]

LEMMA ExitedScript ==
  ASSUME LifeTypes, NEW p \in Procs, Exited(p)
  PROVE  /\ LifeTypes' /\ Alone(p) /\ ScriptOK(p)'
         /\ mode'[p] = "off" /\ ~system'[p]
<1>1. /\ mode'[p] = "off" /\ ~store'[p] /\ ~system'[p] /\ server'[p] = "none"
      /\ program' = program
  BY DEF Exited, LifeTypes
<1>2. LifeTypes'
  BY EmptySeq DEF Exited, LifeTypes, Modes, ServerStates
<1>3. Alone(p)
  BY DEF Exited, LifeTypes, Alone
<1> QED
  BY <1>1, <1>2, <1>3 DEF ScriptOK

LEMMA BootScript ==
  ASSUME LifeTypes, NEW p \in Procs, ScriptOK(p), Boot(p)
  PROVE  LifeTypes' /\ Alone(p) /\ ScriptOK(p)'
<1> PICK r \in Scripts(program) : todo' = [todo EXCEPT ![p] = r.up]
  BY DEF Boot
<1>1. ScriptSound(r)
  BY ScriptsSound DEF LifeTypes
<1>2. /\ mode'[p] = "starting" /\ todo'[p] = r.up /\ ~store[p] /\ ~system[p]
      /\ UNCHANGED <<program, store, system, server>>
  BY DEF Boot, LifeTypes, ScriptOK
<1>3. LifeTypes' /\ Alone(p)
  BY <1>1 DEF Boot, LifeTypes, ScriptSound, Modes, Alone
<1>4. StoreBeforeSystem(r.up, FALSE) => StoreBeforeSystem(r.up, store'[p])
  BY DEF StoreBeforeSystem
<1>5. UsedBeforeStop(r.up, FALSE) => UsedBeforeStop(r.up, acct'[p].up)
  BY DEF UsedBeforeStop
<1> QED
  BY <1>1, <1>2, <1>3, <1>4, <1>5 DEF ScriptOK, ScriptSound

LEMMA SignalScript ==
  ASSUME LifeTypes, NEW p \in Procs, ScriptOK(p), Signal(p)
  PROVE  LifeTypes' /\ Alone(p) /\ ScriptOK(p)'
<1> PICK r \in Scripts(program) : todo' = [todo EXCEPT ![p] = r.down]
  BY DEF Signal
<1>1. ScriptSound(r)
  BY ScriptsSound DEF LifeTypes
<1>2. /\ mode'[p] = "stopping" /\ todo'[p] = r.down
      /\ UNCHANGED <<program, store, system, server>>
  BY DEF Signal, LifeTypes
<1>3. LifeTypes' /\ Alone(p)
  BY <1>1 DEF Signal, LifeTypes, ScriptSound, Modes, Alone
<1> QED
  BY <1>1, <1>2, <1>3 DEF ScriptOK, ScriptSound

LEMMA StepUpScript ==
  ASSUME LifeTypes, NEW p \in Procs, ScriptOK(p), StepUp(p),
         Head(todo[p]) = "credit" /\ program \in MemoryPrograms => acct'[p].up
  PROVE  LifeTypes' /\ Alone(p) /\ ScriptOK(p)'
<1> DEFINE s == todo[p]
           t == Tail(todo[p])
<1>1. mode[p] = "starting" /\ s \in Seq(Steps) /\ s # <<>> /\ program' = program
  BY DEF StepUp, LifeTypes, ScriptOK
<1>2. /\ t \in Seq(Steps) /\ Len(t) = Len(s) - 1 /\ Len(s) \in Nat \ {0}
      /\ \A i \in 1 .. Len(t) : t[i] = s[i + 1]
      /\ Head(s) = s[1]
  BY <1>1, HeadTailProperties, LenProperties, EmptySeq
<1>3. /\ todo'[p] = t
      /\ mode'[p] = (IF t = <<>> THEN "serving" ELSE "starting")
      /\ store'[p] = (store[p] \/ s[1] = "store")
      /\ system'[p] = (system[p] \/ s[1] = "system")
      /\ server'[p] = (IF s[1] # "service" THEN server[p]
                       ELSE IF program = "ai" THEN "set" ELSE "nil")
  BY <1>1, <1>2 DEF StepUp, LifeTypes
<1>4. LifeTypes'
  BY <1>2 DEF StepUp, LifeTypes, Modes, ServerStates
<1>5. Alone(p)
  BY DEF StepUp, LifeTypes, Alone
<1> HIDE DEF s, t
<1>6. program \notin MemoryPrograms => \A i \in 1 .. Len(t) : t[i] \notin Driven
  BY <1>1, <1>2 DEF ScriptOK, s
<1>7. program \in MemoryPrograms =>
        /\ \A i \in 1 .. Len(t) : t[i] # "service"
        /\ s[1] # "service"
  BY <1>1, <1>2 DEF ScriptOK, s
<1>8. program \in MemoryPrograms => UsedBeforeStop(t, acct'[p].up)
  <2> SUFFICES ASSUME program \in MemoryPrograms, NEW i \in 1 .. Len(t),
                      t[i] \in {"poison", "passivate"}
               PROVE  IF i = 1 THEN acct'[p].up ELSE t[i - 1] = "credit"
    BY DEF UsedBeforeStop
  <2>1. i + 1 \in 1 .. Len(s) /\ i + 1 # 1 /\ t[i] = s[i + 1]
    BY <1>2
  <2>2. s[i + 1 - 1] = "credit"
    BY <1>1, <2>1 DEF ScriptOK, UsedBeforeStop, s
  <2>3. CASE i = 1
    BY <1>2, <2>2, <2>3 DEF s
  <2>4. CASE i # 1
    BY <1>2, <2>2, <2>4
  <2> QED
    BY <2>3, <2>4
<1>9. program \in Nested => /\ system'[p] => store'[p]
                            /\ StoreBeforeSystem(t, store'[p])
  <2> SUFFICES ASSUME program \in Nested
               PROVE  /\ system'[p] => store'[p]
                      /\ StoreBeforeSystem(t, store'[p])
    OBVIOUS
  <2>1. /\ system[p] => store[p]
        /\ \A i \in 1 .. Len(s) :
             s[i] = "system" => store[p] \/ \E j \in 1 .. i - 1 : s[j] = "store"
    BY <1>1 DEF ScriptOK, StoreBeforeSystem, s
  <2>2. s[1] = "system" => store[p]
    BY <1>2, <2>1
  <2>3. ASSUME NEW i \in 1 .. Len(t), t[i] = "system"
        PROVE  store'[p] \/ \E j \in 1 .. i - 1 : t[j] = "store"
    <3>1. i + 1 \in 1 .. Len(s) /\ s[i + 1] = "system"
      BY <1>2, <2>3
    <3>2. CASE store[p]
      BY <1>3, <3>2
    <3>3. CASE ~store[p]
      <4> PICK j \in 1 .. i + 1 - 1 : s[j] = "store"
        BY <2>1, <3>1, <3>3
      <4>1. CASE j = 1
        BY <1>3, <4>1
      <4>2. CASE j # 1
        <5>1. j - 1 \in 1 .. i - 1 /\ j - 1 \in 1 .. Len(t) /\ j - 1 + 1 = j
          BY <1>2, <4>2
        <5>2. t[j - 1] = "store"
          BY <1>2, <5>1
        <5> QED
          BY <5>1, <5>2
      <4> QED
        BY <4>1, <4>2
    <3> QED
      BY <3>2, <3>3
  <2>4. StoreBeforeSystem(t, store'[p])
    BY <2>3 DEF StoreBeforeSystem
  <2> QED
    BY <1>3, <2>1, <2>2, <2>4
<1>10. server[p] \notin {"nil", "set"} /\ s[1] # "service" =>
         server'[p] \notin {"nil", "set"}
  BY <1>3
<1>11. ScriptOK(p)'
  BY <1>1, <1>3, <1>6, <1>7, <1>8, <1>9, <1>10 DEF ScriptOK
<1> QED
  BY <1>4, <1>5, <1>11

LEMMA StepDownScript ==
  ASSUME LifeTypes, NEW p \in Procs, ScriptOK(p), StepDown(p)
  PROVE  /\ LifeTypes' /\ Alone(p) /\ ScriptOK(p)'
         /\ mode[p] = "stopping" /\ todo[p] # <<>>
         /\ mode'[p] = "off" \/ mode'[p] = "stopping"
<1>1. mode[p] = "stopping" /\ todo[p] \in Seq(Steps) /\ todo[p] # <<>>
  BY DEF StepDown, LifeTypes, ScriptOK
<1>2. CASE Exited(p)
  BY <1>1, <1>2, ExitedScript
<1>3. CASE ~Exited(p)
  <2> DEFINE t == Tail(todo[p])
             s == Head(todo[p])
  <2>1. /\ t # <<>> /\ t \in Seq(Steps)
        /\ todo' = [todo EXCEPT ![p] = t]
        /\ store' = [store EXCEPT ![p] = @ /\ s # "store"]
        /\ system' = [system EXCEPT ![p] = @ /\ s # "system"]
        /\ server' = [server EXCEPT ![p] = IF s = "service" THEN "down" ELSE @]
        /\ UNCHANGED <<program, mode>>
    BY <1>1, <1>3, HeadTailProperties DEF StepDown, LifeTypes
  <2>2. /\ todo'[p] = t /\ mode'[p] = "stopping"
        /\ store'[p] = (store[p] /\ s # "store")
        /\ system'[p] = (system[p] /\ s # "system")
        /\ server'[p] \in {server[p], "down"}
    BY <1>1, <2>1 DEF LifeTypes
  <2>3. LifeTypes' /\ Alone(p)
    BY <2>1 DEF LifeTypes, ServerStates, Alone
  <2>4. program \in Nested => ~system'[p]
    BY <1>1, <2>2 DEF ScriptOK
  <2> HIDE DEF t, s
  <2>5. ScriptOK(p)'
    BY <2>1, <2>2, <2>4 DEF ScriptOK
  <2> QED
    BY <1>1, <2>2, <2>3, <2>5
<1> QED
  BY <1>2, <1>3

LEMMA ServeScript ==
  ASSUME LifeTypes, NEW p \in Procs, ScriptOK(p), NEW outcome \in ServerStates,
         Serve(p, outcome), program \notin MemoryPrograms
  PROVE  LifeTypes' /\ Alone(p) /\ ScriptOK(p)' /\ mode'[p] = mode[p]
         /\ system' = system
  BY DEF Serve, LifeTypes, Alone, ScriptOK

LEMMA ListenScript ==
  ASSUME LifeTypes, NEW p \in Procs, ScriptOK(p), Listen(p)
  PROVE  /\ LifeTypes' /\ Alone(p) /\ ScriptOK(p)'
         /\ mode'[p] = "off" \/ system' = system
<1>1. program \notin MemoryPrograms
  BY DEF Listen, Listening, ScriptOK
<1>2. \/ Exited(p)
      \/ \E outcome \in {"up", "failed", "aborted"} : Serve(p, outcome)
  BY <1>1 DEF Listen, ListenDnssd, ListenK8s, ListenHTTP, ListenProto,
     ListenEbpf, ListenMultiDC, ListenIsolated, ListenGrains, ListenStatic,
     ListenDynalloc, ListenTwoPC, ListenSaga, ListenBlockchain, ListenAI,
     ServeOrLog, ServeOrExit, ServeOrAbort, LifeTypes, Programs, K8s, MultiDC,
     MemoryPrograms
<1>3. {"up", "failed", "aborted"} \subseteq ServerStates
  BY DEF ServerStates
<1> QED
  BY <1>1, <1>2, <1>3, ExitedScript, ServeScript

-----------------------------------------------------------------------------
(* What happens to the accounts *)

\* Only the account at p is touched.
OnlyAccount(p) ==
  \A q \in Procs \ {p} :
    acct'[q] = acct[q] /\ row'[q] = row[q] /\ told'[q] = told[q]

LEMMA NoActorType == NoActor \in Accounts /\ ~NoActor.up /\ NoActor.balance = 0
  BY DEF NoActor, Accounts

LEMMA NoRowType == NoRow \in Rows /\ NoRow.balance = 0
  BY DEF NoRow, Rows

LEMMA PostgresNested ==
  PostgresActors \subseteq Nested /\ PostgresActors \subseteq Stored
  BY DEF PostgresActors, Nested, Stored, Programs, MemoryPrograms, K8s, MultiDC,
         Transfers

\* An account nobody touches keeps what was told.
LEMMA ToldKept ==
  ASSUME NEW q \in Procs, ToldOK(q), program' = program,
         acct'[q] = acct[q], row'[q] = row[q], told'[q] = told[q],
         system'[q] = system[q] \/ program \notin Nested \/ ~acct[q].up
  PROVE  ToldOK(q)'
  BY DEF ToldOK, Current

LEMMA StopsTold ==
  ASSUME Types, NEW p \in Procs, ScriptOK(p), ToldOK(p), AccountStops(p),
         program' = program
  PROVE  /\ acct' \in [Procs -> Accounts] /\ row' \in [Procs -> Rows]
         /\ told' \in [Procs -> Nat]
         /\ OnlyAccount(p) /\ ToldOK(p)' /\ ~acct'[p].up
<1>1. /\ acct' \in [Procs -> Accounts] /\ acct'[p] = NoActor
      /\ \A q \in Procs \ {p} : acct'[q] = acct[q]
  BY NoActorType DEF AccountStops, Types, DataTypes
<1>2. /\ acct[p] \in Accounts /\ row[p] \in Rows /\ told[p] \in Nat
      /\ program \in Programs /\ store[p] \in BOOLEAN
  BY DEF Types, DataTypes, LifeTypes
<1>3. acct[p].balance \in Nat /\ row[p].balance \in Nat
  BY <1>2 DEF Accounts, Rows
<1>4. CASE /\ store[p] /\ acct[p].up
           /\ row' = [row EXCEPT ![p] = PostStop(@, acct[p])]
           /\ told' = [told EXCEPT ![p] = IF program \in Stored THEN @ ELSE 0]
  <2>1. /\ row' \in [Procs -> Rows] /\ told' \in [Procs -> Nat]
        /\ row'[p] = PostStop(row[p], acct[p])
        /\ told'[p] = IF program \in Stored THEN told[p] ELSE 0
        /\ \A q \in Procs \ {p} : row'[q] = row[q] /\ told'[q] = told[q]
    BY <1>2, <1>4, PostStopEffect DEF Types, DataTypes
  <2>2. /\ row'[p] \in Rows /\ row'[p].balance \in Nat
        /\ program \in PostgresActors \cup MemoryPrograms =>
             Cents(row'[p].balance) = Cents(acct[p].balance)
        /\ program \in PostgresActors \ Transfers => row'[p].created
        /\ program \notin Stored => row'[p] = row[p]
    BY <1>2, <2>1, PostStopEffect DEF Rows
  <2>a. program \in Stored \ Losing => program \in PostgresActors \cup MemoryPrograms
    BY <1>2, <1>4 DEF ToldOK, Stored, Programs, Losing, PostgresActors,
                      MemoryPrograms, K8s, MultiDC, Transfers
  <2>b. program \notin Losing => Cents(told'[p]) <= Cents(row'[p].balance)
    <3>1. CASE program \in Stored \ Losing
      <4>1. /\ told'[p] = told[p] /\ Cents(told[p]) <= Cents(acct[p].balance)
            /\ Cents(row'[p].balance) = Cents(acct[p].balance)
        BY <1>4, <2>1, <2>2, <2>a, <3>1 DEF ToldOK, Current
      <4> QED
        BY <4>1
    <3>2. CASE program \notin Stored
      BY <2>1, <2>2, <3>2, CentsFacts
    <3> QED
      BY <3>1, <3>2
  <2>c. program \notin Losing \cup MemoryPrograms /\ told'[p] > 0 =>
          program \in PostgresActors /\ row'[p].created
    BY <1>2, <2>1, <2>2, <2>a DEF Losing
  <2>d. /\ ~acct'[p].up /\ program' = program
        /\ program \notin Stored => row'[p].balance = 0
    BY <1>1, <2>2, NoActorType DEF ToldOK
  <2>3. ToldOK(p)'
    BY <2>b, <2>c, <2>d DEF ToldOK, Current
  <2> QED
    BY <1>1, <2>1, <2>3, NoActorType DEF OnlyAccount
<1>5. CASE /\ UNCHANGED row
           /\ told' = [told EXCEPT ![p] =
                IF (store[p] /\ acct[p].up) \/ program \notin Nested
                THEN 0 ELSE @]
  <2>1. /\ told' \in [Procs -> Nat] /\ row' \in [Procs -> Rows]
        /\ told'[p] = IF (store[p] /\ acct[p].up) \/ program \notin Nested
                      THEN 0 ELSE told[p]
        /\ \A q \in Procs \ {p} : row'[q] = row[q] /\ told'[q] = told[q]
    BY <1>2, <1>5 DEF Types, DataTypes
  <2>2. program \in PostgresActors /\ acct[p].up => store[p]
    BY PostgresNested DEF ToldOK, ScriptOK
  <2>a. program \notin Losing => Cents(told'[p]) <= Cents(row[p].balance)
    <3>1. CASE told'[p] = 0
      BY <1>3, <3>1, CentsFacts
    <3>2. CASE told'[p] # 0 /\ program \notin Losing
      <4>1. told'[p] = told[p] /\ ~(store[p] /\ acct[p].up) /\ program \in Nested
        BY <2>1, <3>2
      <4>2. program \in PostgresActors \cup {"blockchain"}
        BY <3>2, <4>1, <1>2
           DEF Nested, Stored, Programs, Losing, PostgresActors, MemoryPrograms,
               K8s, MultiDC, Transfers
      <4>3. ~acct[p].up
        BY <1>2, <2>2, <4>1, <4>2 DEF ToldOK
      <4> QED
        BY <3>2, <4>1, <4>3 DEF ToldOK, Current
    <3> QED
      BY <3>1, <3>2
  <2>b. program \notin Losing \cup MemoryPrograms /\ told'[p] > 0 =>
          program \in PostgresActors /\ row[p].created
    <3> SUFFICES ASSUME program \notin Losing \cup MemoryPrograms, told'[p] > 0
                 PROVE  program \in PostgresActors /\ row[p].created
      OBVIOUS
    <3>1. told'[p] = told[p] /\ ~(store[p] /\ acct[p].up) /\ program \in Nested
      BY <2>1
    <3>2. program \in PostgresActors \cup {"blockchain"}
      BY <3>1, <1>2
         DEF Nested, Stored, Programs, Losing, PostgresActors, MemoryPrograms,
             K8s, MultiDC, Transfers
    <3>3. ~acct[p].up
      BY <1>2, <2>2, <3>1, <3>2 DEF ToldOK
    <3> QED
      BY <3>1, <3>3 DEF ToldOK
  <2>c. /\ ~acct'[p].up /\ program' = program /\ row'[p] = row[p]
        /\ program \notin Stored => row'[p].balance = 0
    BY <1>1, <1>5, NoActorType DEF ToldOK
  <2>3. ToldOK(p)'
    BY <2>a, <2>b, <2>c DEF ToldOK, Current
  <2> QED
    BY <1>1, <2>1, <2>3, NoActorType DEF OnlyAccount
<1> QED
  BY <1>4, <1>5 DEF AccountStops

LEMMA OrphanedOK ==
  ASSUME NEW p \in Procs, NEW cl \in Requests, RequestOK(cl)
  PROVE  /\ Settled(cl, p) \in Requests /\ RequestOK(Settled(cl, p))
         /\ Orphaned(cl, p) \in Requests /\ RequestOK(Orphaned(cl, p))
<1>1. ASSUME NEW d \in Requests, RequestOK(d)
      PROVE  Settled(d, p) \in Requests /\ RequestOK(Settled(d, p))
  BY <1>1, IdleType DEF Settled, RequestOK
<1>2. ASSUME cl.pc \in {"asked", "mute"}
      PROVE  LET d == [cl EXCEPT !.pc = "late", !.code = "error"]
             IN d \in Requests /\ RequestOK(d)
  BY <1>2 DEF Requests, RequestOK, Codes
<1> QED
  BY <1>1, <1>2 DEF Orphaned

LEMMA AbandonedTold ==
  ASSUME Types, NEW p \in Procs, ToldOK(p), Abandoned(p), program' = program,
         \A c \in Clients : ClientOK(c)
  PROVE  DataTypes' /\ OnlyAccount(p) /\ ToldOK(p)' /\ \A c \in Clients : ClientOK(c)'
<1>1. /\ acct' \in [Procs -> Accounts] /\ acct'[p] = NoActor
      /\ \A q \in Procs \ {p} : acct'[q] = acct[q]
  BY NoActorType DEF Abandoned, Types, DataTypes
<1>2. /\ acct[p] \in Accounts /\ row[p] \in Rows /\ told[p] \in Nat
      /\ acct[p].balance \in Nat /\ row[p].balance \in Nat
  BY DEF Types, DataTypes, Accounts, Rows
<1>3. /\ row' \in [Procs -> Rows] /\ told' \in [Procs -> Nat]
      /\ row'[p] = (IF program \in MemoryPrograms THEN NoRow ELSE row[p])
      /\ told'[p] = (IF acct[p].up \/ program \in MemoryPrograms THEN 0
                     ELSE told[p])
      /\ \A q \in Procs \ {p} : row'[q] = row[q] /\ told'[q] = told[q]
  BY <1>2, NoRowType DEF Abandoned, Types, DataTypes
<1>4. ToldOK(p)'
  BY <1>1, <1>2, <1>3, NoActorType, NoRowType, CentsFacts DEF ToldOK, Current
<1>5. client' = [c \in Clients |-> Orphaned(client[c], p)]
  BY DEF Abandoned
<1>6. \A c \in Clients : /\ client'[c] \in Requests /\ RequestOK(client'[c])
                         /\ client'[c] = Orphaned(client[c], p)
  BY <1>5, OrphanedOK DEF Types, DataTypes, ClientOK
<1>7. \A c \in Clients : ClientOK(c)'
  BY <1>6 DEF ClientOK, RequestOK
<1>8. DataTypes'
  BY <1>1, <1>3, <1>5, <1>6 DEF DataTypes
<1> QED
  BY <1>1, <1>3, <1>4, <1>7, <1>8 DEF OnlyAccount

\* An account that starts takes what was told from its row.
LEMMA StartTold ==
  ASSUME Types, NEW p \in Procs, ToldOK(p), ~acct[p].up, NEW a,
         a = PreStart(row[p]), acct'[p] = a, row'[p] = row[p],
         told'[p] = told[p], program' = program,
         program \notin {"blockchain", "ai"},
         program \in Nested => system'[p]
  PROVE  ToldOK(p)' /\ a \in Accounts /\ a.up
<1>1. /\ row[p] \in Rows /\ told[p] \in Nat /\ row[p].balance \in Nat
      /\ program \in Programs
  BY DEF Types, DataTypes, LifeTypes, Rows
<1>2. /\ a \in Accounts /\ a.up /\ a.balance \in Nat
      /\ program \in Stored => a.balance = row[p].balance
      /\ program \notin Stored => a.balance = 0
      /\ program \in PostgresActors => a.created = row[p].created
  BY <1>1, PreStartEffect DEF Accounts
<1> QED
  BY <1>1, <1>2 DEF ToldOK, Current

LEMMA ServedStep ==
  ASSUME Types, \A q \in Procs : ToldOK(q), \A d \in Clients : ClientOK(d),
         NEW c \in Clients, Served(c),
         program \notin MemoryPrograms \cup {"blockchain", "ai"},
         UNCHANGED <<program, mode, todo, store, system, server, row, told>>
  PROVE  DataTypes' /\ (\A q \in Procs : ToldOK(q)') /\ \A d \in Clients : ClientOK(d)'
<1>1. PICK cl \in Requests : /\ client' = [client EXCEPT ![c] = cl]
                             /\ cl = Idle \/ cl.kind \in Kinds
                             /\ cl.front = cl.at => cl.code # "notfound"
  BY DEF Served
<1>2. client' \in [Clients -> Requests] /\ \A d \in Clients : ClientOK(d)'
  BY <1>1, IdleType DEF Types, DataTypes, ClientOK, RequestOK
<1>3. CASE UNCHANGED acct
  BY <1>2, <1>3, ToldKept DEF Types, DataTypes
<1>4. ASSUME NEW q \in Procs, ~acct[q].up, system[q],
             acct' = [acct EXCEPT ![q] = PreStart(row[q])]
      PROVE  DataTypes' /\ \A r \in Procs : ToldOK(r)'
  <2>1. /\ acct'[q] = PreStart(row[q])
        /\ \A r \in Procs \ {q} : acct'[r] = acct[r]
    BY <1>4 DEF Types, DataTypes
  <2>2. ToldOK(q)' /\ PreStart(row[q]) \in Accounts
    BY <1>4, <2>1, StartTold
  <2>3. \A r \in Procs \ {q} : ToldOK(r)'
    BY <2>1, ToldKept
  <2>4. acct' \in [Procs -> Accounts]
    BY <1>4, <2>2 DEF Types, DataTypes
  <2> QED
    BY <1>2, <2>2, <2>3, <2>4 DEF Types, DataTypes
<1> QED
  BY <1>2, <1>3, <1>4 DEF Served

LEMMA HandleStep ==
  ASSUME Types, \A q \in Procs : ToldOK(q), \A d \in Clients : ClientOK(d),
         NEW c \in Clients, Handle(c)
  PROVE  /\ DataTypes' /\ (\A q \in Procs : ToldOK(q)')
         /\ \A d \in Clients : ClientOK(d)'
         /\ \A q \in Procs : acct'[q].up = acct[q].up
<1> DEFINE cl == client[c]
<1> PICK q \in Procs : q = cl.at
  BY DEF Types, DataTypes, Requests
<1> DEFINE res == Receive(acct[q], cl.kind, cl.family)
<1>1. /\ cl \in Requests /\ cl.pc \in {"asked", "late"} /\ acct[q].up
      /\ acct' = [acct EXCEPT ![q] = res.acct]
      /\ told' = [told EXCEPT ![q] = Reported(q, cl, res)]
      /\ client' = [client EXCEPT ![c] =
           IF cl.pc = "asked" /\ res.reply = "none"
           THEN [cl EXCEPT !.pc = "mute"] ELSE Idle]
      /\ UNCHANGED <<program, mode, todo, store, system, server, row>>
  BY DEF Handle, Types, DataTypes, Requests
<1>2. cl.kind \in Kinds /\ program \in Programs \ {"blockchain", "ai"}
        /\ acct[q] \in Accounts
  BY <1>1 DEF ClientOK, RequestOK, ToldOK, Types, LifeTypes, DataTypes
<1>3. /\ res.acct \in Accounts
      /\ res.acct.up = acct[q].up
      /\ program \in MemoryPrograms => res.acct.balance >= acct[q].balance
      /\ program \notin MemoryPrograms =>
           /\ acct[q].created => res.acct.balance >= acct[q].balance
           /\ cl.kind # "create" => res.acct.balance >= acct[q].balance
           /\ acct[q].created \/ cl.kind = "create" => res.acct.created
  BY <1>2, ReceiveEffect
<1> HIDE DEF res
<1>4. /\ told[q] \in Nat /\ res.acct.balance \in Nat /\ acct[q].balance \in Nat
      /\ row[q].balance \in Nat
  BY <1>1, <1>2, <1>3 DEF Types, DataTypes, Accounts, Rows
<1>5. /\ acct'[q] = res.acct /\ told'[q] = Reported(q, cl, res) /\ row'[q] = row[q]
      /\ \A r \in Procs \ {q} : acct'[r] = acct[r] /\ told'[r] = told[r]
  BY <1>1 DEF Types, DataTypes
<1> HIDE DEF cl
<1>6. ToldOK(q)'
  <2> DEFINE new == res.acct
  <2>1. /\ program \in Nested => system[q]
        /\ program \notin Stored => row[q].balance = 0
        /\ program \notin Losing => Cents(told[q]) <= Cents(acct[q].balance)
        /\ program \notin Losing \cup MemoryPrograms /\ told[q] > 0 =>
             acct[q].created
    BY <1>1 DEF ToldOK, Current
  <2>2. \/ told'[q] = new.balance /\ (new.created \/ told[q] > 0)
        \/ told'[q] = told[q]
    BY <1>5 DEF Reported
  <2>3. new.up
    BY <1>1, <1>3
  <2> HIDE DEF new
  <2>4. program \notin Losing => Cents(told'[q]) <= Cents(new.balance)
    BY <1>3, <1>4, <2>1, <2>2, CentsFacts DEF new
  <2>5. program \notin Losing \cup MemoryPrograms /\ told'[q] > 0 =>
          new.created
    BY <1>3, <1>4, <2>1, <2>2 DEF new
  <2>6. acct'[q] = new
    BY <1>5 DEF new
  <2> QED
    BY <1>1, <1>2, <1>5, <2>1, <2>3, <2>4, <2>5, <2>6 DEF ToldOK, Current
<1>7. \A r \in Procs \ {q} : ToldOK(r)'
  BY <1>1, <1>5, ToldKept
<1>8. Reported(q, cl, res) \in Nat
  BY <1>4 DEF Reported
<1>9. client' \in [Clients -> Requests] /\ \A d \in Clients : ClientOK(d)'
  <2>1. [cl EXCEPT !.pc = "mute"] \in Requests
          /\ RequestOK([cl EXCEPT !.pc = "mute"])
    BY <1>1, <1>2 DEF Requests, RequestOK, ClientOK, cl
  <2>2. \A d : RequestOK(d)' <=> RequestOK(d)
    BY <1>1 DEF RequestOK
  <2>3. RequestOK(Idle)
    BY IdleType DEF RequestOK
  <2>4. PICK e \in {Idle, [cl EXCEPT !.pc = "mute"]} :
          client' = [client EXCEPT ![c] = e]
    BY <1>1
  <2>5. e \in Requests /\ RequestOK(e)
    BY <2>1, <2>3, <2>4, IdleType
  <2>6. client' \in [Clients -> Requests]
          /\ \A d \in Clients : client'[d] \in {client[d], e}
    BY <2>4, <2>5 DEF Types, DataTypes
  <2> QED
    BY <2>2, <2>5, <2>6 DEF ClientOK
<1>10. DataTypes'
  BY <1>1, <1>3, <1>8, <1>9 DEF Types, DataTypes
<1> QED
  BY <1>3, <1>5, <1>6, <1>7, <1>9, <1>10

\* main of goakt-grains and goakt-persistence.
LEMMA DriveStep ==
  ASSUME Types, NEW p \in Procs, ScriptOK(p), ToldOK(p), Drive(p)
  PROVE  /\ DataTypes' /\ OnlyAccount(p) /\ ToldOK(p)' /\ UNCHANGED client
         /\ StepUp(p) /\ Head(todo[p]) = "credit" => acct'[p].up
<1> DEFINE s == Head(todo[p])
           a == IF acct[p].up THEN acct[p] ELSE PreStart(row[p])
           res == Receive(a, s, "samplepb").acct
<1>1. /\ mode[p] = "starting" /\ s \in Driven /\ StepUp(p) /\ UNCHANGED client
      /\ program' = program
  BY DEF Drive, StepUp
<1>2. todo[p] \in Seq(Steps) /\ todo[p] # <<>> /\ 1 \in 1 .. Len(todo[p])
        /\ s = todo[p][1]
  <2>1. todo[p] \in Seq(Steps) /\ todo[p] # <<>>
    BY <1>1 DEF ScriptOK, Types, LifeTypes
  <2> QED
    BY <2>1, HeadTailProperties, LenProperties, EmptySeq
<1>3. program \in MemoryPrograms
  BY <1>1, <1>2 DEF ScriptOK
<1>4. /\ program \in Stored \ {"blockchain"} /\ program \notin Nested
      /\ program \notin {"blockchain", "ai"} /\ program \in Programs
  BY <1>3 DEF MemoryPrograms, Stored, Programs, Nested
<1>5. /\ acct[p] \in Accounts /\ row[p] \in Rows /\ told[p] \in Nat
      /\ acct[p].balance \in Nat /\ row[p].balance \in Nat
      /\ acct \in [Procs -> Accounts] /\ row \in [Procs -> Rows]
      /\ told \in [Procs -> Nat] /\ client \in [Clients -> Requests]
  BY DEF Types, DataTypes, Accounts, Rows
<1>6. /\ a \in Accounts /\ a.up /\ a.balance \in Nat
      /\ program \notin Losing => Cents(told[p]) <= Cents(a.balance)
  BY <1>4, <1>5, PreStartEffect DEF ToldOK, Current, Accounts
<1>7. CASE s = "activate"
  <2> HIDE DEF a
  <2>1. acct' = [acct EXCEPT ![p] = a] /\ UNCHANGED <<row, told>>
    BY <1>7 DEF Drive, a
  <2>2. /\ DataTypes' /\ OnlyAccount(p) /\ acct'[p] = a /\ row'[p] = row[p]
        /\ told'[p] = told[p]
    BY <1>1, <1>5, <1>6, <2>1 DEF DataTypes, OnlyAccount
  <2>3. ToldOK(p)'
    BY <1>1, <1>3, <1>4, <1>6, <2>2 DEF ToldOK, Current
  <2> QED
    BY <1>1, <1>7, <2>2, <2>3
<1>8. CASE s \in Kinds
  <2>1. res \in Accounts /\ res.up /\ res.balance \in Nat
    <3> HIDE DEF a
    <3>1. res \in Accounts /\ res.up = a.up
      BY <1>4, <1>6, <1>8, ReceiveEffect
    <3> QED
      BY <1>6, <3>1 DEF Accounts
  <2> HIDE DEF res
  <2>2. /\ acct' = [acct EXCEPT ![p] = res]
        /\ row' = [row EXCEPT ![p] = IF s = "get" THEN @ ELSE PostStop(@, res)]
        /\ told' = [told EXCEPT ![p] = res.balance]
    BY <1>8 DEF Drive, Kinds, res, a
  <2>3. PostStop(row[p], res) \in Rows
    BY <1>4, <1>5, <2>1, PostStopEffect
  <2>4. /\ DataTypes' /\ OnlyAccount(p) /\ acct'[p] = res
        /\ told'[p] = res.balance
    BY <1>1, <1>5, <2>1, <2>2, <2>3 DEF DataTypes, OnlyAccount
  <2>5. ToldOK(p)'
    BY <1>1, <1>3, <1>4, <2>1, <2>4, CentsFacts DEF ToldOK, Current
  <2> QED
    BY <1>1, <2>1, <2>4, <2>5
<1>9. CASE s \in {"poison", "passivate"}
  <2>1. acct[p].up
    BY <1>1, <1>2, <1>3, <1>9 DEF ScriptOK, UsedBeforeStop
  <2>2. /\ acct' = [acct EXCEPT ![p] = NoActor]
        /\ row' = [row EXCEPT ![p] = PostStop(@, acct[p])]
        /\ UNCHANGED told
    BY <1>9 DEF Drive, Kinds
  <2>3. /\ PostStop(row[p], acct[p]) \in Rows
        /\ Cents(PostStop(row[p], acct[p]).balance) = Cents(acct[p].balance)
    BY <1>3, <1>4, <1>5, PostStopEffect
  <2>4. /\ DataTypes' /\ OnlyAccount(p) /\ acct'[p] = NoActor
        /\ told'[p] = told[p]
        /\ Cents(row'[p].balance) = Cents(acct[p].balance)
    BY <1>1, <1>5, <2>2, <2>3, NoActorType DEF DataTypes, OnlyAccount
  <2>5. ToldOK(p)'
    BY <1>1, <1>3, <1>4, <2>1, <2>4, NoActorType DEF ToldOK, Current
  <2> QED
    BY <1>1, <1>9, <2>4, <2>5
<1> QED
  BY <1>1, <1>7, <1>8, <1>9 DEF Driven, Kinds

\* The stop of a process: the account stops with the actor system.
LEMMA DownStep ==
  ASSUME Types, NEW p \in Procs, ScriptOK(p), ToldOK(p), Down(p),
         \A c \in Clients : ClientOK(c)
  PROVE  DataTypes' /\ OnlyAccount(p) /\ ToldOK(p)' /\ \A c \in Clients : ClientOK(c)'
<1>1. /\ StepDown(p) /\ mode[p] = "stopping" /\ program' = program
      /\ todo[p] # <<>> /\ todo[p] \in Seq(Steps)
  BY StepDownScript DEF Down, Types, LifeTypes, Alone
<1>2. client' \in [Clients -> Requests] /\ \A c \in Clients : ClientOK(c)'
  <2>1. client' = [c \in Clients |->
          IF mode'[p] = "off" THEN Orphaned(client[c], p)
          ELSE IF ~system'[p] THEN Settled(client[c], p)
          ELSE client[c]]
    BY DEF Down
  <2>2. \A c \in Clients : client'[c] \in Requests /\ RequestOK(client'[c])
    BY <2>1, OrphanedOK DEF Types, DataTypes, ClientOK
  <2> QED
    BY <1>1, <2>1, <2>2 DEF ClientOK, RequestOK
<1>3. CASE Head(todo[p]) = "system"
  <2>1. AccountStops(p)
    BY <1>3 DEF Down
  <2> QED
    BY <1>1, <1>2, <2>1, StopsTold DEF DataTypes
<1>4. CASE Head(todo[p]) # "system"
  <2>1. program \in Nested => ~acct[p].up
    BY <1>1, <1>4 DEF ScriptOK, ToldOK
  <2>2. CASE Head(todo[p]) = "store" /\ program \in MemoryPrograms
    <3>1. /\ row' = [row EXCEPT ![p] = Disconnect(@)]
          /\ told' = [told EXCEPT ![p] = 0]
          /\ UNCHANGED acct
      BY <2>2 DEF Down
    <3>2. /\ row' \in [Procs -> Rows] /\ told' \in [Procs -> Nat]
          /\ row'[p] = NoRow /\ told'[p] = 0 /\ OnlyAccount(p)
          /\ acct[p] \in Accounts
      BY <3>1, NoRowType DEF Types, DataTypes, Disconnect, OnlyAccount
    <3>3. ToldOK(p)'
      <4>1. /\ program \notin Nested /\ program \notin {"blockchain", "ai"}
            /\ acct[p].balance \in Nat
        BY <2>2, <3>2 DEF MemoryPrograms, Nested, Accounts
      <4> QED
        BY <1>1, <2>2, <3>1, <3>2, <4>1, NoRowType, CentsFacts DEF ToldOK, Current
    <3> QED
      BY <1>2, <3>1, <3>2, <3>3 DEF Types, DataTypes
  <2>3. CASE ~(Head(todo[p]) = "store" /\ program \in MemoryPrograms)
    <3>1. UNCHANGED <<acct, row, told>>
      BY <1>4, <2>3 DEF Down
    <3>2. ToldOK(p)'
      BY <1>1, <2>1, <3>1, ToldKept
    <3> QED
      BY <1>2, <3>1, <3>2 DEF Types, DataTypes, OnlyAccount
  <2> QED
    BY <2>2, <2>3
<1> QED
  BY <1>3, <1>4

-----------------------------------------------------------------------------
(* The invariant *)

LEMMA ScriptKept ==
  ASSUME NEW q \in Procs, ScriptOK(q), program' = program,
         mode'[q] = mode[q], todo'[q] = todo[q], store'[q] = store[q],
         system'[q] = system[q], server'[q] = server[q],
         program \notin MemoryPrograms \/ acct'[q].up = acct[q].up
  PROVE  ScriptOK(q)'
  BY DEF ScriptOK

\* A step of process p leaves the invariant alone at the others.
LEMMA AloneStep ==
  ASSUME IInv, NEW p \in Procs, Alone(p), OnlyAccount(p), LifeTypes', DataTypes',
         ScriptOK(p)', ToldOK(p)', \A c \in Clients : ClientOK(c)'
  PROVE  IInv'
<1>1. ASSUME NEW q \in Procs, q # p PROVE ScriptOK(q)' /\ ToldOK(q)'
  BY <1>1, ScriptKept, ToldKept DEF IInv, Alone, OnlyAccount
<1> QED
  BY <1>1 DEF IInv, Types

LEMMA ClientsKept ==
  ASSUME \A c \in Clients : ClientOK(c), UNCHANGED <<program, client>>
  PROVE  \A c \in Clients : ClientOK(c)'
  BY DEF ClientOK, RequestOK

LEMMA IInvInit == Init => IInv
<1> SUFFICES ASSUME Init PROVE IInv
  OBVIOUS
<1>1. /\ program \in Programs
      /\ \A p \in Procs : /\ mode[p] = "off" /\ ~store[p] /\ ~system[p]
                          /\ server[p] = "none" /\ acct[p] = NoActor
                          /\ row[p] = NoRow /\ told[p] = 0
      /\ \A c \in Clients : client[c] = Idle
  BY DEF Init, LifecycleInit
<1>2. LifeTypes
  BY EmptySeq DEF Init, LifecycleInit, LifeTypes, Modes, ServerStates
<1>3. DataTypes
  BY NoActorType, NoRowType, IdleType DEF Init, DataTypes
<1>4. \A p \in Procs : ScriptOK(p) /\ ToldOK(p)
  <2> SUFFICES ASSUME NEW p \in Procs PROVE ScriptOK(p) /\ ToldOK(p)
    OBVIOUS
  <2>1. /\ mode[p] = "off" /\ ~store[p] /\ ~system[p] /\ server[p] = "none"
        /\ ~acct[p].up /\ row[p].balance = 0 /\ told[p] = 0
    BY <1>1, NoActorType, NoRowType
  <2>2. ScriptOK(p)
    BY <2>1 DEF ScriptOK
  <2>3. ToldOK(p)
    BY <2>1, CentsFacts DEF ToldOK, Current
  <2> QED
    BY <2>2, <2>3
<1>5. \A c \in Clients : ClientOK(c)
  BY <1>1, IdleType DEF ClientOK, RequestOK
<1> QED
  BY <1>2, <1>3, <1>4, <1>5 DEF IInv, Types

LEMMA IInvStep == IInv /\ [Next]_vars => IInv'
<1> SUFFICES ASSUME IInv, [Next]_vars PROVE IInv'
  OBVIOUS
<1>0. /\ Types /\ LifeTypes /\ DataTypes
      /\ \A p \in Procs : ScriptOK(p) /\ ToldOK(p)
      /\ \A c \in Clients : ClientOK(c)
      /\ Deployed \subseteq Procs
  BY LocalAssumption DEF IInv, Types, Deployed
<1>a. ASSUME NEW p \in Procs, UNCHANGED accountVars
      PROVE  OnlyAccount(p) /\ DataTypes'
  BY <1>0, <1>a DEF OnlyAccount, DataTypes
<1>1. ASSUME NEW p \in Deployed, Started(p) PROVE IInv'
  <2>1. Boot(p) /\ UNCHANGED accountVars /\ p \in Procs
    BY <1>0, <1>1 DEF Started
  <2>2. LifeTypes' /\ Alone(p) /\ ScriptOK(p)'
    BY <1>0, <2>1, BootScript
  <2>3. ToldOK(p)'
    BY <1>0, <2>1, ToldKept DEF Boot
  <2> QED
    BY <1>0, <1>a, <2>1, <2>2, <2>3, ClientsKept, AloneStep DEF Boot
<1>2. ASSUME NEW p \in Deployed, Signalled(p) PROVE IInv'
  <2>1. Signal(p) /\ UNCHANGED accountVars /\ p \in Procs
    BY <1>0, <1>2 DEF Signalled
  <2>2. LifeTypes' /\ Alone(p) /\ ScriptOK(p)'
    BY <1>0, <2>1, SignalScript
  <2>3. ToldOK(p)'
    BY <1>0, <2>1, ToldKept DEF Signal
  <2> QED
    BY <1>0, <1>a, <2>1, <2>2, <2>3, ClientsKept, AloneStep DEF Signal
<1>3. ASSUME NEW p \in Deployed, Up(p) PROVE IInv'
  <2>1. /\ StepUp(p) /\ UNCHANGED accountVars /\ p \in Procs
        /\ Head(todo[p]) # "credit" /\ program' = program
    BY <1>0, <1>3 DEF Up, StepUp, Driven
  <2>2. LifeTypes' /\ Alone(p) /\ ScriptOK(p)'
    BY <1>0, <2>1, StepUpScript
  <2>3. system[p] => system'[p]
    BY <1>0, <2>1 DEF StepUp, LifeTypes
  <2>4. ToldOK(p)'
    BY <1>0, <2>1, <2>3 DEF ToldOK, Current
  <2> QED
    BY <1>0, <1>a, <2>1, <2>2, <2>4, ClientsKept, AloneStep
<1>4. ASSUME NEW p \in Deployed, Drive(p) PROVE IInv'
  <2>1. /\ DataTypes' /\ OnlyAccount(p) /\ ToldOK(p)' /\ UNCHANGED client
        /\ StepUp(p) /\ p \in Procs
        /\ Head(todo[p]) = "credit" => acct'[p].up
    BY <1>0, <1>4, DriveStep DEF Drive
  <2>2. LifeTypes' /\ Alone(p) /\ ScriptOK(p)'
    BY <1>0, <2>1, StepUpScript
  <2>3. program' = program
    BY <2>2 DEF Alone
  <2> QED
    BY <1>0, <2>1, <2>2, <2>3, ClientsKept, AloneStep
<1>5. ASSUME NEW p \in Deployed, Listens(p) PROVE IInv'
  <2>1. /\ LifeTypes' /\ Alone(p) /\ ScriptOK(p)' /\ p \in Procs
        /\ mode'[p] = "off" \/ system' = system
    BY <1>0, <1>5, ListenScript DEF Listens
  <2>2. program' = program
    BY <2>1 DEF Alone
  <2>3. CASE mode'[p] = "off"
    <3>1. Abandoned(p)
      BY <1>5, <2>3 DEF Listens
    <3> QED
      BY <1>0, <2>1, <2>2, <3>1, AbandonedTold, AloneStep
  <2>4. CASE mode'[p] # "off"
    <3>1. UNCHANGED accountVars /\ system' = system
      BY <1>5, <2>1, <2>4 DEF Listens
    <3>2. ToldOK(p)'
      BY <1>0, <2>1, <2>2, <3>1, ToldKept
    <3> QED
      BY <1>0, <1>a, <2>1, <2>2, <3>1, <3>2, ClientsKept, AloneStep
  <2> QED
    BY <2>3, <2>4
<1>6. ASSUME NEW p \in Deployed, Down(p) PROVE IInv'
  <2>1. StepDown(p) /\ p \in Procs
    BY <1>0, <1>6 DEF Down
  <2>2. LifeTypes' /\ Alone(p) /\ ScriptOK(p)'
    BY <1>0, <2>1, StepDownScript
  <2>3. /\ DataTypes' /\ OnlyAccount(p) /\ ToldOK(p)'
        /\ \A c \in Clients : ClientOK(c)'
    BY <1>0, <1>6, <2>1, DownStep
  <2> QED
    BY <2>1, <2>2, <2>3, AloneStep
<1>7. ASSUME NEW p \in Deployed, Crash(p) PROVE IInv'
  <2>1. Exited(p) /\ Abandoned(p) /\ p \in Procs
    BY <1>0, <1>7 DEF Crash, StepFails, StepDownFatal, Kill
  <2>2. LifeTypes' /\ Alone(p) /\ ScriptOK(p)' /\ program' = program
    BY <1>0, <2>1, ExitedScript DEF Alone
  <2> QED
    BY <1>0, <2>1, <2>2, AbandonedTold, AloneStep
<1>8. ASSUME NEW p \in Deployed, GrainPassivates(p) PROVE IInv'
  <2>1. /\ AccountStops(p) /\ p \in Procs /\ program = "grains-dnssd"
        /\ UNCHANGED <<program, mode, todo, store, system, server, client>>
    BY <1>0, <1>8 DEF GrainPassivates
  <2>2. /\ acct' \in [Procs -> Accounts] /\ row' \in [Procs -> Rows]
        /\ told' \in [Procs -> Nat]
        /\ OnlyAccount(p) /\ ToldOK(p)'
    BY <1>0, <2>1, StopsTold
  <2>3. LifeTypes' /\ Alone(p) /\ ScriptOK(p)'
    BY <1>0, <2>1, ScriptKept DEF LifeTypes, Alone, MemoryPrograms
  <2>4. DataTypes'
    BY <1>0, <2>1, <2>2 DEF DataTypes
  <2> QED
    BY <1>0, <2>1, <2>2, <2>3, <2>4, ClientsKept, AloneStep
<1>9. ASSUME NEW p \in Deployed, NEW c \in Clients, Request(c, p) PROVE IInv'
  <2>1. /\ Served(c)
        /\ program \notin MemoryPrograms \cup {"blockchain", "ai"}
        /\ UNCHANGED <<program, mode, todo, store, system, server, row, told>>
    BY <1>0, <1>9, RequestServes
  <2>2. /\ DataTypes' /\ \A q \in Procs : ToldOK(q)'
        /\ \A d \in Clients : ClientOK(d)'
    BY <1>0, <2>1, ServedStep
  <2>3. LifeTypes' /\ \A q \in Procs : ScriptOK(q)'
    BY <1>0, <2>1, ScriptKept DEF LifeTypes
  <2> QED
    BY <2>2, <2>3 DEF IInv, Types
<1>10. ASSUME NEW c \in Clients, Handle(c) PROVE IInv'
  <2>1. /\ DataTypes' /\ \A q \in Procs : ToldOK(q)'
        /\ \A d \in Clients : ClientOK(d)'
        /\ \A q \in Procs : acct'[q].up = acct[q].up
        /\ UNCHANGED <<program, mode, todo, store, system, server>>
    BY <1>0, <1>10, HandleStep DEF Handle
  <2>2. LifeTypes' /\ \A q \in Procs : ScriptOK(q)'
    BY <1>0, <2>1, ScriptKept DEF LifeTypes
  <2> QED
    BY <2>1, <2>2 DEF IInv, Types
<1>11. ASSUME NEW c \in Clients, Timeout(c) PROVE IInv'
  <2>1. /\ UNCHANGED <<program, mode, todo, store, system, server, acct, row, told>>
        /\ client[c].pc \in {"asked", "mute"}
        /\ client' = [client EXCEPT ![c] =
             IF @.pc = "asked" THEN [@ EXCEPT !.pc = "late"] ELSE Idle]
    BY <1>11 DEF Timeout
  <2>2. LifeTypes' /\ \A q \in Procs : ScriptOK(q)' /\ ToldOK(q)'
    BY <1>0, <2>1, ScriptKept, ToldKept DEF LifeTypes
  <2>3. PICK e \in {Idle, [client[c] EXCEPT !.pc = "late"]} :
          client' = [client EXCEPT ![c] = e]
    BY <2>1
  <2>4. client[c] \in Requests /\ RequestOK(client[c])
    BY <1>0 DEF DataTypes, ClientOK
  <2>5. e \in Requests /\ RequestOK(e)
    <3>1. CASE e = Idle
      BY <3>1, IdleType DEF RequestOK
    <3>2. CASE e = [client[c] EXCEPT !.pc = "late"]
      BY <2>1, <2>4, <3>2 DEF Requests, RequestOK
    <3> QED
      BY <2>3, <3>1, <3>2
  <2>6. /\ client' \in [Clients -> Requests]
        /\ \A d \in Clients : client'[d] \in {client[d], e}
    BY <1>0, <2>3, <2>5 DEF DataTypes
  <2>7. \A d \in Clients : ClientOK(d)'
    <3>1. \A d \in Clients : RequestOK(client'[d])
      BY <1>0, <2>5, <2>6 DEF ClientOK
    <3> QED
      BY <2>1, <3>1 DEF ClientOK, RequestOK
  <2>8. DataTypes'
    BY <1>0, <2>1, <2>6 DEF DataTypes
  <2> QED
    BY <2>2, <2>7, <2>8 DEF IInv, Types
<1>12. CASE UNCHANGED vars
  <2>1. LifeTypes' /\ DataTypes' /\ \A q \in Procs : ScriptOK(q)' /\ ToldOK(q)'
    BY <1>0, <1>12, ScriptKept, ToldKept DEF vars, LifeTypes, DataTypes
  <2>2. \A c \in Clients : ClientOK(c)'
    BY <1>0, <1>12, ClientsKept DEF vars
  <2> QED
    BY <2>1, <2>2 DEF IInv, Types
<1> QED
  BY <1>1, <1>2, <1>3, <1>4, <1>5, <1>6, <1>7, <1>8, <1>9, <1>10, <1>11, <1>12
     DEF Next

\* The inductive invariant of all the account programs.
THEOREM Invariance == Spec => []IInv
  BY IInvInit, IInvStep, PTL DEF Spec

\* In every program that has a store and a server, the store is open as long as
\* the actor system runs, through failed starts, signals, crashes and panics of
\* the stop: run.go starts and stops the two in nested order.
THEOREM NestedLifetimes == Spec => []StoreOutlivesSystem
<1>1. IInv => StoreOutlivesSystem
  BY DEF IInv, ScriptOK, StoreOutlivesSystem, Nested
<1> QED
  BY <1>1, Invariance, PTL

\* A client that is answered "account not found" has no credit in a mailbox, for
\* any interleaving of lookups, timeouts and stops.
THEOREM NotFoundMeansNotCredited == Spec => []NotFoundNotCredited
<1>1. IInv => NotFoundNotCredited
  BY DEF IInv, ClientOK, RequestOK, NotFoundNotCredited
<1> QED
  BY <1>1, Invariance, PTL

\* A balance that a client was told is in the actor or in the row it will be
\* loaded from, in every program but the two with transfers, through restarts,
\* timeouts, repeated CreateAccounts and forwarded requests.
THEOREM ToldBalancesKept == Spec => []ToldBalanceKept
<1>1. IInv => ToldBalanceKept
  BY DEF IInv, ToldOK, ToldBalanceKept, ToldBalanceSurvives, Cents, Losing
<1> QED
  BY <1>1, Invariance, PTL

-----------------------------------------------------------------------------
(***************************************************************************)
(* The chat.                                                               *)
(*                                                                         *)
(* ServerAgrees is about an address whose messages are all handled.  The   *)
(* invariant is about those that are not: once the server has handled what *)
(* is in its mailbox, the address will be off, or on as some user in some  *)
(* room.  An address is on by the first Connect after the last Disconnect, *)
(* for a Connect of an address that is connected is ignored.               *)
(***************************************************************************)

-----------------------------------------------------------------------------
(* What a mailbox will do to an address *)

\* The i-th letter of box is one of address a, of this type.
Is(box, i, a, type) == box[i].from = a /\ box[i].wire.body.type = type

\* What the server will know of the sender of a Connect.
InfoOf(letter) ==
  [user |-> letter.wire.body.user, room |-> letter.wire.body.room,
   codec |-> IF letter.wire.family = "chatpb" THEN "proto" ELSE "cbor"]

\* Address a, which is known now or not, will not be.
Off(box, a, known) ==
  /\ known => \E k \in 1 .. Len(box) : Is(box, k, a, "Disconnect")
  /\ \A j \in 1 .. Len(box) : Is(box, j, a, "Connect") =>
       \E k \in 1 .. Len(box) : k > j /\ Is(box, k, a, "Disconnect")

\* The i-th letter is the Connect that counts.
Deciding(box, a, known, info, i) ==
  /\ Is(box, i, a, "Connect") /\ InfoOf(box[i]) = info
  /\ \A k \in 1 .. Len(box) : k > i => ~Is(box, k, a, "Disconnect")
  /\ \A j \in 1 .. Len(box) : j < i /\ Is(box, j, a, "Connect") =>
       \E k \in 1 .. Len(box) : j < k /\ k < i /\ Is(box, k, a, "Disconnect")
  /\ known => \E k \in 1 .. Len(box) : k < i /\ Is(box, k, a, "Disconnect")

\* Address a, known as has if it is known, will be known as info.
On(box, a, known, has, info) ==
  \/ known /\ has = info /\ \A k \in 1 .. Len(box) : ~Is(box, k, a, "Disconnect")
  \/ \E i \in 1 .. Len(box) : Deciding(box, a, known, info, i)

\* One more letter.
LEMMA Appended ==
  ASSUME NEW S, NEW box \in Seq(S), NEW letter \in S, NEW all, all = Append(box, letter)
  PROVE  /\ Len(box) \in Nat /\ Len(all) = Len(box) + 1
         /\ all[Len(box) + 1] = letter
         /\ \A i \in 1 .. Len(box) : all[i] = box[i]
  BY AppendProperties, LenProperties

\* A Disconnect turns its sender off.
LEMMA AppendDisconnect ==
  ASSUME NEW S, NEW box \in Seq(S), NEW letter \in S, NEW all, all = Append(box, letter),
         NEW a, NEW known, letter.from = a, letter.wire.body.type = "Disconnect"
  PROVE  Off(all, a, known)
<1>1. PICK n \in Nat : Len(all) = n + 1 /\ all[n + 1] = letter
  BY Appended
<1>2. /\ n + 1 \in 1 .. Len(all)
      /\ Is(all, n + 1, a, "Disconnect") /\ ~Is(all, n + 1, a, "Connect")
  BY <1>1 DEF Is
<1>3. \A j \in 1 .. Len(all) : j = n + 1 \/ n + 1 > j
  BY <1>1
<1> QED
  BY <1>1, <1>2, <1>3 DEF Off

\* Any other letter of a, and any letter of another, changes nothing for a.
LEMMA AppendOther ==
  ASSUME NEW S, NEW box \in Seq(S), NEW letter \in S, NEW all, all = Append(box, letter),
         NEW a, NEW known, NEW has, NEW info,
         letter.from = a => letter.wire.body.type \notin {"Connect", "Disconnect"}
  PROVE  /\ Off(box, a, known) => Off(all, a, known)
         /\ On(box, a, known, has, info) => On(all, a, known, has, info)
<1>1. PICK n \in Nat : /\ n = Len(box) /\ Len(all) = n + 1 /\ all[n + 1] = letter
                       /\ \A i \in 1 .. n : all[i] = box[i]
  BY Appended
<1>2. /\ \A i \in 1 .. n : /\ all[i] = box[i]
                           /\ Is(all, i, a, "Connect") <=> Is(box, i, a, "Connect")
                           /\ Is(all, i, a, "Disconnect") <=> Is(box, i, a, "Disconnect")
      /\ ~Is(all, n + 1, a, "Connect") /\ ~Is(all, n + 1, a, "Disconnect")
  BY <1>1 DEF Is
<1>3. \A i : i \in 1 .. n + 1 <=> i \in 1 .. n \/ i = n + 1
  OBVIOUS
<1>4. Off(box, a, known) => Off(all, a, known)
  BY <1>1, <1>2, <1>3 DEF Off
<1>5. ASSUME NEW i \in 1 .. n, Deciding(box, a, known, info, i)
      PROVE  Deciding(all, a, known, info, i)
  BY <1>1, <1>2, <1>3, <1>5 DEF Deciding
<1>6. On(box, a, known, has, info) => On(all, a, known, has, info)
  BY <1>1, <1>2, <1>3, <1>5 DEF On
<1> QED
  BY <1>4, <1>6

\* A Connect turns its sender on if it would be off, and is ignored otherwise.
LEMMA AppendConnect ==
  ASSUME NEW S, NEW box \in Seq(S), NEW letter \in S, NEW all, all = Append(box, letter),
         NEW a, NEW known, NEW has, NEW info,
         letter.from = a, letter.wire.body.type = "Connect"
  PROVE  /\ Off(box, a, known) /\ InfoOf(letter) = info => On(all, a, known, has, info)
         /\ On(box, a, known, has, info) => On(all, a, known, has, info)
<1>1. PICK n \in Nat : /\ n = Len(box) /\ Len(all) = n + 1 /\ all[n + 1] = letter
                       /\ \A i \in 1 .. n : all[i] = box[i]
  BY Appended
<1>2. /\ \A i \in 1 .. n : /\ all[i] = box[i]
                           /\ Is(all, i, a, "Connect") <=> Is(box, i, a, "Connect")
                           /\ Is(all, i, a, "Disconnect") <=> Is(box, i, a, "Disconnect")
      /\ Is(all, n + 1, a, "Connect") /\ ~Is(all, n + 1, a, "Disconnect")
  BY <1>1 DEF Is
<1>3. \A i : i \in 1 .. n + 1 <=> i \in 1 .. n \/ i = n + 1
  OBVIOUS
<1>4. ASSUME Off(box, a, known), InfoOf(letter) = info
      PROVE  Deciding(all, a, known, info, n + 1)
  <2>1. \A k \in 1 .. n + 1 : ~(k > n + 1) /\ (k < n + 1 <=> k \in 1 .. n)
    OBVIOUS
  <2> QED
    BY <1>1, <1>2, <1>3, <1>4, <2>1 DEF Deciding, Off
<1>5. ASSUME NEW i \in 1 .. n, Deciding(box, a, known, info, i)
      PROVE  Deciding(all, a, known, info, i)
  <2>1. ~(n + 1 < i)
    OBVIOUS
  <2> QED
    BY <1>1, <1>2, <1>3, <1>5, <2>1 DEF Deciding
<1>6. On(box, a, known, has, info) => On(all, a, known, has, info)
  BY <1>1, <1>2, <1>3, <1>5 DEF On
<1> QED
  BY <1>1, <1>3, <1>4, <1>6 DEF On

\* The first letter is taken out.
LEMMA Tailed ==
  ASSUME NEW S, NEW box \in Seq(S), box # <<>>, NEW rest, rest = Tail(box)
  PROVE  /\ Len(rest) \in Nat /\ Len(box) = Len(rest) + 1
         /\ Head(box) = box[1]
         /\ \A i \in 1 .. Len(rest) : rest[i] = box[i + 1]
<1>1. /\ Head(box) = box[1] /\ Len(box) \in Nat /\ Len(rest) = Len(box) - 1 /\ Len(rest) \in Nat
      /\ \A i \in 1 .. Len(rest) : rest[i] = box[i + 1]
  BY HeadTailProperties, LenProperties
<1> QED
  BY <1>1
\* The places of the letters of a in the rest of the box and in the box.
IsShift(box, rest, n, a) ==
  /\ Len(box) = n + 1
  /\ \A x \in 1 .. n :
       /\ x + 1 \in 1 .. n + 1 /\ rest[x] = box[x + 1]
       /\ Is(rest, x, a, "Connect") <=> Is(box, x + 1, a, "Connect")
       /\ Is(rest, x, a, "Disconnect") <=> Is(box, x + 1, a, "Disconnect")
  /\ \A k \in 1 .. n + 1 : k = 1 \/ \E x \in 1 .. n : k = x + 1

LEMMA Shifted ==
  ASSUME NEW S, NEW box \in Seq(S), box # <<>>, NEW rest, rest = Tail(box),
         NEW n \in Nat, n = Len(rest), NEW a
  PROVE  IsShift(box, rest, n, a)
<1>1. /\ Len(box) = n + 1
      /\ \A i \in 1 .. n : rest[i] = box[i + 1]
  BY Tailed
<1>2. ASSUME NEW k \in 1 .. n + 1, k # 1 PROVE \E i \in 1 .. n : k = i + 1
  <2>1. k - 1 \in 1 .. n /\ k = (k - 1) + 1
    BY <1>2
  <2> QED
    BY <2>1
<1>3. \A i \in 1 .. n : i + 1 \in 1 .. n + 1
  OBVIOUS
<1> QED
  BY <1>1, <1>2, <1>3 DEF Is, IsShift

\* The Connect that counts moves up with the others.
LEMMA DecidingShifts ==
  ASSUME NEW S, NEW box \in Seq(S), box # <<>>, NEW rest, rest = Tail(box),
         NEW a, NEW info, NEW known, NEW later,
         NEW i \in 1 .. Len(rest), Deciding(box, a, known, info, i + 1),
         later => \E k \in 1 .. Len(rest) : k < i /\ Is(rest, k, a, "Disconnect")
  PROVE  Deciding(rest, a, later, info, i)
<1>1. PICK n \in Nat : n = Len(rest)
  BY Tailed
<1>s. IsShift(box, rest, n, a)
  BY <1>1, Shifted
<1>2. /\ Len(box) = n + 1
      /\ \A x \in 1 .. n :
           /\ x + 1 \in 1 .. n + 1 /\ rest[x] = box[x + 1]
           /\ Is(rest, x, a, "Connect") <=> Is(box, x + 1, a, "Connect")
           /\ Is(rest, x, a, "Disconnect") <=> Is(box, x + 1, a, "Disconnect")
      /\ \A k \in 1 .. n + 1 : k = 1 \/ \E x \in 1 .. n : k = x + 1
  BY <1>s DEF IsShift
<1>3. Is(rest, i, a, "Connect") /\ InfoOf(rest[i]) = info
  BY <1>1, <1>2 DEF Deciding
<1>4. ASSUME NEW k \in 1 .. n, k > i PROVE ~Is(rest, k, a, "Disconnect")
  <2>1. k + 1 > i + 1 /\ k + 1 \in 1 .. Len(box)
    BY <1>1, <1>2, <1>4
  <2> QED
    BY <1>2, <2>1 DEF Deciding
<1>5. ASSUME NEW j \in 1 .. n, j < i, Is(rest, j, a, "Connect")
      PROVE  \E k \in 1 .. n : j < k /\ k < i /\ Is(rest, k, a, "Disconnect")
  <2>1. j + 1 < i + 1 /\ j + 1 \in 1 .. Len(box) /\ Is(box, j + 1, a, "Connect")
    BY <1>1, <1>2, <1>5
  <2>2. PICK k \in 1 .. n + 1 : j + 1 < k /\ k < i + 1 /\ Is(box, k, a, "Disconnect")
    BY <1>2, <2>1 DEF Deciding
  <2>3. PICK x \in 1 .. n : k = x + 1
    BY <1>2, <2>2
  <2>4. j < x /\ x < i /\ Is(rest, x, a, "Disconnect")
    BY <1>1, <1>2, <2>2, <2>3
  <2> QED
    BY <2>4
<1> QED
  BY <1>1, <1>3, <1>4, <1>5 DEF Deciding

\* Taking out a letter that says nothing about a changes nothing for a.
LEMMA TailOther ==
  ASSUME NEW S, NEW box \in Seq(S), box # <<>>, NEW rest, rest = Tail(box),
         NEW a, NEW known, NEW has, NEW info,
         ~Is(box, 1, a, "Connect"), ~Is(box, 1, a, "Disconnect")
  PROVE  /\ Off(box, a, known) => Off(rest, a, known)
         /\ On(box, a, known, has, info) => On(rest, a, known, has, info)
<1>1. PICK n \in Nat : n = Len(rest)
  BY Tailed
<1>s. IsShift(box, rest, n, a)
  BY <1>1, Shifted
<1>2. /\ Len(box) = n + 1
      /\ \A x \in 1 .. n :
           /\ x + 1 \in 1 .. n + 1 /\ rest[x] = box[x + 1]
           /\ Is(rest, x, a, "Connect") <=> Is(box, x + 1, a, "Connect")
           /\ Is(rest, x, a, "Disconnect") <=> Is(box, x + 1, a, "Disconnect")
      /\ \A k \in 1 .. n + 1 : k = 1 \/ \E x \in 1 .. n : k = x + 1
  BY <1>s DEF IsShift
<1>3. ASSUME NEW k \in 1 .. n + 1, Is(box, k, a, "Disconnect")
      PROVE  \E x \in 1 .. n : k = x + 1 /\ Is(rest, x, a, "Disconnect")
  BY <1>2, <1>3
<1>4. ASSUME Off(box, a, known) PROVE Off(rest, a, known)
  <2>1. known => \E k \in 1 .. n : Is(rest, k, a, "Disconnect")
    BY <1>2, <1>3, <1>4 DEF Off
  <2>2. ASSUME NEW j \in 1 .. n, Is(rest, j, a, "Connect")
        PROVE  \E k \in 1 .. n : k > j /\ Is(rest, k, a, "Disconnect")
    <3>1. PICK k \in 1 .. n + 1 : k > j + 1 /\ Is(box, k, a, "Disconnect")
      BY <1>2, <1>4, <2>2 DEF Off
    <3>2. PICK x \in 1 .. n : k = x + 1 /\ Is(rest, x, a, "Disconnect")
      BY <1>3, <3>1
    <3> QED
      BY <3>1, <3>2
  <2> QED
    BY <1>1, <2>1, <2>2 DEF Off
<1>5. ASSUME On(box, a, known, has, info) PROVE On(rest, a, known, has, info)
  <2>1. CASE known /\ has = info /\ \A k \in 1 .. Len(box) : ~Is(box, k, a, "Disconnect")
    BY <1>1, <1>2, <2>1 DEF On
  <2>2. ASSUME NEW i \in 1 .. Len(box), Deciding(box, a, known, info, i)
        PROVE  On(rest, a, known, has, info)
    <3>1. i # 1
      BY <2>2 DEF Deciding
    <3>2. PICK x \in 1 .. n : i = x + 1
      BY <1>2, <2>2, <3>1
    <3>3. known => \E k \in 1 .. Len(rest) : k < x /\ Is(rest, k, a, "Disconnect")
      <4> SUFFICES ASSUME known PROVE \E k \in 1 .. n : k < x /\ Is(rest, k, a, "Disconnect")
        BY <1>1
      <4>1. PICK k \in 1 .. n + 1 : k < i /\ Is(box, k, a, "Disconnect")
        BY <1>2, <2>2 DEF Deciding
      <4>2. PICK y \in 1 .. n : k = y + 1 /\ Is(rest, y, a, "Disconnect")
        BY <1>3, <4>1
      <4> QED
        BY <3>2, <4>1, <4>2
    <3>4. Deciding(rest, a, known, info, x)
      BY <1>1, <2>2, <3>2, <3>3, DecidingShifts
    <3> QED
      BY <1>1, <3>4 DEF On
  <2> QED
    BY <1>5, <2>1, <2>2 DEF On
<1> QED
  BY <1>4, <1>5

\* A Connect of a is handled: a is known from now on, as it was or by this.
LEMMA TailConnect ==
  ASSUME NEW S, NEW box \in Seq(S), box # <<>>, NEW rest, rest = Tail(box),
         NEW a, NEW known, NEW has, NEW info, NEW then,
         Is(box, 1, a, "Connect"), then = (IF known THEN has ELSE InfoOf(box[1]))
  PROVE  /\ Off(box, a, known) => Off(rest, a, TRUE)
         /\ On(box, a, known, has, info) => On(rest, a, TRUE, then, info)
<1>1. PICK n \in Nat : n = Len(rest)
  BY Tailed
<1>s. IsShift(box, rest, n, a)
  BY <1>1, Shifted
<1>2. /\ Len(box) = n + 1
      /\ \A x \in 1 .. n :
           /\ x + 1 \in 1 .. n + 1 /\ rest[x] = box[x + 1]
           /\ Is(rest, x, a, "Connect") <=> Is(box, x + 1, a, "Connect")
           /\ Is(rest, x, a, "Disconnect") <=> Is(box, x + 1, a, "Disconnect")
      /\ \A k \in 1 .. n + 1 : k = 1 \/ \E x \in 1 .. n : k = x + 1
  BY <1>s DEF IsShift
<1>0. ~Is(box, 1, a, "Disconnect") /\ 1 \in 1 .. Len(box)
  BY <1>2 DEF Is
<1>3. ASSUME NEW k \in 1 .. n + 1, Is(box, k, a, "Disconnect")
      PROVE  \E x \in 1 .. n : k = x + 1 /\ Is(rest, x, a, "Disconnect")
  BY <1>0, <1>2, <1>3
<1>4. ASSUME Off(box, a, known) PROVE Off(rest, a, TRUE)
  <2>1. \E k \in 1 .. n : Is(rest, k, a, "Disconnect")
    BY <1>0, <1>2, <1>3, <1>4 DEF Off
  <2>2. ASSUME NEW j \in 1 .. n, Is(rest, j, a, "Connect")
        PROVE  \E k \in 1 .. n : k > j /\ Is(rest, k, a, "Disconnect")
    <3>1. PICK k \in 1 .. n + 1 : k > j + 1 /\ Is(box, k, a, "Disconnect")
      BY <1>2, <1>4, <2>2 DEF Off
    <3>2. PICK x \in 1 .. n : k = x + 1 /\ Is(rest, x, a, "Disconnect")
      BY <1>3, <3>1
    <3> QED
      BY <3>1, <3>2
  <2> QED
    BY <1>1, <2>1, <2>2 DEF Off
<1>5. ASSUME On(box, a, known, has, info) PROVE On(rest, a, TRUE, then, info)
  <2>1. CASE known /\ has = info /\ \A k \in 1 .. Len(box) : ~Is(box, k, a, "Disconnect")
    BY <1>1, <1>2, <2>1 DEF On
  <2>2. ASSUME Deciding(box, a, known, info, 1) PROVE On(rest, a, TRUE, then, info)
    <3>1. ~known
      BY <1>2, <2>2 DEF Deciding
    <3>2. then = info
      BY <2>2, <3>1 DEF Deciding
    <3>3. ASSUME NEW x \in 1 .. n PROVE ~Is(rest, x, a, "Disconnect")
      <4>1. x + 1 > 1 /\ x + 1 \in 1 .. Len(box)
        BY <1>2
      <4> QED
        BY <1>2, <2>2, <4>1 DEF Deciding
    <3> QED
      BY <1>1, <3>2, <3>3 DEF On
  <2>3. ASSUME NEW i \in 1 .. Len(box), i # 1, Deciding(box, a, known, info, i)
        PROVE  On(rest, a, TRUE, then, info)
    <3>1. PICK x \in 1 .. n : i = x + 1
      BY <1>2, <2>3
    <3>2. \E k \in 1 .. Len(rest) : k < x /\ Is(rest, k, a, "Disconnect")
      <4>0. 1 < i
        BY <3>1
      <4>1. PICK k \in 1 .. n + 1 : k < i /\ Is(box, k, a, "Disconnect")
        BY <1>0, <1>2, <2>3, <4>0 DEF Deciding
      <4>2. PICK y \in 1 .. n : k = y + 1 /\ Is(rest, y, a, "Disconnect")
        BY <1>3, <4>1
      <4> QED
        BY <1>1, <3>1, <4>1, <4>2
    <3>3. Deciding(rest, a, TRUE, info, x)
      BY <1>1, <2>3, <3>1, <3>2, DecidingShifts
    <3> QED
      BY <1>1, <3>3 DEF On
  <2> QED
    BY <1>5, <2>1, <2>2, <2>3 DEF On
<1> QED
  BY <1>4, <1>5

\* A Disconnect of a is handled.
LEMMA TailDisconnect ==
  ASSUME NEW S, NEW box \in Seq(S), box # <<>>, NEW rest, rest = Tail(box),
         NEW a, NEW known, NEW has, NEW info, NEW then, Is(box, 1, a, "Disconnect")
  PROVE  /\ Off(box, a, known) => Off(rest, a, FALSE)
         /\ On(box, a, known, has, info) => On(rest, a, FALSE, then, info)
<1>1. PICK n \in Nat : n = Len(rest)
  BY Tailed
<1>s. IsShift(box, rest, n, a)
  BY <1>1, Shifted
<1>2. /\ Len(box) = n + 1
      /\ \A x \in 1 .. n :
           /\ x + 1 \in 1 .. n + 1 /\ rest[x] = box[x + 1]
           /\ Is(rest, x, a, "Connect") <=> Is(box, x + 1, a, "Connect")
           /\ Is(rest, x, a, "Disconnect") <=> Is(box, x + 1, a, "Disconnect")
      /\ \A k \in 1 .. n + 1 : k = 1 \/ \E x \in 1 .. n : k = x + 1
  BY <1>s DEF IsShift
<1>0. ~Is(box, 1, a, "Connect") /\ 1 \in 1 .. Len(box)
  BY <1>2 DEF Is
<1>4. ASSUME Off(box, a, known) PROVE Off(rest, a, FALSE)
  <2>2. ASSUME NEW j \in 1 .. n, Is(rest, j, a, "Connect")
        PROVE  \E k \in 1 .. n : k > j /\ Is(rest, k, a, "Disconnect")
    <3>1. PICK k \in 1 .. n + 1 : k > j + 1 /\ Is(box, k, a, "Disconnect")
      BY <1>2, <1>4, <2>2 DEF Off
    <3>2. PICK x \in 1 .. n : k = x + 1
      BY <1>2, <3>1
    <3>3. x > j /\ Is(rest, x, a, "Disconnect")
      BY <1>2, <3>1, <3>2
    <3> QED
      BY <3>3
  <2> QED
    BY <1>1, <2>2 DEF Off
<1>5. ASSUME On(box, a, known, has, info) PROVE On(rest, a, FALSE, then, info)
  <2>1. PICK i \in 1 .. Len(box) : Deciding(box, a, known, info, i)
    BY <1>0, <1>5 DEF On
  <2>2. i # 1
    BY <1>0, <2>1 DEF Deciding
  <2>3. PICK x \in 1 .. n : i = x + 1
    BY <1>2, <2>1, <2>2
  <2>4. Deciding(rest, a, FALSE, info, x)
    BY <1>1, <2>1, <2>3, DecidingShifts
  <2> QED
    BY <1>1, <2>4 DEF On
<1> QED
  BY <1>4, <1>5

-----------------------------------------------------------------------------
(* The invariant *)

USE DEF Chat!serverVars, Chat!processVars, Chat!vars, chatVars

\* What clients send.
Bodies ==
  [type : {"Connect"}, user : 0 .. Len(Flags), room : Rooms]
    \cup [type : {"Disconnect"}] \cup [type : {"Message"}, room : Rooms]
Letters == [from : Addresses, wire : [family : {"chatpb", "chat"}, body : Bodies]]

ChatTypes ==
  /\ mailbox \in Seq(Letters)
  /\ user \in [Addresses -> 0 .. Len(Flags)]
  /\ starts \in 0 .. Len(Flags)
  /\ greeting \in [Addresses -> Rooms \cup {"", "none", "sent"}]
  /\ keyboard \in [Addresses -> Rooms \cup {"reading", "ended"}]
  /\ room \in [Addresses -> Rooms \cup {""}]
  /\ exiting \in [Addresses -> BOOLEAN]
  /\ \A a \in Addresses : user[a] # 0 => room[a] \in Rooms

Known(a) == a \in DOMAIN clients
Info(a) == [user |-> user[a], room |-> room[a], codec |-> Flags[user[a]].codec]

\* Where the server will have a when it has handled its mailbox.
Goes(a) == Off(mailbox, a, Known(a))
Stays(a) == On(mailbox, a, Known(a), clients[a], Info(a))

\* The process at a is in a room, as far as it knows, or about to enter one.
Present(a) == user[a] # 0 /\ keyboard[a] = "reading" /\ ~exiting[a]

\* An address that is not astray is off unless a process is present.  A present
\* one is on in its room, or its first greeting is still to come: then the room
\* PostStart has read is still the current one.
AddressOK(a) ==
  /\ ~Present(a) => Goes(a)
  /\ Present(a) =>
       \/ Stays(a)
       \/ /\ greeting[a] # "sent"
          /\ Goes(a)
          /\ greeting[a] \in Rooms => greeting[a] = room[a]

AddressInv == \A a \in Addresses \ stray : AddressOK(a)

ChatInv == ChatTypes /\ AddressInv

\* The flags of a running process.
LEMMA FlagTypes ==
  /\ Len(Flags) \in Nat
  /\ \A n \in 1 .. Len(Flags) : Flags[n].codec \in {"proto", "cbor"} /\ Flags[n].room \in Rooms
<1>1. Len(Flags) \in Nat /\ \A n \in 1 .. Len(Flags) :
        Flags[n] \in [codec : {"proto", "cbor"}, room : Rooms]
  BY ChatAssumption, LenProperties, ElementOfSeq
<1> QED
  BY <1>1

\* The process at u does nothing.
SameProcess(u) ==
  /\ user'[u] = user[u] /\ greeting'[u] = greeting[u] /\ keyboard'[u] = keyboard[u]
  /\ room'[u] = room[u] /\ exiting'[u] = exiting[u]

\* What is true of an address stays true when what the server will do to it does.
LEMMA AddressKept ==
  ASSUME NEW u, AddressOK(u), SameProcess(u),
         Goes(u) => Off(mailbox', u, u \in DOMAIN clients'),
         Stays(u) => On(mailbox', u, u \in DOMAIN clients', clients'[u], Info(u))
  PROVE  AddressOK(u)'
<1>1. Info(u)' = Info(u)
  BY DEF SameProcess, Info
<1>2. (Goes(u) => Goes(u)') /\ (Stays(u) => Stays(u)')
  BY <1>1 DEF Goes, Stays, Known
<1>3. Present(u)' = Present(u)
  BY DEF SameProcess, Present
<1> QED
  BY <1>2, <1>3 DEF AddressOK, SameProcess

\* A message is sent by a process that runs, or lost and a is astray.
LEMMA Sent ==
  ASSUME ChatTypes, NEW a \in Addresses, user[a] # 0, NEW msg \in Bodies, NEW wrong,
         Chat!Send(a, msg, wrong)
  PROVE  /\ mailbox' \in Seq(Letters)
         /\ stray \subseteq stray'
         /\ wrong => a \in stray'
         /\ \/ mailbox' = mailbox /\ a \in stray'
            \/ \E letter \in Letters :
                 /\ mailbox' = Append(mailbox, letter)
                 /\ letter.from = a /\ letter.wire.body = msg
                 /\ letter.wire.family =
                      IF Flags[user[a]].codec = "proto" THEN "chatpb" ELSE "chat"
<1>1. CASE mailbox' = mailbox /\ stray' = stray \cup {a}
  BY <1>1 DEF ChatTypes
<1>2. CASE /\ mailbox' = Append(mailbox,
                [from |-> a, wire |-> Chat!Encode(Flags[user[a]].codec, msg)])
           /\ stray' = IF wrong THEN stray \cup {a} ELSE stray
  <2>1. PICK letter : letter = [from |-> a, wire |-> Chat!Encode(Flags[user[a]].codec, msg)]
    OBVIOUS
  <2>2. /\ letter \in Letters /\ letter.from = a /\ letter.wire.body = msg
        /\ letter.wire.family = IF Flags[user[a]].codec = "proto" THEN "chatpb" ELSE "chat"
    BY <2>1 DEF Letters, Chat!Encode
  <2>3. mailbox' = Append(mailbox, letter) /\ mailbox' \in Seq(Letters)
    BY <1>2, <2>1, <2>2, AppendProperties DEF ChatTypes
  <2> QED
    BY <1>2, <2>2, <2>3
<1> QED
  BY <1>1, <1>2 DEF Chat!Send

\* What one process sends says nothing about another.
LEMMA OthersKeep ==
  ASSUME ChatInv, NEW a \in Addresses, NEW u \in Addresses, u # a, u \notin stray',
         stray \subseteq stray', UNCHANGED clients, SameProcess(u),
         \/ mailbox' = mailbox
         \/ \E letter \in Letters : mailbox' = Append(mailbox, letter) /\ letter.from = a
  PROVE  AddressOK(u)'
<1>1. AddressOK(u) /\ mailbox \in Seq(Letters)
  BY DEF ChatInv, AddressInv, ChatTypes
<1>2. CASE mailbox' = mailbox
  BY <1>1, <1>2, AddressKept DEF Goes, Stays, Known
<1>3. ASSUME NEW letter \in Letters, mailbox' = Append(mailbox, letter), letter.from = a
      PROVE  AddressOK(u)'
  <2>1. /\ Off(mailbox, u, u \in DOMAIN clients) => Off(mailbox', u, u \in DOMAIN clients)
        /\ On(mailbox, u, u \in DOMAIN clients, clients[u], Info(u))
             => On(mailbox', u, u \in DOMAIN clients, clients[u], Info(u))
    BY <1>1, <1>3, AppendOther
  <2> QED
    BY <1>1, <2>1, AddressKept DEF Goes, Stays, Known
<1> QED
  BY <1>2, <1>3

\* What a process sends, for its own address: a Message changes nothing, a
\* Disconnect turns it off, a Connect turns it on if it would be off.
LEMMA OwnLetter ==
  ASSUME ChatTypes, NEW a \in Addresses, user[a] # 0, UNCHANGED clients,
         NEW letter \in Letters, mailbox' = Append(mailbox, letter), letter.from = a,
         letter.wire.family = IF Flags[user[a]].codec = "proto" THEN "chatpb" ELSE "chat",
         NEW info
  PROVE  LET on == On(mailbox, a, Known(a), clients[a], info)
             off == Off(mailbox, a, Known(a))
             onNext == On(mailbox', a, a \in DOMAIN clients', clients'[a], info)
             offNext == Off(mailbox', a, a \in DOMAIN clients')
         IN /\ letter.wire.body.type = "Disconnect" => offNext
            /\ letter.wire.body.type = "Message" => (off => offNext) /\ (on => onNext)
            /\ letter.wire.body.type = "Connect" => (on => onNext)
            /\ /\ letter.wire.body.type = "Connect" /\ off
               /\ info = [user |-> letter.wire.body.user, room |-> letter.wire.body.room,
                          codec |-> Flags[user[a]].codec]
               => onNext
<1>1. mailbox \in Seq(Letters)
  BY DEF ChatTypes
<1>2. Flags[user[a]].codec \in {"proto", "cbor"}
  <2>1. user[a] \in 0 .. Len(Flags) /\ Len(Flags) \in Nat
    BY FlagTypes DEF ChatTypes
  <2>2. user[a] \in 1 .. Len(Flags)
    BY <2>1
  <2> QED
    BY <2>2, FlagTypes
<1>3. InfoOf(letter) = [user |-> letter.wire.body.user, room |-> letter.wire.body.room,
                        codec |-> Flags[user[a]].codec]
  BY <1>2 DEF InfoOf
<1>4. letter.wire.body.type = "Disconnect" => Off(mailbox', a, a \in DOMAIN clients)
  BY <1>1, AppendDisconnect
<1>5. letter.wire.body.type = "Message" =>
        /\ Off(mailbox, a, a \in DOMAIN clients) => Off(mailbox', a, a \in DOMAIN clients)
        /\ On(mailbox, a, a \in DOMAIN clients, clients[a], info)
             => On(mailbox', a, a \in DOMAIN clients, clients[a], info)
  BY <1>1, AppendOther
<1>6. letter.wire.body.type = "Connect" =>
        /\ Off(mailbox, a, a \in DOMAIN clients) /\ InfoOf(letter) = info
             => On(mailbox', a, a \in DOMAIN clients, clients[a], info)
        /\ On(mailbox, a, a \in DOMAIN clients, clients[a], info)
             => On(mailbox', a, a \in DOMAIN clients, clients[a], info)
  BY <1>1, AppendConnect
<1> QED
  BY <1>3, <1>4, <1>5, <1>6 DEF Known

-----------------------------------------------------------------------------
(* The processes *)

\* An action of the process at a keeps the invariant if it leaves the others
\* alone and a astray or all right.
LEMMA ProcessKeeps ==
  ASSUME ChatInv, NEW a \in Addresses, ChatTypes', stray \subseteq stray', UNCHANGED clients,
         \A u \in Addresses \ {a} : SameProcess(u),
         \/ mailbox' = mailbox
         \/ \E letter \in Letters : mailbox' = Append(mailbox, letter) /\ letter.from = a,
         a \in stray' \/ AddressOK(a)'
  PROVE  ChatInv'
<1>1. ASSUME NEW u \in Addresses, u \notin stray' PROVE AddressOK(u)'
  BY <1>1, OthersKeep
<1> QED
  BY <1>1 DEF ChatInv, AddressInv

LEMMA StartKeeps ==
  ASSUME ChatInv, NEW a \in Addresses, Chat!Start(a)
  PROVE  ChatInv'
<1>1. /\ user[a] = 0 /\ starts < Len(Flags) /\ starts' = starts + 1
      /\ user' = [user EXCEPT ![a] = starts']
      /\ room' = [room EXCEPT ![a] = Flags[starts'].room]
      /\ greeting' = [greeting EXCEPT ![a] = "none"]
      /\ keyboard' = [keyboard EXCEPT ![a] = "reading"]
      /\ UNCHANGED <<clients, mailbox, exiting, stray>>
  BY DEF Chat!Start
<1>2. starts' \in 1 .. Len(Flags) /\ Flags[starts'].room \in Rooms
  <2>1. starts \in 0 .. Len(Flags) /\ Len(Flags) \in Nat
    BY FlagTypes DEF ChatInv, ChatTypes
  <2>2. starts' \in 1 .. Len(Flags)
    BY <1>1, <2>1
  <2> QED
    BY <2>2, FlagTypes
<1>3. ChatTypes'
  <2>1. PICK n \in 0 .. Len(Flags) : n = starts'
    BY <1>2, FlagTypes
  <2>2. user' \in [Addresses -> 0 .. Len(Flags)] /\ starts' \in 0 .. Len(Flags)
    BY <1>1, <2>1 DEF ChatInv, ChatTypes
  <2>3. /\ greeting' \in [Addresses -> Rooms \cup {"", "none", "sent"}]
        /\ keyboard' \in [Addresses -> Rooms \cup {"reading", "ended"}]
        /\ room' \in [Addresses -> Rooms \cup {""}]
    BY <1>1, <1>2 DEF ChatInv, ChatTypes
  <2>4. \A u \in Addresses : user'[u] # 0 => room'[u] \in Rooms
    BY <1>1, <1>2 DEF ChatInv, ChatTypes
  <2> QED
    BY <1>1, <2>2, <2>3, <2>4 DEF ChatInv, ChatTypes
<1>4. \A u \in Addresses \ {a} : SameProcess(u)
  BY <1>1 DEF SameProcess, ChatInv, ChatTypes
<1>5. ASSUME a \notin stray' PROVE AddressOK(a)'
  <2>1. Goes(a)
    BY <1>1, <1>5 DEF ChatInv, AddressInv, AddressOK, Present
  <2>2. Goes(a)'
    BY <1>1, <2>1 DEF Goes, Known
  <2>3. greeting'[a] = "none" /\ "none" \notin Rooms
    BY <1>1, ChatAssumption DEF ChatInv, ChatTypes
  <2> QED
    BY <2>2, <2>3 DEF AddressOK
<1> QED
  BY <1>1, <1>3, <1>4, <1>5, ProcessKeeps

LEMMA ReadRoomKeeps ==
  ASSUME ChatInv, NEW a \in Addresses, Chat!ReadRoom(a)
  PROVE  ChatInv'
<1>1. /\ user[a] # 0 /\ greeting[a] = "none"
      /\ greeting' = [greeting EXCEPT ![a] = room[a]]
      /\ UNCHANGED <<clients, mailbox, user, starts, keyboard, room, exiting, stray>>
  BY DEF Chat!ReadRoom, Chat!Running
<1>2. room[a] \in Rooms /\ room[a] # "sent"
  BY <1>1, ChatAssumption DEF ChatInv, ChatTypes
<1>3. ChatTypes'
  BY <1>1, <1>2 DEF ChatInv, ChatTypes
<1>4. \A u \in Addresses \ {a} : SameProcess(u)
  BY <1>1 DEF SameProcess, ChatInv, ChatTypes
<1>5. ASSUME a \notin stray' PROVE AddressOK(a)'
  <2>1. AddressOK(a)
    BY <1>1, <1>5 DEF ChatInv, AddressInv
  <2>2. /\ Goes(a)' = Goes(a) /\ Stays(a)' = Stays(a) /\ Present(a)' = Present(a)
        /\ greeting'[a] = room[a] /\ room'[a] = room[a]
    BY <1>1 DEF Goes, Stays, Known, Info, Present, ChatInv, ChatTypes
  <2> QED
    BY <1>2, <2>1, <2>2 DEF AddressOK
<1> QED
  BY <1>1, <1>3, <1>4, <1>5, ProcessKeeps
\* What a process that sends a message can rely on.
LEMMA SendKeeps ==
  ASSUME ChatInv, NEW a \in Addresses, user[a] # 0, UNCHANGED clients,
         NEW msg \in Bodies, NEW wrong, Chat!Send(a, msg, wrong)
  PROVE  /\ mailbox' \in Seq(Letters)
         /\ stray \subseteq stray'
         /\ \/ mailbox' = mailbox
            \/ \E letter \in Letters : mailbox' = Append(mailbox, letter) /\ letter.from = a
         /\ a \notin stray' =>
              /\ ~wrong /\ AddressOK(a)
              /\ msg.type = "Disconnect" => Goes(a)'
              /\ msg.type = "Message" => (Goes(a) => Goes(a)')
              /\ \A info :
                   LET on == On(mailbox, a, Known(a), clients[a], info)
                       onNext == On(mailbox', a, a \in DOMAIN clients', clients'[a], info)
                   IN /\ msg.type \in {"Message", "Connect"} => (on => onNext)
                      /\ /\ msg.type = "Connect" /\ Goes(a)
                         /\ info = [user |-> msg.user, room |-> msg.room,
                                    codec |-> Flags[user[a]].codec]
                         => onNext
<1>1. /\ mailbox' \in Seq(Letters) /\ stray \subseteq stray' /\ (wrong => a \in stray')
      /\ \/ mailbox' = mailbox /\ a \in stray'
         \/ \E letter \in Letters :
              /\ mailbox' = Append(mailbox, letter)
              /\ letter.from = a /\ letter.wire.body = msg
              /\ letter.wire.family =
                   IF Flags[user[a]].codec = "proto" THEN "chatpb" ELSE "chat"
  BY Sent DEF ChatInv
<1>2. \/ mailbox' = mailbox
      \/ \E letter \in Letters : mailbox' = Append(mailbox, letter) /\ letter.from = a
  BY <1>1
<1>3. ASSUME a \notin stray' PROVE ~wrong /\ AddressOK(a)
  BY <1>1, <1>3 DEF ChatInv, AddressInv
<1>4. ASSUME a \notin stray', NEW info
      PROVE  LET on == On(mailbox, a, Known(a), clients[a], info)
                 off == Off(mailbox, a, Known(a))
                 onNext == On(mailbox', a, a \in DOMAIN clients', clients'[a], info)
                 offNext == Off(mailbox', a, a \in DOMAIN clients')
             IN /\ msg.type = "Disconnect" => offNext
                /\ msg.type = "Message" => (off => offNext) /\ (on => onNext)
                /\ msg.type = "Connect" => (on => onNext)
                /\ /\ msg.type = "Connect" /\ off
                   /\ info = [user |-> msg.user, room |-> msg.room,
                              codec |-> Flags[user[a]].codec]
                   => onNext
  <2>1. PICK letter \in Letters :
          /\ mailbox' = Append(mailbox, letter)
          /\ letter.from = a /\ letter.wire.body = msg
          /\ letter.wire.family =
               IF Flags[user[a]].codec = "proto" THEN "chatpb" ELSE "chat"
    BY <1>1, <1>4
  <2> QED
    BY <2>1, OwnLetter DEF ChatInv
<1>5. ASSUME a \notin stray'
      PROVE  /\ msg.type = "Disconnect" => Goes(a)'
             /\ msg.type = "Message" => (Goes(a) => Goes(a)')
  BY <1>4, <1>5 DEF Goes, Known
<1>6. ASSUME a \notin stray', NEW info
      PROVE  LET on == On(mailbox, a, Known(a), clients[a], info)
                 onNext == On(mailbox', a, a \in DOMAIN clients', clients'[a], info)
             IN /\ msg.type \in {"Message", "Connect"} => (on => onNext)
                /\ /\ msg.type = "Connect" /\ Goes(a)
                   /\ info = [user |-> msg.user, room |-> msg.room,
                              codec |-> Flags[user[a]].codec]
                   => onNext
  BY <1>4, <1>6 DEF Goes
<1> QED
  BY <1>1, <1>2, <1>3, <1>5, <1>6

LEMMA GreetKeeps ==
  ASSUME ChatInv, NEW a \in Addresses, Chat!Greet(a)
  PROVE  ChatInv'
<1>1. /\ user[a] # 0 /\ greeting[a] \in Rooms
      /\ greeting' = [greeting EXCEPT ![a] = "sent"]
      /\ UNCHANGED <<clients, user, starts, keyboard, room, exiting>>
  BY DEF Chat!Greet, Chat!Running
<1>2. PICK msg : msg = [type |-> "Connect", user |-> user[a], room |-> greeting[a]]
  OBVIOUS
<1>3. PICK wrong : wrong = (exiting[a] \/ keyboard[a] # "reading")
  OBVIOUS
<1>4. Chat!Send(a, msg, wrong) /\ msg \in Bodies
  BY <1>1, <1>2, <1>3 DEF Chat!Greet, Chat!Connect, Bodies, ChatInv, ChatTypes
<1>5. /\ mailbox' \in Seq(Letters) /\ stray \subseteq stray'
      /\ \/ mailbox' = mailbox
         \/ \E letter \in Letters : mailbox' = Append(mailbox, letter) /\ letter.from = a
  BY <1>1, <1>4, SendKeeps
<1>6. ChatTypes'
  BY <1>1, <1>5 DEF ChatInv, ChatTypes
<1>7. \A u \in Addresses \ {a} : SameProcess(u)
  BY <1>1 DEF SameProcess, ChatInv, ChatTypes
<1>8. ASSUME a \notin stray' PROVE AddressOK(a)'
  <2>1. ~wrong /\ AddressOK(a)
    BY <1>1, <1>4, <1>8, SendKeeps
  <2>2. Present(a)
    BY <1>1, <1>3, <2>1 DEF Present
  <2>3. Info(a)' = Info(a) /\ Present(a)'
    BY <1>1, <2>2 DEF Info, Present
  <2>4. On(mailbox', a, a \in DOMAIN clients', clients'[a], Info(a))
    <3>1. CASE Stays(a)
      BY <1>1, <1>2, <1>4, <1>8, <3>1, SendKeeps DEF Stays
    <3>2. CASE Goes(a) /\ greeting[a] = room[a]
      <4>1. Info(a) = [user |-> msg.user, room |-> msg.room, codec |-> Flags[user[a]].codec]
        BY <1>2, <3>2 DEF Info
      <4> QED
        BY <1>1, <1>2, <1>4, <1>8, <3>2, <4>1, SendKeeps
    <3> QED
      BY <1>1, <2>1, <2>2, <3>1, <3>2 DEF AddressOK
  <2>5. Stays(a)'
    BY <2>3, <2>4 DEF Stays, Known
  <2> QED
    BY <2>3, <2>5 DEF AddressOK
<1> QED
  BY <1>1, <1>5, <1>6, <1>7, <1>8, ProcessKeeps

\* A line that is no command.
LEMMA SayKeeps ==
  ASSUME ChatInv, NEW a \in Addresses, Chat!Say(a)
  PROVE  ChatInv'
<1>1. user[a] # 0 /\ UNCHANGED <<clients, user, starts, greeting, keyboard, room, exiting>>
  BY DEF Chat!Say, Chat!Reading, Chat!Running
<1>2. PICK msg : msg = [type |-> "Message", room |-> room[a]]
  OBVIOUS
<1>3. Chat!Send(a, msg, FALSE) /\ msg \in Bodies
  BY <1>1, <1>2 DEF Chat!Say, Chat!Message, Bodies, ChatInv, ChatTypes
<1>4. /\ mailbox' \in Seq(Letters) /\ stray \subseteq stray'
      /\ \/ mailbox' = mailbox
         \/ \E letter \in Letters : mailbox' = Append(mailbox, letter) /\ letter.from = a
  BY <1>1, <1>3, SendKeeps
<1>5. ChatTypes'
  BY <1>1, <1>4 DEF ChatInv, ChatTypes
<1>6. \A u \in Addresses : SameProcess(u)
  BY <1>1 DEF SameProcess
<1>7. ASSUME a \notin stray' PROVE AddressOK(a)'
  <2>1. AddressOK(a)
    BY <1>1, <1>3, <1>7, SendKeeps
  <2>2. Goes(a) => Off(mailbox', a, a \in DOMAIN clients')
    BY <1>1, <1>2, <1>3, <1>7, SendKeeps DEF Goes, Known
  <2>3. Stays(a) => On(mailbox', a, a \in DOMAIN clients', clients'[a], Info(a))
    BY <1>1, <1>2, <1>3, <1>7, SendKeeps DEF Stays
  <2> QED
    BY <1>6, <2>1, <2>2, <2>3, AddressKept
<1> QED
  BY <1>1, <1>4, <1>5, <1>6, <1>7, ProcessKeeps

\* A Disconnect, after which the process is not present: /join, /quit and a
\* signal.
LEMMA LeavesKeeps ==
  ASSUME ChatInv, NEW a \in Addresses, user[a] # 0, Chat!Send(a, Chat!Disconnect, FALSE),
         UNCHANGED <<clients, user, starts, greeting, room>>,
         NEW line \in Rooms \cup {"reading", "ended"}, NEW exits \in BOOLEAN,
         keyboard' = [keyboard EXCEPT ![a] = line],
         exiting' = [exiting EXCEPT ![a] = exits],
         line # "reading" \/ exits
  PROVE  ChatInv'
<1>2. PICK msg : msg = [type |-> "Disconnect"]
  OBVIOUS
<1>3. Chat!Send(a, msg, FALSE) /\ msg \in Bodies
  BY <1>2 DEF Chat!Disconnect, Bodies
<1>4. /\ mailbox' \in Seq(Letters) /\ stray \subseteq stray'
      /\ \/ mailbox' = mailbox
         \/ \E letter \in Letters : mailbox' = Append(mailbox, letter) /\ letter.from = a
  BY <1>3, SendKeeps
<1>5. ChatTypes'
  <2>1. exiting' \in [Addresses -> BOOLEAN]
    BY Zenon DEF ChatInv, ChatTypes
  <2> QED
    BY <1>4, <2>1 DEF ChatInv, ChatTypes
<1>6. \A u \in Addresses \ {a} : SameProcess(u)
  BY DEF SameProcess, ChatInv, ChatTypes
<1>7. ASSUME a \notin stray' PROVE AddressOK(a)'
  <2>1. Goes(a)'
    BY <1>2, <1>3, <1>7, SendKeeps
  <2>2. ~Present(a)'
    BY DEF Present, ChatInv, ChatTypes
  <2> QED
    BY <2>1, <2>2 DEF AddressOK
<1> QED
  BY <1>4, <1>5, <1>6, <1>7, ProcessKeeps

\* /join after the sleep.
LEMMA JoinEntersKeeps ==
  ASSUME ChatInv, NEW a \in Addresses, Chat!JoinEnters(a)
  PROVE  ChatInv'
<1>1. /\ user[a] # 0 /\ keyboard[a] \in Rooms
      /\ room' = [room EXCEPT ![a] = keyboard[a]]
      /\ keyboard' = [keyboard EXCEPT ![a] = "reading"]
      /\ UNCHANGED <<clients, user, starts, greeting, exiting>>
  BY DEF Chat!JoinEnters, Chat!Running
<1>2. PICK msg : msg = [type |-> "Connect", user |-> user[a], room |-> keyboard[a]]
  OBVIOUS
<1>3. Chat!Send(a, msg, exiting[a]) /\ msg \in Bodies
  BY <1>1, <1>2 DEF Chat!JoinEnters, Chat!Connect, Bodies, ChatInv, ChatTypes
<1>4. /\ mailbox' \in Seq(Letters) /\ stray \subseteq stray'
      /\ \/ mailbox' = mailbox
         \/ \E letter \in Letters : mailbox' = Append(mailbox, letter) /\ letter.from = a
  BY <1>1, <1>3, SendKeeps
<1>5. ChatTypes'
  BY <1>1, <1>4 DEF ChatInv, ChatTypes
<1>6. \A u \in Addresses \ {a} : SameProcess(u)
  BY <1>1 DEF SameProcess, ChatInv, ChatTypes
<1>7. ASSUME a \notin stray' PROVE AddressOK(a)'
  <2>1. ~exiting[a] /\ AddressOK(a)
    BY <1>1, <1>3, <1>7, SendKeeps
  <2>2. Goes(a)
    <3>1. keyboard[a] # "reading"
      BY <1>1, ChatAssumption
    <3> QED
      BY <2>1, <3>1 DEF AddressOK, Present
  <2>3. PICK info : info = [user |-> msg.user, room |-> msg.room, codec |-> Flags[user[a]].codec]
    OBVIOUS
  <2>4. On(mailbox', a, a \in DOMAIN clients', clients'[a], info)
    BY <1>1, <1>2, <1>3, <1>7, <2>2, <2>3, SendKeeps
  <2>5. Info(a)' = info
    BY <1>1, <1>2, <2>3 DEF Info, ChatInv, ChatTypes
  <2>6. Stays(a)'
    BY <2>4, <2>5 DEF Stays, Known
  <2>7. Present(a)'
    BY <1>1, <2>1 DEF Present, ChatInv, ChatTypes
  <2> QED
    BY <2>6, <2>7 DEF AddressOK
<1> QED
  BY <1>1, <1>4, <1>5, <1>6, <1>7, ProcessKeeps

LEMMA InputEndsKeeps ==
  ASSUME ChatInv, NEW a \in Addresses, Chat!InputEnds(a)
  PROVE  ChatInv'
<1>1. /\ keyboard' = [keyboard EXCEPT ![a] = "ended"]
      /\ exiting' = [exiting EXCEPT ![a] = TRUE]
      /\ stray' = stray \cup {a}
      /\ UNCHANGED <<clients, mailbox, user, starts, greeting, room>>
  BY DEF Chat!InputEnds
<1>2. ChatTypes'
  BY <1>1 DEF ChatInv, ChatTypes
<1>3. \A u \in Addresses \ {a} : SameProcess(u)
  BY <1>1 DEF SameProcess, ChatInv, ChatTypes
<1> QED
  BY <1>1, <1>2, <1>3, ProcessKeeps

\* A process that ends while its address is off, or leaves it astray.
LEMMA EndedKeeps ==
  ASSUME ChatInv, NEW a \in Addresses, Chat!Ended(a), stray \subseteq stray',
         UNCHANGED <<clients, mailbox, starts>>, exiting[a] \/ a \in stray'
  PROVE  ChatInv'
<1>1. /\ user' = [user EXCEPT ![a] = 0]
      /\ exiting' = [exiting EXCEPT ![a] = FALSE]
      /\ keyboard' = [keyboard EXCEPT ![a] = "ended"]
      /\ greeting' = [greeting EXCEPT ![a] = "none"]
      /\ room' = [room EXCEPT ![a] = ""]
  BY DEF Chat!Ended
<1>2. ChatTypes'
  <2>1. user' \in [Addresses -> 0 .. Len(Flags)]
    <3>1. 0 \in 0 .. Len(Flags)
      BY FlagTypes
    <3> QED
      BY <1>1, <3>1 DEF ChatInv, ChatTypes
  <2>2. \A u \in Addresses : user'[u] # 0 => room'[u] \in Rooms
    BY <1>1 DEF ChatInv, ChatTypes
  <2> QED
    BY <1>1, <2>1, <2>2 DEF ChatInv, ChatTypes
<1>3. \A u \in Addresses \ {a} : SameProcess(u)
  BY <1>1 DEF SameProcess, ChatInv, ChatTypes
<1>4. ASSUME a \notin stray' PROVE AddressOK(a)'
  <2>1. Goes(a)
    BY <1>4 DEF ChatInv, AddressInv, AddressOK, Present
  <2>2. Goes(a)' /\ ~Present(a)'
    BY <1>1, <2>1 DEF Goes, Known, Present, ChatInv, ChatTypes
  <2> QED
    BY <2>2 DEF AddressOK
<1> QED
  BY <1>2, <1>3, <1>4, ProcessKeeps

LEMMA ProcessesKeep ==
  ASSUME ChatInv, NEW a \in Addresses,
         \/ Chat!Start(a) \/ Chat!ReadRoom(a) \/ Chat!Greet(a) \/ Chat!Say(a)
         \/ Chat!JoinLeaves(a) \/ Chat!JoinEnters(a) \/ Chat!Quit(a) \/ Chat!InputEnds(a)
         \/ Chat!Signal(a) \/ Chat!Exit(a) \/ Chat!Kill(a)
  PROVE  ChatInv'
<1>1. CASE Chat!JoinLeaves(a)
  <2>1. PICK r \in Rooms : keyboard' = [keyboard EXCEPT ![a] = r]
    BY <1>1 DEF Chat!JoinLeaves
  <2>2. PICK exits \in BOOLEAN : exiting' = [exiting EXCEPT ![a] = exits]
    <3>1. exiting' = exiting /\ exiting \in [Addresses -> BOOLEAN]
      BY <1>1 DEF Chat!JoinLeaves, ChatInv, ChatTypes
    <3>2. exiting[a] \in BOOLEAN /\ exiting' = [exiting EXCEPT ![a] = exiting[a]]
      BY <3>1, Zenon
    <3> QED
      BY <3>2
  <2>3. r # "reading" /\ r \in Rooms \cup {"reading", "ended"}
    BY ChatAssumption, <2>1
  <2> QED
    BY <1>1, <2>1, <2>2, <2>3, LeavesKeeps DEF Chat!JoinLeaves, Chat!Reading, Chat!Running
<1>2. CASE Chat!Quit(a)
  BY <1>2, LeavesKeeps DEF Chat!Quit, Chat!Reading, Chat!Running
<1>3. CASE Chat!Signal(a)
  <2>1. PICK line \in Rooms \cup {"reading", "ended"} :
          keyboard' = [keyboard EXCEPT ![a] = line]
    <3>1. /\ keyboard' = keyboard
          /\ keyboard \in [Addresses -> Rooms \cup {"reading", "ended"}]
      BY <1>3 DEF Chat!Signal, ChatInv, ChatTypes
    <3>2. /\ keyboard[a] \in Rooms \cup {"reading", "ended"}
          /\ keyboard' = [keyboard EXCEPT ![a] = keyboard[a]]
      BY <3>1
    <3> QED
      BY <3>2
  <2> QED
    BY <1>3, <2>1, LeavesKeeps DEF Chat!Signal, Chat!Running
<1>4. CASE Chat!Exit(a)
  BY <1>4, EndedKeeps DEF Chat!Exit
<1>5. CASE Chat!Kill(a)
  BY <1>5, EndedKeeps DEF Chat!Kill
<1> QED
  BY <1>1, <1>2, <1>3, <1>4, <1>5, StartKeeps, ReadRoomKeeps, GreetKeeps, SayKeeps,
     JoinEntersKeeps, InputEndsKeeps

-----------------------------------------------------------------------------
(* The server *)

\* The server takes a letter of a, and knows of the others what it did.
LEMMA ServerKeeps ==
  ASSUME ChatInv, NEW a \in Addresses, NEW type, Chat!Handle(a, type),
         \A u \in Addresses \ {a} :
           /\ u \in DOMAIN clients' <=> u \in DOMAIN clients
           /\ u \in DOMAIN clients => clients'[u] = clients[u],
         a \notin stray =>
           /\ Goes(a) => Off(mailbox', a, a \in DOMAIN clients')
           /\ Stays(a) => On(mailbox', a, a \in DOMAIN clients', clients'[a], Info(a))
  PROVE  ChatInv'
<1>1. /\ mailbox # <<>> /\ Head(mailbox).from = a /\ mailbox' = Tail(mailbox)
      /\ UNCHANGED <<user, greeting, keyboard, room, exiting, starts, stray>>
      /\ mailbox \in Seq(Letters)
  BY DEF Chat!Handle, ChatInv, ChatTypes
<1>2. mailbox' \in Seq(Letters) /\ mailbox[1].from = a
  BY <1>1, HeadTailProperties
<1>3. ChatTypes'
  BY <1>1, <1>2 DEF ChatInv, ChatTypes
<1>4. ASSUME NEW u \in Addresses \ stray' PROVE AddressOK(u)'
  <2>1. AddressOK(u) /\ SameProcess(u)
    BY <1>1 DEF ChatInv, AddressInv, SameProcess
  <2>2. CASE u = a
    BY <1>1, <2>1, <2>2, AddressKept
  <2>3. CASE u # a
    <3>1. ~Is(mailbox, 1, u, "Connect") /\ ~Is(mailbox, 1, u, "Disconnect")
      BY <1>2, <2>3 DEF Is
    <3>2. /\ Off(mailbox, u, u \in DOMAIN clients) => Off(mailbox', u, u \in DOMAIN clients)
          /\ On(mailbox, u, u \in DOMAIN clients, clients[u], Info(u))
               => On(mailbox', u, u \in DOMAIN clients, clients[u], Info(u))
      BY <1>1, <3>1, TailOther
    <3>3. On(mailbox', u, u \in DOMAIN clients, clients[u], Info(u))
            => On(mailbox', u, u \in DOMAIN clients', clients'[u], Info(u))
      BY <2>3 DEF On, Deciding
    <3>4. Off(mailbox', u, u \in DOMAIN clients) => Off(mailbox', u, u \in DOMAIN clients')
      BY <2>3 DEF Off
    <3> QED
      BY <2>1, <3>2, <3>3, <3>4, AddressKept DEF Goes, Stays, Known
  <2> QED
    BY <2>2, <2>3
<1> QED
  BY <1>3, <1>4 DEF ChatInv, AddressInv

LEMMA HandlersKeep ==
  ASSUME ChatInv, NEW a \in Addresses,
         Chat!HandleConnect(a) \/ Chat!HandleDisconnect(a) \/ Chat!HandleMessage(a)
  PROVE  ChatInv'
<1>0. ASSUME NEW type, Chat!Handle(a, type)
      PROVE  /\ mailbox # <<>> /\ mailbox' = Tail(mailbox) /\ mailbox \in Seq(Letters)
             /\ Head(mailbox) = mailbox[1]
             /\ mailbox[1].from = a /\ mailbox[1].wire.body.type = type
  <2>1. /\ mailbox # <<>> /\ mailbox' = Tail(mailbox) /\ mailbox \in Seq(Letters)
        /\ Head(mailbox).from = a /\ Head(mailbox).wire.body.type = type
    BY <1>0 DEF Chat!Handle, Chat!Decode, ChatInv, ChatTypes
  <2> QED
    BY <2>1, HeadTailProperties
<1>1. CASE Chat!HandleMessage(a)
  <2>1. Chat!Handle(a, "Message") /\ UNCHANGED clients
    BY <1>1 DEF Chat!HandleMessage
  <2>2. ~Is(mailbox, 1, a, "Connect") /\ ~Is(mailbox, 1, a, "Disconnect")
    BY <1>0, <2>1 DEF Is
  <2>3. /\ Off(mailbox, a, a \in DOMAIN clients) => Off(mailbox', a, a \in DOMAIN clients)
        /\ On(mailbox, a, a \in DOMAIN clients, clients[a], Info(a))
             => On(mailbox', a, a \in DOMAIN clients, clients[a], Info(a))
    BY <1>0, <2>1, <2>2, TailOther
  <2> QED
    BY <2>1, <2>3, ServerKeeps DEF Goes, Stays, Known
<1>2. CASE Chat!HandleConnect(a)
  <2>1. Chat!Handle(a, "Connect")
    BY <1>2 DEF Chat!HandleConnect
  <2>2. Is(mailbox, 1, a, "Connect") /\ Head(mailbox) = mailbox[1]
    BY <1>0, <2>1 DEF Is
  <2>3. PICK then : then = (IF a \in DOMAIN clients THEN clients[a] ELSE InfoOf(mailbox[1]))
    OBVIOUS
  <2>4. /\ a \in DOMAIN clients' /\ clients'[a] = then
        /\ \A u \in Addresses \ {a} :
             /\ u \in DOMAIN clients' <=> u \in DOMAIN clients
             /\ u \in DOMAIN clients => clients'[u] = clients[u]
    <3>1. CASE a \in DOMAIN clients
      BY <1>2, <2>3, <3>1 DEF Chat!HandleConnect
    <3>2. CASE a \notin DOMAIN clients
      <4>1. clients' = [d \in DOMAIN clients \cup {a} |->
                          IF d = a THEN InfoOf(mailbox[1]) ELSE clients[d]]
        BY <1>2, <2>2, <3>2, ZenonT(60) DEF Chat!HandleConnect, Chat!Decode, InfoOf
      <4> QED
        BY <2>3, <3>2, <4>1
    <3> QED
      BY <3>1, <3>2
  <2>5. /\ Off(mailbox, a, a \in DOMAIN clients) => Off(mailbox', a, TRUE)
        /\ On(mailbox, a, a \in DOMAIN clients, clients[a], Info(a))
             => On(mailbox', a, TRUE, then, Info(a))
    BY <1>0, <2>1, <2>2, <2>3, TailConnect, ZenonT(60)
  <2>6. /\ Off(mailbox', a, TRUE) => Off(mailbox', a, a \in DOMAIN clients')
        /\ On(mailbox', a, TRUE, then, Info(a))
             => On(mailbox', a, a \in DOMAIN clients', clients'[a], Info(a))
    BY <2>4 DEF Off, On, Deciding
  <2> QED
    BY <2>1, <2>4, <2>5, <2>6, ServerKeeps DEF Goes, Stays, Known
<1>3. CASE Chat!HandleDisconnect(a)
  <2>1. /\ Chat!Handle(a, "Disconnect")
        /\ clients' = [d \in DOMAIN clients \ {a} |-> clients[d]]
    BY <1>3 DEF Chat!HandleDisconnect
  <2>2. Is(mailbox, 1, a, "Disconnect")
    BY <1>0, <2>1 DEF Is
  <2>3. /\ a \notin DOMAIN clients'
        /\ \A u \in Addresses \ {a} :
             /\ u \in DOMAIN clients' <=> u \in DOMAIN clients
             /\ u \in DOMAIN clients => clients'[u] = clients[u]
    BY <2>1
  <2>4. PICK then : then = clients'[a]
    OBVIOUS
  <2>5. /\ Off(mailbox, a, a \in DOMAIN clients) => Off(mailbox', a, FALSE)
        /\ On(mailbox, a, a \in DOMAIN clients, clients[a], Info(a))
             => On(mailbox', a, FALSE, then, Info(a))
    BY <1>0, <2>1, <2>2, TailDisconnect
  <2>6. /\ Off(mailbox', a, FALSE) => Off(mailbox', a, a \in DOMAIN clients')
        /\ On(mailbox', a, FALSE, then, Info(a))
             => On(mailbox', a, a \in DOMAIN clients', clients'[a], Info(a))
    BY <2>3, <2>4 DEF Off, On, Deciding
  <2> QED
    BY <2>1, <2>3, <2>5, <2>6, ServerKeeps DEF Goes, Stays, Known
<1> QED
  BY <1>1, <1>2, <1>3

-----------------------------------------------------------------------------
(* The theorem *)

\* At first the server knows nobody.
LEMMA NobodyKnown == \A a : a \notin DOMAIN << >>
<1>1. PICK e : e = << >>
  OBVIOUS
<1>2. e \in Seq({}) /\ Len(e) = 0
  BY <1>1, EmptySeq
<1>3. DOMAIN e = 1 .. Len(e)
  BY <1>2, LenProperties
<1>4. \A a : a \notin DOMAIN e
  BY <1>2, <1>3
<1> QED
  BY <1>1, <1>4

\* An empty mailbox turns nobody on.
LEMMA OffAtFirst ==
  ASSUME NEW box, Len(box) = 0, NEW a, NEW known, ~known
  PROVE  Off(box, a, known)
<1>1. \A i : i \notin 1 .. Len(box)
  OBVIOUS
<1> QED
  BY <1>1 DEF Off

LEMMA InitChat == MCInit => ChatInv
<1> SUFFICES ASSUME Chat!Init PROVE ChatInv
  BY DEF MCInit
<1>0. 0 \in 0 .. Len(Flags)
  BY FlagTypes
<1> USE DEF Chat!Init
<1>1. mailbox \in Seq(Letters) /\ Len(mailbox) = 0
  BY EmptySeq
<1>2. ChatTypes
  <2>2. /\ user \in [Addresses -> 0 .. Len(Flags)]
        /\ \A a \in Addresses : user[a] # 0 => room[a] \in Rooms
    BY <1>0
  <2>3. exiting \in [Addresses -> BOOLEAN]
    OBVIOUS
  <2> QED
    BY <1>0, <1>1, <2>2, <2>3 DEF ChatTypes
<1>3. ASSUME NEW a \in Addresses PROVE AddressOK(a)
  <2>1. ~Present(a)
    BY DEF Present
  <2>2. a \notin DOMAIN clients
    BY NobodyKnown
  <2>3. Off(mailbox, a, a \in DOMAIN clients)
    <3> HIDE DEF Chat!Init
    <3> QED
      BY <1>1, <2>2, OffAtFirst
  <2>4. Goes(a)
    BY <2>3 DEF Goes, Known
  <2> QED
    BY <2>1, <2>4 DEF AddressOK
<1> QED
  BY <1>2, <1>3 DEF ChatInv, AddressInv

LEMMA NextChat == ChatInv /\ [MCNext]_allVars => ChatInv'
<1> SUFFICES ASSUME ChatInv, [MCNext]_allVars PROVE ChatInv'
  OBVIOUS
<1>1. CASE UNCHANGED chatVars
  BY <1>1 DEF ChatInv, ChatTypes, AddressInv, AddressOK, Goes, Stays, Known, Info, Present
<1>2. CASE Chat!Next
  BY <1>2, ProcessesKeep, HandlersKeep DEF Chat!Next
<1> QED
  BY <1>1, <1>2 DEF MCNext, allVars

\* The invariant of the mailbox holds in every chat.
THEOREM ChatInvariance == MCSpec => []ChatInv
  BY InitChat, NextChat, PTL DEF MCSpec

\* The server has each client in the room it believes to be in, as the user it
\* is and with its codec, and forgets a process that has ended, although
\* PostStart, the keyboard and the signal send at the same time, for any number
\* of clients and rooms (handleConnect, handleDisconnect).
THEOREM ServerAgreement == MCSpec => []ServerAgrees
<1>1. ChatInv => ServerAgrees
  <2> SUFFICES ASSUME ChatInv, NEW a \in Addresses \ stray,
                      \A i \in DOMAIN mailbox : mailbox[i].from # a
               PROVE  /\ user[a] = 0 => a \notin DOMAIN clients
                      /\ Chat!Reading(a) /\ ~exiting[a] /\ greeting[a] = "sent" =>
                           /\ a \in DOMAIN clients
                           /\ clients[a] = [user |-> user[a], room |-> room[a],
                                            codec |-> Flags[user[a]].codec]
    BY DEF ServerAgrees, Chat!ServerAgrees
  <2>1. AddressOK(a) /\ mailbox \in Seq(Letters)
    BY DEF ChatInv, AddressInv, ChatTypes
  <2>2. \A i \in 1 .. Len(mailbox) : ~Is(mailbox, i, a, "Connect") /\ ~Is(mailbox, i, a, "Disconnect")
    BY <2>1, LenProperties DEF Is
  <2>3. Goes(a) => a \notin DOMAIN clients
    BY <2>2 DEF Goes, Off, Known
  <2>4. Stays(a) => a \in DOMAIN clients /\ clients[a] = Info(a)
    BY <2>2 DEF Stays, On, Deciding, Known
  <2> QED
    BY <2>1, <2>3, <2>4 DEF AddressOK, Present, Info, Chat!Reading, Chat!Running
<1> QED
  BY <1>1, ChatInvariance, PTL

-----------------------------------------------------------------------------
(***************************************************************************)
(* What the members of a room are shown.                                   *)
(***************************************************************************)

\* Selections, over sequences of any kind: nothing at first, one more that is
\* selected, one more that is not.
LEMMA SelectionMore ==
  ASSUME NEW B, NEW seq \in Seq(B), NEW all \in Seq(B), NEW places \in SUBSET (1 .. Len(all)),
         NEW b \in B, Chat!IsSelection(seq, all, places)
  PROVE  /\ Chat!IsSelection(Append(seq, b), Append(all, b), places \cup {Len(all) + 1})
         /\ Chat!IsSelection(seq, Append(all, b), places)
<1>0. /\ DOMAIN seq = 1 .. Len(seq) /\ Len(seq) \in Nat /\ Len(all) \in Nat
      /\ DOMAIN Append(seq, b) = 1 .. Len(seq) + 1
      /\ \A i \in 1 .. Len(seq) : Append(seq, b)[i] = seq[i]
      /\ Append(seq, b)[Len(seq) + 1] = b
      /\ \A i \in 1 .. Len(all) : Append(all, b)[i] = all[i]
      /\ Append(all, b)[Len(all) + 1] = b
  BY LenProperties, AppendProperties
<1>1. PICK at \in [DOMAIN seq -> places] :
        /\ \A i, j \in DOMAIN seq : i < j => at[i] < at[j]
        /\ \A n \in places : \E i \in DOMAIN seq : at[i] = n
        /\ \A i \in DOMAIN seq : seq[i] = all[at[i]]
  BY DEF Chat!IsSelection
<1>2. \A i \in 1 .. Len(seq) : at[i] \in places /\ at[i] \in 1 .. Len(all)
  BY <1>0
<1>3. Chat!IsSelection(seq, Append(all, b), places)
  <2>1. \A i \in DOMAIN seq : seq[i] = Append(all, b)[at[i]]
    BY <1>0, <1>1, <1>2
  <2> QED
    BY <1>1, <2>1 DEF Chat!IsSelection
<1>4. PICK more : more = Append(seq, b)
  OBVIOUS
<1>5. PICK longer : longer = Append(all, b)
  OBVIOUS
<1>6. PICK to : to = [i \in 1 .. Len(seq) + 1 |-> IF i = Len(seq) + 1 THEN Len(all) + 1 ELSE at[i]]
  OBVIOUS
<1>7. /\ DOMAIN more = 1 .. Len(seq) + 1
      /\ to \in [DOMAIN more -> places \cup {Len(all) + 1}]
  BY <1>0, <1>2, <1>4, <1>6
<1>8. \A i, j \in DOMAIN more : i < j => to[i] < to[j]
  BY <1>0, <1>1, <1>2, <1>6, <1>7
<1>9. \A n \in places \cup {Len(all) + 1} : \E i \in DOMAIN more : to[i] = n
  <2>1. ASSUME NEW n \in places PROVE \E i \in DOMAIN more : to[i] = n
    <3>1. PICK i \in 1 .. Len(seq) : at[i] = n
      BY <1>0, <1>1
    <3>2. i \in DOMAIN more /\ to[i] = n
      BY <1>0, <1>6, <1>7, <3>1
    <3> QED
      BY <3>2
  <2>2. Len(seq) + 1 \in DOMAIN more /\ to[Len(seq) + 1] = Len(all) + 1
    BY <1>0, <1>6, <1>7
  <2> QED
    BY <2>1, <2>2
<1>10. ASSUME NEW i \in DOMAIN more PROVE more[i] = longer[to[i]]
  <2>1. CASE i = Len(seq) + 1
    BY <1>0, <1>4, <1>5, <1>6, <1>7, <2>1
  <2>2. CASE i # Len(seq) + 1
    <3>1. i \in 1 .. Len(seq)
      BY <1>0, <1>7, <2>2
    <3>2. more[i] = seq[i] /\ to[i] = at[i] /\ longer[at[i]] = all[at[i]] /\ seq[i] = all[at[i]]
      BY <1>0, <1>1, <1>2, <1>4, <1>5, <1>6, <2>2, <3>1
    <3> QED
      BY <3>2
  <2> QED
    BY <2>1, <2>2
<1>11. Chat!IsSelection(more, longer, places \cup {Len(all) + 1})
  BY <1>7, <1>8, <1>9, <1>10 DEF Chat!IsSelection
<1> QED
  BY <1>3, <1>4, <1>5, <1>11

\* The history of a room: the last maxHistorySize messages said there.
IsHistory(kept, all) ==
  /\ Len(kept) = IF Len(all) > maxHistorySize THEN maxHistorySize ELSE Len(all)
  /\ \A i \in 1 .. Len(kept) : kept[i] = all[i + (Len(all) - Len(kept))]

\* handleConnect shows a selection.
LEMMA HistorySelected ==
  ASSUME NEW B, NEW kept \in Seq(B), NEW all \in Seq(B), IsHistory(kept, all)
  PROVE  Chat!IsSelection(kept, all, {i \in 1 .. Len(all) : i > Len(all) - maxHistorySize})
<1>0. /\ DOMAIN kept = 1 .. Len(kept) /\ Len(kept) \in Nat /\ Len(all) \in Nat
      /\ maxHistorySize \in Nat
  BY LenProperties, ChatAssumption
<1> DEFINE places == {i \in 1 .. Len(all) : i > Len(all) - maxHistorySize}
<1>1. Len(kept) = IF Len(all) > maxHistorySize THEN maxHistorySize ELSE Len(all)
  BY DEF IsHistory
<1>2. PICK d \in Nat : d = Len(all) - Len(kept)
  <2>1. Len(all) - Len(kept) \in Nat
    BY <1>0, <1>1
  <2> QED
    BY <2>1, Zenon
<1>3. PICK at : at = [i \in 1 .. Len(kept) |-> i + d]
  OBVIOUS
<1>4. at \in [DOMAIN kept -> places]
  BY <1>0, <1>2, <1>3, <1>1
<1>5. \A i, j \in DOMAIN kept : i < j => at[i] < at[j]
  BY <1>0, <1>3
<1>6. ASSUME NEW n \in places PROVE \E i \in DOMAIN kept : at[i] = n
  <2>1. n - d \in 1 .. Len(kept) /\ (n - d) + d = n
    BY <1>0, <1>2, <1>1
  <2> QED
    BY <1>0, <1>3, <2>1
<1>7. \A i \in DOMAIN kept : kept[i] = all[at[i]]
  BY <1>0, <1>2, <1>3 DEF IsHistory
<1> HIDE DEF places
<1>8. Chat!IsSelection(kept, all, places)
  BY <1>4, <1>5, <1>6, <1>7 DEF Chat!IsSelection
<1> QED
  BY <1>8 DEF places

\* appendHistory keeps a history.
LEMMA HistoryGrows ==
  ASSUME NEW B, NEW kept \in Seq(B), NEW all \in Seq(B), NEW b \in B, IsHistory(kept, all)
  PROVE  /\ Chat!AppendHistory(kept, b) \in Seq(B)
         /\ IsHistory(Chat!AppendHistory(kept, b), Append(all, b))
<1>1. PICK more : more = Append(kept, b)
  OBVIOUS
<1>2. PICK longer : longer = Append(all, b)
  OBVIOUS
<1>3. /\ more \in Seq(B) /\ Len(more) = Len(kept) + 1 /\ Len(kept) \in Nat
      /\ \A i \in 1 .. Len(kept) : more[i] = kept[i]
      /\ more[Len(kept) + 1] = b
  BY <1>1, LenProperties, AppendProperties
<1>4. /\ longer \in Seq(B) /\ Len(longer) = Len(all) + 1 /\ Len(all) \in Nat
      /\ \A i \in 1 .. Len(all) : longer[i] = all[i]
      /\ longer[Len(all) + 1] = b
  BY <1>2, LenProperties, AppendProperties
<1>5. maxHistorySize \in Nat
  BY ChatAssumption
<1>6. Chat!AppendHistory(kept, b) = IF Len(more) > maxHistorySize
          THEN SubSeq(more, Len(more) - maxHistorySize + 1, Len(more)) ELSE more
  BY <1>1 DEF Chat!AppendHistory
<1>7. /\ Len(kept) = IF Len(all) > maxHistorySize THEN maxHistorySize ELSE Len(all)
      /\ \A i \in 1 .. Len(kept) : kept[i] = all[i + (Len(all) - Len(kept))]
  BY DEF IsHistory
<1>8. ASSUME NEW i \in 1 .. Len(more) PROVE more[i] = longer[i + (Len(longer) - Len(more))]
  <2>1. CASE i = Len(kept) + 1
    BY <1>3, <1>4, <2>1
  <2>2. CASE i # Len(kept) + 1
    <3>1. i \in 1 .. Len(kept) /\ i + (Len(all) - Len(kept)) \in 1 .. Len(all)
          /\ Len(longer) - Len(more) = Len(all) - Len(kept)
      BY <1>3, <1>4, <1>5, <1>7, <2>2
    <3> QED
      BY <1>3, <1>4, <1>7, <3>1
  <2> QED
    BY <2>1, <2>2
<1>9. CASE Len(more) > maxHistorySize
  <2>1. PICK s : s = SubSeq(more, Len(more) - maxHistorySize + 1, Len(more))
    OBVIOUS
  <2>2. Len(more) - maxHistorySize + 1 \in 1 .. Len(more) + 1 /\ Len(more) \in Nat
    BY <1>3, <1>5, <1>9
  <2>3. /\ s \in Seq(B) /\ Len(s) = maxHistorySize
        /\ \A i \in 1 .. maxHistorySize : s[i] = more[i + (Len(more) - maxHistorySize)]
    BY <1>3, <1>5, <1>9, <2>1, <2>2, SubSeqProperties
  <2>4. Len(longer) > maxHistorySize
    BY <1>3, <1>4, <1>5, <1>7, <1>9
  <2>5. ASSUME NEW i \in 1 .. Len(s) PROVE s[i] = longer[i + (Len(longer) - Len(s))]
    <3>1. PICK j \in 1 .. Len(more) : j = i + (Len(more) - maxHistorySize)
      <4>1. i + (Len(more) - maxHistorySize) \in 1 .. Len(more)
        BY <1>3, <1>5, <1>9, <2>3
      <4> QED
        BY <4>1, Zenon
    <3>2. j + (Len(longer) - Len(more)) = i + (Len(longer) - Len(s))
      BY <1>3, <1>4, <1>5, <2>3, <3>1
    <3> QED
      BY <1>8, <2>3, <3>1, <3>2
  <2>6. IsHistory(s, longer)
    BY <2>3, <2>4, <2>5 DEF IsHistory
  <2> QED
    BY <1>2, <1>6, <1>9, <2>1, <2>3, <2>6
<1>10. CASE ~(Len(more) > maxHistorySize)
  <2>1. Len(more) = IF Len(longer) > maxHistorySize THEN maxHistorySize ELSE Len(longer)
    BY <1>3, <1>4, <1>5, <1>7, <1>10
  <2>2. IsHistory(more, longer)
    BY <1>8, <2>1 DEF IsHistory
  <2> QED
    BY <1>2, <1>3, <1>6, <1>10, <2>2
<1> QED
  BY <1>9, <1>10

\* What the server broadcasts.
Broadcasts == [from : Addresses, user : 0 .. Len(Flags)]

\* The places in all of what is shown to a, who came after n messages.
Heard(a, all, n) ==
  {i \in DOMAIN all : IF i <= n THEN i > n - maxHistorySize ELSE all[i].from # a}

LEMMA HeardGrows ==
  ASSUME NEW a, NEW all \in Seq(Broadcasts), NEW n \in Nat, n <= Len(all), NEW b \in Broadcasts
  PROVE  /\ Heard(a, all, n) \in SUBSET (1 .. Len(all))
         /\ Heard(a, Append(all, b), n) = IF b.from = a THEN Heard(a, all, n)
                                          ELSE Heard(a, all, n) \cup {Len(all) + 1}
<1>0. maxHistorySize \in Nat
  BY ChatAssumption
<1>1. PICK longer : longer = Append(all, b)
  OBVIOUS
<1>2. /\ DOMAIN all = 1 .. Len(all) /\ Len(all) \in Nat
      /\ DOMAIN longer = 1 .. Len(all) + 1
      /\ \A i \in 1 .. Len(all) : longer[i] = all[i]
      /\ longer[Len(all) + 1] = b
  BY <1>1, LenProperties, AppendProperties
<1>3. ASSUME NEW i
      PROVE  i \in Heard(a, longer, n) <=> (i \in Heard(a, all, n)
                                              \/ (i = Len(all) + 1 /\ b.from # a))
  <2>1. CASE i \in 1 .. Len(all)
    BY <1>2, <2>1 DEF Heard
  <2>2. CASE i = Len(all) + 1
    BY <1>2, <2>2 DEF Heard
  <2>3. CASE i \notin 1 .. Len(all) + 1
    BY <1>2, <2>3 DEF Heard
  <2> QED
    BY <1>2, <2>1, <2>2, <2>3
<1>4. Heard(a, all, n) \in SUBSET (1 .. Len(all))
  BY <1>2 DEF Heard
<1>5. Heard(a, longer, n) = IF b.from = a THEN Heard(a, all, n)
                            ELSE Heard(a, all, n) \cup {Len(all) + 1}
  <2> HIDE DEF Heard
  <2>1. CASE b.from = a
    BY <1>3, <2>1, Zenon
  <2>2. CASE b.from # a
    BY <1>3, <2>2, Zenon
  <2> QED
    BY <2>1, <2>2
<1> QED
  BY <1>1, <1>4, <1>5

LEMMA HeardFirst ==
  ASSUME NEW a, NEW all \in Seq(Broadcasts)
  PROVE  Heard(a, all, Len(all)) = {i \in 1 .. Len(all) : i > Len(all) - maxHistorySize}
<1>1. DOMAIN all = 1 .. Len(all) /\ Len(all) \in Nat
  BY LenProperties
<1> QED
  BY <1>1 DEF Heard

ServerTypes ==
  /\ \A d \in DOMAIN clients :
       d \in Addresses /\ clients[d].room \in Rooms /\ clients[d].user \in 0 .. Len(Flags)
  /\ history \in [Rooms -> Seq(Broadcasts)]
  /\ said \in [Rooms -> Seq(Broadcasts)]
  /\ shown \in [Addresses -> Seq(Broadcasts)]
  /\ since \in [Addresses -> Nat]

Hears(d, heard, all, n) == n <= Len(all) /\ Chat!IsSelection(heard, all, Heard(d, all, n))

\* The history is the end of what was said, and each member was shown its
\* selection.
HearInv ==
  /\ ServerTypes
  /\ \A r \in Rooms : IsHistory(history[r], said[r])
  /\ \A d \in DOMAIN clients : Hears(d, shown[d], said[clients[d].room], since[d])

LEMMA InitHear == MCInit => HearInv
<1> SUFFICES ASSUME Chat!Init PROVE HearInv
  BY DEF MCInit
<1>1. \A d : d \notin DOMAIN clients
  BY NobodyKnown DEF Chat!Init
<1>2. PICK e : e = << >>
  OBVIOUS
<1>3. e \in Seq(Broadcasts) /\ Len(e) = 0
  BY <1>2, EmptySeq
<1>4. /\ history = [r \in Rooms |-> e] /\ said = [r \in Rooms |-> e]
      /\ shown = [a \in Addresses |-> e] /\ since = [a \in Addresses |-> 0]
  BY <1>2 DEF Chat!Init
<1>5. IsHistory(e, e)
  <2>1. maxHistorySize \in Nat
    BY ChatAssumption
  <2>2. 0 = (IF 0 > maxHistorySize THEN maxHistorySize ELSE 0) /\ \A i : i \notin 1 .. 0
    BY <2>1
  <2> QED
    BY <1>3, <2>2 DEF IsHistory
<1>6. ServerTypes
  BY <1>1, <1>3, <1>4 DEF ServerTypes
<1> QED
  BY <1>1, <1>4, <1>5, <1>6 DEF HearInv

\* The letter the server handles.
LEMMA FirstLetter ==
  ASSUME ChatInv, NEW a, NEW type, Chat!Handle(a, type)
  PROVE  /\ Head(mailbox) \in Letters
         /\ Head(mailbox).wire.body \in Bodies
         /\ Head(mailbox).wire.body.type = type
         /\ Chat!Decode(Head(mailbox).wire).body = Head(mailbox).wire.body
<1>1. mailbox # <<>> /\ mailbox \in Seq(Letters) /\ Head(mailbox).wire.body.type = type
  BY DEF Chat!Handle, Chat!Decode, ChatInv, ChatTypes
<1>2. Head(mailbox) \in Letters
  BY <1>1, HeadTailProperties
<1> QED
  BY <1>1, <1>2 DEF Letters, Chat!Decode

LEMMA ConnectHeard ==
  ASSUME ChatInv, HearInv, NEW a \in Addresses, Chat!HandleConnect(a)
  PROVE  HearInv'
<1> DEFINE in == Chat!Decode(Head(mailbox).wire)
<1>1. PICK info : info = [user |-> in.body.user, room |-> in.body.room, codec |-> in.codec]
  OBVIOUS
<1>2. Chat!Handle(a, "Connect") /\ UNCHANGED <<history, said>>
  BY DEF Chat!HandleConnect
<1>3. info.room \in Rooms /\ info.user \in 0 .. Len(Flags)
  <2>1. Head(mailbox).wire.body \in Bodies /\ Head(mailbox).wire.body.type = "Connect"
        /\ in.body = Head(mailbox).wire.body
    BY <1>2, FirstLetter
  <2>2. in.body.room \in Rooms /\ in.body.user \in 0 .. Len(Flags)
    BY <2>1 DEF Bodies
  <2> QED
    BY <1>1, <2>2
<1>4. CASE a \in DOMAIN clients
  <2>1. UNCHANGED <<clients, shown, since>>
    BY <1>4 DEF Chat!HandleConnect
  <2> QED
    BY <1>2, <2>1 DEF HearInv, ServerTypes
<1>5. CASE a \notin DOMAIN clients
  <2>1. /\ clients' = [d \in DOMAIN clients \cup {a} |-> IF d = a THEN info ELSE clients[d]]
        /\ shown' = [shown EXCEPT ![a] = [i \in 1 .. Len(history[info.room]) |->
                                            Chat!Shown(info, history[info.room][i])]]
        /\ since' = [since EXCEPT ![a] = Len(said[info.room])]
    BY <1>1, <1>5 DEF Chat!HandleConnect
  <2>2. PICK kept \in Seq(Broadcasts) : kept = history[info.room]
    BY <1>3 DEF HearInv, ServerTypes
  <2>3. PICK all \in Seq(Broadcasts) : all = said[info.room]
    BY <1>3 DEF HearInv, ServerTypes
  <2>4. shown' = [shown EXCEPT ![a] = kept]
    <3>1. [i \in 1 .. Len(kept) |-> Chat!Shown(info, kept[i])] = kept
      <4>1. \A i : Chat!Shown(info, kept[i]) = kept[i]
        BY DEF Chat!Shown, Chat!Decode, Chat!Encode
      <4>2. kept = [i \in 1 .. Len(kept) |-> kept[i]]
        BY LenProperties
      <4> QED
        BY <4>1, <4>2
    <3> QED
      BY <2>1, <2>2, <3>1
  <2>5. ServerTypes'
    <3>1. ASSUME NEW d \in DOMAIN clients'
          PROVE  d \in Addresses /\ clients'[d].room \in Rooms /\ clients'[d].user \in 0 .. Len(Flags)
      BY <1>3, <2>1 DEF HearInv, ServerTypes
    <3>2. shown' \in [Addresses -> Seq(Broadcasts)]
      BY <2>4 DEF HearInv, ServerTypes
    <3>3. since' \in [Addresses -> Nat]
      BY <2>1, <2>3, LenProperties DEF HearInv, ServerTypes
    <3> QED
      BY <1>2, <3>1, <3>2, <3>3 DEF HearInv, ServerTypes
  <2>6. ASSUME NEW d \in DOMAIN clients'
        PROVE  Hears(d, shown'[d], said'[clients'[d].room], since'[d])
    <3>1. CASE d = a
      <4>1. shown'[d] = kept /\ said'[clients'[d].room] = all /\ since'[d] = Len(all)
        BY <1>2, <2>1, <2>3, <2>4, <3>1 DEF HearInv, ServerTypes
      <4>2. IsHistory(kept, all)
        BY <1>3, <2>2, <2>3 DEF HearInv
      <4>3. Chat!IsSelection(kept, all, Heard(d, all, Len(all)))
        BY <4>2, HistorySelected, HeardFirst
      <4>4. Len(all) <= Len(all)
        BY LenProperties
      <4> QED
        BY <4>1, <4>3, <4>4 DEF Hears
    <3>2. CASE d # a
      <4>1. /\ d \in DOMAIN clients /\ d \in Addresses /\ shown'[d] = shown[d]
            /\ clients'[d] = clients[d] /\ since'[d] = since[d] /\ said' = said
        BY <1>2, <2>1, <2>4, <3>2 DEF HearInv, ServerTypes
      <4> QED
        BY <4>1 DEF HearInv
    <3> QED
      BY <3>1, <3>2
  <2> QED
    BY <1>2, <2>5, <2>6 DEF HearInv
<1> QED
  BY <1>4, <1>5

LEMMA DisconnectHeard ==
  ASSUME ChatInv, HearInv, NEW a \in Addresses, Chat!HandleDisconnect(a)
  PROVE  HearInv'
<1>1. /\ clients' = [d \in DOMAIN clients \ {a} |-> clients[d]]
      /\ shown' = [shown EXCEPT ![a] = <<>>]
      /\ since' = [since EXCEPT ![a] = 0]
      /\ UNCHANGED <<history, said>>
  BY DEF Chat!HandleDisconnect
<1>2. <<>> \in Seq(Broadcasts)
  BY EmptySeq
<1>3. shown' \in [Addresses -> Seq(Broadcasts)]
  BY <1>1, <1>2 DEF HearInv, ServerTypes
<1>4. ServerTypes'
  BY <1>1, <1>3 DEF HearInv, ServerTypes
<1>5. ASSUME NEW d \in DOMAIN clients'
      PROVE  Hears(d, shown'[d], said'[clients'[d].room], since'[d])
  <2>1. /\ d \in DOMAIN clients /\ d \in Addresses /\ shown'[d] = shown[d]
        /\ clients'[d] = clients[d] /\ since'[d] = since[d] /\ said' = said
    BY <1>1 DEF HearInv, ServerTypes
  <2> QED
    BY <2>1 DEF HearInv
<1> QED
  BY <1>1, <1>4, <1>5 DEF HearInv

LEMMA MessageHeard ==
  ASSUME ChatInv, HearInv, NEW a \in Addresses, Chat!HandleMessage(a)
  PROVE  HearInv'
<1>1. PICK r : r = Chat!Decode(Head(mailbox).wire).body.room
  OBVIOUS
<1>2. Chat!Handle(a, "Message") /\ UNCHANGED <<clients, since>>
  BY DEF Chat!HandleMessage
<1>3. r \in Rooms
  <2>1. Head(mailbox).wire.body \in Bodies /\ Head(mailbox).wire.body.type = "Message"
        /\ Chat!Decode(Head(mailbox).wire).body = Head(mailbox).wire.body
    BY <1>2, FirstLetter
  <2>2. Head(mailbox).wire.body.room \in Rooms
    BY <2>1 DEF Bodies
  <2> QED
    BY <1>1, <2>1, <2>2
<1>4. CASE a \notin DOMAIN clients
  <2>1. UNCHANGED <<history, said, shown>>
    BY <1>4 DEF Chat!HandleMessage
  <2> QED
    BY <1>2, <2>1 DEF HearInv, ServerTypes
<1>5. CASE a \in DOMAIN clients
  <2>1. PICK b : b = [from |-> a, user |-> clients[a].user]
    OBVIOUS
  <2>2. b \in Broadcasts /\ b.from = a
    BY <1>5, <2>1 DEF Broadcasts, HearInv, ServerTypes
  <2>3. /\ history' = [history EXCEPT ![r] = Chat!AppendHistory(history[r], b)]
        /\ said' = [said EXCEPT ![r] = Append(said[r], b)]
        /\ Chat!BroadcastToRoom(r, a, b)
    BY <1>1, <1>5, <2>1 DEF Chat!HandleMessage
  <2>4. shown' = [d \in Addresses |-> IF d \in DOMAIN clients \ {a} /\ clients[d].room = r
                                      THEN Append(shown[d], b) ELSE shown[d]]
    <3>1. \A info : Chat!Shown(info, b) = b
      BY DEF Chat!Shown, Chat!Decode, Chat!Encode
    <3> QED
      BY <2>3, <3>1 DEF Chat!BroadcastToRoom
  <2>5. PICK kept \in Seq(Broadcasts) : kept = history[r]
    BY <1>3 DEF HearInv, ServerTypes
  <2>6. PICK all \in Seq(Broadcasts) : all = said[r]
    BY <1>3 DEF HearInv, ServerTypes
  <2>7. Chat!AppendHistory(kept, b) \in Seq(Broadcasts)
        /\ IsHistory(Chat!AppendHistory(kept, b), Append(all, b))
    <3>1. IsHistory(kept, all)
      BY <1>3, <2>5, <2>6 DEF HearInv
    <3> QED
      BY <2>2, <3>1, HistoryGrows
  <2>8. Append(all, b) \in Seq(Broadcasts) /\ Len(Append(all, b)) = Len(all) + 1 /\ Len(all) \in Nat
    BY <2>2, AppendProperties, LenProperties
  <2>9. ServerTypes'
    <3>1. history' \in [Rooms -> Seq(Broadcasts)]
      BY <2>3, <2>5, <2>7 DEF HearInv, ServerTypes
    <3>2. said' \in [Rooms -> Seq(Broadcasts)]
      BY <2>3, <2>6, <2>8 DEF HearInv, ServerTypes
    <3>3. ASSUME NEW d \in Addresses PROVE shown'[d] \in Seq(Broadcasts)
      <4>1. shown[d] \in Seq(Broadcasts)
        BY DEF HearInv, ServerTypes
      <4>2. Append(shown[d], b) \in Seq(Broadcasts)
        BY <2>2, <4>1, AppendProperties
      <4> QED
        BY <2>4, <4>1, <4>2
    <3>4. shown' \in [Addresses -> Seq(Broadcasts)]
      BY <2>4, <3>3
    <3> QED
      BY <1>2, <3>1, <3>2, <3>4 DEF HearInv, ServerTypes
  <2>10. ASSUME NEW s \in Rooms PROVE IsHistory(history'[s], said'[s])
    <3>1. CASE s = r
      <4>1. history'[s] = Chat!AppendHistory(kept, b) /\ said'[s] = Append(all, b)
        BY <2>3, <2>5, <2>6, <3>1 DEF HearInv, ServerTypes
      <4> QED
        BY <2>7, <4>1
    <3>2. CASE s # r
      <4>1. history'[s] = history[s] /\ said'[s] = said[s]
        BY <2>3, <3>2 DEF HearInv, ServerTypes
      <4> QED
        BY <4>1 DEF HearInv
    <3> QED
      BY <3>1, <3>2
  <2>11. ASSUME NEW d \in DOMAIN clients
         PROVE  Hears(d, shown'[d], said'[clients[d].room], since[d])
    <3>1. d \in Addresses /\ clients[d].room \in Rooms
      BY DEF HearInv, ServerTypes
    <3>2. PICK n \in Nat : n = since[d]
      BY <3>1 DEF HearInv, ServerTypes
    <3>3. PICK heard \in Seq(Broadcasts) : heard = shown[d]
      BY <3>1 DEF HearInv, ServerTypes
    <3>4. Hears(d, heard, said[clients[d].room], n)
      BY <3>2, <3>3 DEF HearInv
    <3>5. CASE clients[d].room # r
      <4>1. said'[clients[d].room] = said[clients[d].room] /\ shown'[d] = heard
        BY <2>3, <2>4, <3>1, <3>3, <3>5 DEF HearInv, ServerTypes
      <4> QED
        BY <3>2, <3>4, <4>1
    <3>6. CASE clients[d].room = r
      <4>1. said'[clients[d].room] = Append(all, b)
        BY <2>3, <2>6, <3>1, <3>6 DEF HearInv, ServerTypes
      <4>2. n <= Len(all) /\ Chat!IsSelection(heard, all, Heard(d, all, n))
        BY <2>6, <3>4, <3>6 DEF Hears
      <4>3. /\ Heard(d, all, n) \in SUBSET (1 .. Len(all))
            /\ Heard(d, Append(all, b), n) = IF a = d THEN Heard(d, all, n)
                                             ELSE Heard(d, all, n) \cup {Len(all) + 1}
        <5>1. /\ Heard(d, all, n) \in SUBSET (1 .. Len(all))
              /\ Heard(d, Append(all, b), n) = IF b.from = d THEN Heard(d, all, n)
                                               ELSE Heard(d, all, n) \cup {Len(all) + 1}
          BY <2>2, <4>2, HeardGrows, ZenonT(60)
        <5> QED
          BY <2>2, <5>1, ZenonT(60)
      <4>4. /\ Chat!IsSelection(Append(heard, b), Append(all, b), Heard(d, all, n) \cup {Len(all) + 1})
            /\ Chat!IsSelection(heard, Append(all, b), Heard(d, all, n))
        BY <2>2, <4>2, <4>3, SelectionMore
      <4>5. n <= Len(Append(all, b))
        BY <2>8, <4>2
      <4>6. shown'[d] = IF d = a THEN heard ELSE Append(heard, b)
        BY <2>4, <3>1, <3>3, <3>6
      <4>7. Chat!IsSelection(shown'[d], Append(all, b), Heard(d, Append(all, b), n))
        <5>1. CASE d = a
          BY <4>3, <4>4, <4>6, <5>1
        <5>2. CASE d # a
          BY <4>3, <4>4, <4>6, <5>2
        <5> QED
          BY <5>1, <5>2
      <4> QED
        BY <3>2, <4>1, <4>5, <4>7 DEF Hears
    <3> QED
      BY <3>5, <3>6
  <2> QED
    BY <1>2, <2>9, <2>10, <2>11 DEF HearInv
<1> QED
  BY <1>4, <1>5

LEMMA NextHear == ChatInv /\ HearInv /\ [MCNext]_allVars => HearInv'
<1> SUFFICES ASSUME ChatInv, HearInv, [MCNext]_allVars PROVE HearInv'
  OBVIOUS
<1>1. ASSUME UNCHANGED <<clients, history, said, shown, since>> PROVE HearInv'
  BY <1>1 DEF HearInv, ServerTypes
<1>2. CASE UNCHANGED chatVars
  BY <1>1, <1>2
<1>3. ASSUME NEW a \in Addresses,
             \/ Chat!Start(a) \/ Chat!ReadRoom(a) \/ Chat!Greet(a) \/ Chat!Say(a)
             \/ Chat!JoinLeaves(a) \/ Chat!JoinEnters(a) \/ Chat!Quit(a)
             \/ Chat!InputEnds(a) \/ Chat!Signal(a) \/ Chat!Exit(a) \/ Chat!Kill(a)
      PROVE  HearInv'
  <2>1. UNCHANGED <<clients, history, said, shown, since>>
    BY <1>3 DEF Chat!Start, Chat!ReadRoom, Chat!Greet, Chat!Say, Chat!JoinLeaves,
         Chat!JoinEnters, Chat!Quit, Chat!InputEnds, Chat!Signal, Chat!Exit, Chat!Kill
  <2> QED
    BY <1>1, <2>1
<1>4. CASE Chat!Next
  BY <1>3, <1>4, ConnectHeard, DisconnectHeard, MessageHeard DEF Chat!Next
<1> QED
  BY <1>2, <1>4 DEF MCNext, allVars

\* However clients come, go and change rooms while others speak, each has been
\* shown the last maxHistorySize messages said in its room when it came and then
\* every message of the others, once and in order, for any number of clients,
\* rooms and messages (handleConnect, handleMessage, appendHistory,
\* broadcastToRoom).
THEOREM MembersHearAll == MCSpec => []MembersHear
<1>1. HearInv => MembersHear
  BY DEF HearInv, Hears, Heard, MembersHear, Chat!MembersHear
<1> QED
  BY <1>1, InitHear, NextHear, ChatInvariance, PTL DEF MCSpec
=============================================================================
