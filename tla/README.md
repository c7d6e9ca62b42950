# goakt-examples: a TLA+ verification project

The repository holds some twenty programs built on the goakt actor library. This
directory specifies the programs whose own logic can go wrong in ways their tests
hardly reach, checks small instances of the specifications with TLC, and proves the
most important results for every instance with TLAPS.

The goakt library itself is not in the repository. What the programs use of it
is modelled from how they use it and marked external: a mailbox per actor, one
message handled at a time, `Ask` with a timeout that leaves the message where it
was, supervision restarts, cluster singletons and relocation, topics, timers.

## 1. Inventory

| Component | State | Operations | What is hard |
|---|---|---|---|
| goakt-2pc (`coordinator.go`, `account_entity.go`, `service.go`, `postgres.go`) | account balance and `prepared` map in memory; one Coordinator per transfer; rows in Postgres | create account, POST /transfers, prepare, commit, status writes, PreStart, PostStop | four Asks in a row, each may time out and be handled late; accounts restart or crash with votes cast; writes fail; clients give up first |
| goakt-saga (`saga_orchestrator.go`, `account_entity.go`, service, persistence) | as above without `prepared` | debit, credit, compensate, client credits | compensation against late debits and credits; PIDs that have gone stale |
| goakt-blockchain (`node.go`, `broker.go`, `miner.go`, `replica.go`, `chain.go`, `pebble.go`) | a chain and a Pebble store per pod; one Node singleton with broker and miner; a topic | submit, mine, announce, append, catch up, failover | announcements race with the next proof and with catch-ups; pods and disks fail; replicas wait for each other |
| goakt-pictograph (`room.go`, `lobby.go`, `session.go`, `gateway.go`, `profile.go`, `leaderboard.go`) | room phases waiting, choosing, drawing, round over, game over; players, timers, stash; lobby directory; CRDT leaderboard | join, leave, choose, draw, guess, timer ticks, restart | timer messages already in the mailbox when the timer is cancelled; stashed messages; reconnects; non-atomic CRDT writes |
| goakt-scrabble (`room.go`, `bot.go`, session, lobby, registry, `scrabble/` engine) | seats, racks, bag, board, turn index, deadline | place, exchange, pass, pause, timeouts, bots; move validation, scoring, move generation | seats change while a turn is under way; stale timeouts and bot moves; tile conservation; bag at its end |
| goakt-tetris (`match.go`, `matchmaker.go`, `session.go`, `gateway.go`) | grid, piece, subscribers; one match and one session per connection | create, subscribe, unsubscribe, tick, input | unsubscribe before subscribe; a gateway that gives up on a match it has asked for; line clearing at the borders |
| goakt-chat (`server.go`, `client.go`, `wire.go`, `cmd/client.go`) | clients by address with room and codec, capped history per room; the client's current room | connect, disconnect, say, /join, /quit, signal | three goroutines of a client speak to the server; addresses are used again; history at its cap; two codecs |
| goakt-ai (orchestrator, agents, service) | one orchestrator per pod, one agent of each kind in the cluster | query, locate, spawn, delegate, retry | two pods spawn one kind; agents that die between lookup and Ask; one query at a time |
| goakt-cluster account services (dnssd, k8s, k8s-ebpf, static, dynalloc, multi-dc, multi-dc-isolated), goakt-grains, goakt-grains-cluster, goakt-persistence | account actor or grain, a row in PostgreSQL or a map | create, credit, get, forward to the other datacenter; boot and shutdown in a fixed order | balances are written by PostStop only; requests time out and are handled later; a step of the boot fails |
| goakt-iot-twin, goakt-behaviors | a device twin, a behaviour stack | scripted | the library's semantics |
| goakt-stream and the one-exchange examples | none of their own | the library's | the library's semantics |

What makes these systems correct, and is checked here: a transfer moves money on each side
at most once and only as decided; nothing is left half done when nothing failed; what a
client is told of a transfer never names another outcome than the answer it got; money is
not made or lost, but for what a column of cents rounds; every chain in memory or on disk is
one that validation builds, and only grows; replicas agree when nothing failed; a room's
drawer is at its table, its timers belong to its phase and nobody who is connected is
evicted; a scrabble room fails only when its table changed during a game, makes no tiles,
and its bots find every legal move; rooms and matches end with their players; a code means
one room and results are counted once; a balance a client was told survives a restart; the
chat server and its clients agree on who is in which room, and members hear everything once;
every query is worked on and answered; everyone who waits stops waiting and every game ends.
`PROJECT.json` lists the hazards line by line.

## 2. Modules

| Module | Models |
|---|---|
| `Money` | what a `numeric(19, 2)` column keeps of an amount |
| `AtomicTransfer` | what a two-phase commit promises of a transfer: votes, one irrevocable decision, moves, answers |
| `TwoPhaseCommit` | goakt-2pc in detail, implementing `AtomicTransfer` |
| `TwoPhaseCommitProofs` | the inductive invariant of `TwoPhaseCommit`, the refinement and other theorems |
| `CompensatedTransfer` | what a saga promises of a transfer: each effect at most once, forward or compensated |
| `Saga`, `MCSaga` | goakt-saga in detail, implementing `CompensatedTransfer`; `MCSaga` has the amounts of the instance, of which some are negative |
| `SagaProofs` | safety, conservation of money and refinement of `Saga` |
| `Blockchain` | goakt-blockchain: node, broker, miner, replicas, stores and topic |
| `BlockchainProofs` | its invariants and the growth of its stores |
| `PictographRoom`, `MCPictographRoom` | goakt-pictograph: one room, its players' sessions and the gateway; `MCPictographRoom` names the players of the instance |
| `PictographRoomProofs` | its invariants |
| `ScrabbleRoom`, `MCScrabbleRoom` | goakt-scrabble: one room, its bots, sessions and gateway |
| `ScrabbleRoomProofs` | its invariants |
| `SumTheorems` | laws of sums over finite sets, for the money of `Saga`, the tiles of `ScrabbleRoom` and the wins of `GameResults`; laws of rounding to cents |
| `ScrabbleEngine` | goakt-scrabble: board, bag, racks, validation, scoring, move generation, wire form |
| `TetrisGame` | goakt-tetris: the game a match plays |
| `TetrisMatch` | goakt-tetris: the life of a match, its session and its connection |
| `GameLobby` | the lobbies of goakt-scrabble and goakt-pictograph and the gateways that ask them |
| `GameResults` | profiles and leaderboards of both games |
| `AgentQueries` | goakt-ai: service, orchestrators and agents |
| `ServiceLifecycle` | fifteen programs, each from boot to signal, stop, kill and restart |
| `AccountService` | the account actors and grains of these programs, their stores and their requests; extends `ServiceLifecycle` |
| `ChatRooms` | goakt-chat: server and client processes |
| `MCServices` | one run for the account services and the chat |
| `ServicesProofs` | the invariants of `AccountService` for all fifteen programs; the agreement of chat server and clients, and what members hear |
| `Systems` | tetris, lobbies, results and agents side by side, with their properties |
| `SystemsProofs` | the invariants of tetris games, lobbies, results and agents |
| `MCSystems` | `Systems` and the engine, for one run |

The systems of `MCServices` and of `MCSystems` do not interact. A behaviour of such a run
is one of a single system, chosen in the initial state by `part` or `system`, while the
variables of the others are idle, so the states add up and do not multiply.

### TwoPhaseCommit

A Coordinator handles one message, `StartTransfer`, and is blocked in its Asks, so
`handleStartTransfer` is cut where it waits and where it writes to Postgres.
`pc[t]` is the place in the handler and `reply[t]` the result of the Ask it waits
for. `WritePreparing`, `LocateAccounts`, `WritePrepared`, `SourceVoted`,
`DestinationVoted`, `SourceCommitted`, `DestinationCommitted` and
`WriteCommitted` are its stretches of code, in order; each has its error paths as
disjuncts. `AskTimeout` ends any wait. The account's `Receive` is
`handlePrepareTransfer` and `handleCommitTransfer`; `CreateAccount`, `PreStart` and
`PostStop` are its other code. `PostStop`, `CrashAccount`, `Relocate`, `Lose` and
`CrashCoordinator` are what happens to nodes and network; the failures draw on one
budget, `MaxFaults`. After a failed Ask the message stays in `mailbox` and may be
handled late. A mailbox is a set: a coordinator never has two messages in one, and
different senders are not ordered. The service refuses equal accounts and amounts of
transfers that are not positive, hence `Requests` and `AmountsAssumption`; an account may be
opened with any amount, since neither the service nor the account looks at it. No
action aborts a prepared account, because no code sends `AbortTransfer`.
`GetTransfer(t)` is the set of what GET /transfers may be told now: also "unknown" from
`handleGetTransferStatus` when the row cannot be read, which is indeed answered with code
200, and "not_found" from the service when no coordinator is found, which is true of every
transfer of an earlier life of the program, completed or not. `StatusAgreesWithAnswer` is
about all of these: none names another outcome than the answer, but a report may fall short
of it, and the property says of which kind these are.
`voted`, `moved` and `disturbed` are history variables. `disturbed` holds the
transfers one of whose Asks failed or one of whose accounts stopped; only these may
lose a message or find a stale PID.

### Saga

The same layout. `applied[t]` is the set of effects a transfer has had. The debit
handler checks and subtracts in one message, a credit adds. A failed credit goes
through `compensate`, `refund` and `failing` as `compensateAndFail` does. Clients may
open and credit accounts with any amount (`Openings`, `Credits`), negative ones included,
which nothing in the code refuses: `charged` holds the accounts that were given one, and
`NoOverdraft` is about the others. `GetTransfer` is as in `TwoPhaseCommit`.

A crash takes an account back to its row; `deposited` is adjusted by what was rolled back,
which is what `MoneyConserved` is relative to. `PostStop` writes the balance to a
`numeric(19, 2)` column, so a fraction of a cent is rounded (`ToNumeric` of `Money`) and
`PreStart` reads the rounded amount: a clean restart makes or loses up to half a cent.
`roundings` counts how often that was so, and `MoneyConserved` allows for half a cent each
time and for nothing more; if no row was rounded it is exact.

### Money

Amounts are integers of a unit of which there are `Cent` in a cent, so that a fraction of a
cent is an amount like any other. That is where the tables differ from the programs, whose
`float64` balances have fractions that a row has no room for. PostgreSQL rounds half a unit
away from zero. What is abstracted from is the representation of `float64` itself: sums of
large and tiny amounts are exact in the model, and `numeric(19, 2)` does not overflow.

### Blockchain

A block is named by its hash, its position in the history `minted`; a proof is
the hash it was found for. The broker and the miner talk with the node only and in
its order, so what the node tells them is part of its handler. The proof-of-work
runs outside (`mining`). The announcement takes two asynchronous hops, through
`topic` and `inbox`. The node's questions to its replica queue behind what is
in that mailbox (`ReplicaAnswers`). A replica that catches up asks its peers one at a time
(`AskPeer`), skips those that are down or themselves busy (the timeout), and then
appends the longest answer (`EndCatchUp`). `FailedWrite` is the restart after a
failed write, at any block of a series. `CrashPod` and `RestartPod` keep
only the store. `AskTimeout` is the panic on the nil reply of an Ask. A
transaction is in `pending` without the coinbase transaction, of which there is one per
block. Reads (`GetChain`, proof checks, listings) change nothing and are not actions.

### PictographRoom

The room's `phase` is its current behaviour. `mailbox` is a queue that sessions,
gateway, timers and death watch send to, and each message handler of the five behaviours
is an action that takes the head of the queue (`PlayerHello`, the four ways to
leave, `PickWord`, `StashGuess`, `Guess`, `RestartGame`, `NextRound`, `AutoPickFirst`,
`TickCountdown`, `ShutdownRoom`; `Ignored` is what a phase does nothing about). A
handler that several behaviours share is one action with the phases in its guard.
The ways into a phase (`EnterChoosing`, `EnterDrawing`, `EnterRoundOver`,
`EnterGameOver`) are operators of those actions, as in the code. `armed` is the set of
running timers; `Fire` puts a timer's message in the mailbox, from where cancelling
the timer does not remove it. `via[p]` is the session a player sits with, so a
reconnect replaces it and the `GoodbyePlayer` of the older session finds nobody.
Seats are not ordered, so that any of the players who have not drawn may be next.
Words, strokes, scores and what is published change no phase and are left out.

### ScrabbleRoom

`phase` is the room's behaviour, or "failed" once a handler has panicked. Messages of
one sender keep their order, those of different senders do not: an input can arrive
after the gateway's goodbye, and a timer message after its timer was cancelled. There is no
mailbox: what is under way follows from how far its sender is (`session`, `socket`,
`thinking`, `due`). A seat is a record of player,
session and number of tiles. `Panics` ends the room; what supervision does next is
the library's. `disturbed` says that somebody joined or left while a game was on: then
the index of the turn may point past the end of the table, or at a late joiner without
a rack, and both panic. `revived` marks a
new game that was asked for when nobody was at the table, which keeps the room.
Whether a placement is valid is open here; the engine is about that.

### ScrabbleEngine

The generator (anchors, left parts, cross-checks over the DAWG) is translated function by
function and compared in every reachable position with `LegalMoves`, which tries all
placements and asks `Valid`. The board is the real one of 15 by 15. One thing found
on the way is kept in the model: a blank that stands for the letter with id 0 looks like
an unassigned blank (`IsUnassignedBlank`), so `Validate` refuses it and bots and players
cannot lay a blank as an A. The operators are recursive, so this module is for TLC only.

### TetrisGame, TetrisMatch

The game and the life of its actor touch nowhere but in the tick, so they are two
modules. `TetrisMatch` has one connection, since connections share nothing. `Orphaned`
lists the ways in which the code leaves a match running for nobody: the gateway gave
up before there was a session, `Subscribe` was handled after `Unsubscribe` and the match
cannot see the session end, or a message was lost.

### GameLobby, GameResults

Both games have a lobby singleton whose directory never forgets a room: a code of a
room that has stopped is answered for ever with a name that nobody resolves, although
goakt-scrabble's README promises returning players a fresh code. In scrabble a room
is also named after its language, so that after a failover, or with a generated code
of six letters (which is not checked against the directory), two rooms may share a
code. `GameResults` has the background tasks of `recordResults`, each of which may fail;
grains that load, record and save; and counters and index as CRDTs between nodes.
Pictograph does the same without bots.

### AgentQueries

`step[p]` cuts `handleSubmitQuery` where it waits. A registry entry may outlive its
agent (`Forget` comes later than `CrashPod`). `configured` are the pods on which `initLLMClient`
could make a client; elsewhere `completeWithLLM` returns a fixed text as a result ("canned"),
and no model is asked, although `doc.md` promises no mock or simulated responses. So
`outcomes` tells a result of a model from one of the calculator and from that text, a query
is said to be worked on and not to be put to a model, and `QueriesAnswered` excludes the text
only where every pod has a client. A request is worked on even if the one who
asked has given up, which is how a query is worked on twice. The two Asks have the same
60 seconds as the service's own, so a retry after a timeout answers nobody.

### ServiceLifecycle, AccountService

A program is a sequence of steps read off its `run.go`; a step that fails ends the
process as the code does (fatal exit or panic), a signal puts the stopping steps in
their order, and `server` is assigned by a goroutine, so that a signal right after
Start finds it nil. `AccountService` adds one account, its row per datacenter and
clients with one request at a time; an Ask that times out leaves its message, which is
handled later or never. Each example's `Receive`, service handlers and store are
operators of their own, since that is where the examples differ: how an error of the lookup
or of Ask is classified, whether a credit of an unknown account creates it, what
`created_at` becomes, what a row keeps of the balance. A call of the actor system ends with
one of three errors (`Errors`), of which a delivered Ask may meet two, and a handler is given
its classification (`connectError`, `LookupError`, `InternalError`, `SpawnError`,
`StaticError`, `GatewayError`), so that "not found" to a credit that timed out is excluded
by `isNotFound` and not by the shape of the model.

Peculiarities that the model shows and no property forbids:
goakt-2pc's CreditAccount is not handled by its account entity although `doc.md` lists
the endpoint; a row keeps cents only, so a told balance survives a restart to the cent;
the grain of grains-dnssd takes the unnamed account of an
empty query for its state, so that it is stored without a name and never found again, and
its balance is lost whenever the grain is passivated (hence the exception in
`ToldBalanceSurvives`);
the multi-datacenter gateway answers 404 to a credit that timed out and is applied later
(hence the exception of forwarded requests in `NotFoundNotCredited`); goakt-grains and
goakt-persistence disconnect their in-memory store before the actor system stops (hence the
exception in `StoreOutlivesSystem`, and their balances do not outlive the process).

### ChatRooms

A client is known by its address; the port is picked at random, so a later process may
have it again. `PostStart`, the keyboard and the signal are three goroutines, and
`/join` sleeps between its Disconnect and its Connect. `stray` holds the addresses the
code lets the server be wrong about: a Connect sent after the Disconnect it should have
come before, an input that ends without a Disconnect, a lost Tell, a kill. The server
keeps everything in memory, so its restart is the end of the system. Direct
messages, lists of users and notices change nothing.

## 3. Runs

| Run | Instance | Distinct states | Shows |
|---|---|---|---|
| `two_phase_commit` | 2 accounts, 2 transfers in any directions, 1 amount of half a cent, 1 failure | 306,324 | implementation of `AtomicTransfer`; undisturbed transfers are atomic; stored status goes forward; reports agree with the answer; coordinators end |
| `two_phase_overdraft` | the same, no failure | violation | two prepared debits overdraw an account |
| `saga` | 2 accounts, 2 transfers, amounts of half a cent, openings of a cent or in debt, credits of either sign, 1 failure | 580,156 | implementation of `CompensatedTransfer`; undisturbed transfers are settled; no overdraft but by clients; money conserved to half a cent for each rounding; reports agree with the answer; a confirmed debit ends |
| `saga_late_debit` | 1 transfer, 1 failure | violation | a failed transfer is debited afterwards |
| `blockchain` | 2 pods, 3 blocks, 1 transaction, 1 failure | 68,713 | chains valid and growing, replicas agree, transactions in one block, catch-ups end, the miner returns |
| `blockchain_fork` | 2 pods, 2 blocks, 1 failure | violation | two pods store different blocks at one index |
| `pictograph` | 2 players, 3 connections, 3 rounds | 710,985 | the drawer is seated, timers match the phase, reconnected players stay, games end |
| `pictograph_stale_timer` | the same, 2 rounds | violation | a round starts with one player |
| `scrabble` | 2 players, 3 connections, 1 bot, 3 tiles | 844,264 | the room fails only when its table changed, tiles are accounted for, empty rooms stop, games end |
| `services` | 15 programs, 2 clients, 2 datacenters; chat with 2 addresses, 2 processes, 2 rooms | 1,999,104 | told balances survive to the cent, stores outlive actor systems, a credit answered 404 is not applied; the chat server agrees with its clients, members hear everything once |
| `accounts_created_again` | the programs as above | violation | an account of goakt-saga that was told its balance is created again |
| `systems` | see below | 287,841 | the move generator misses nothing, a scrabble game keeps tiles and points, a tetris board is sound, a code means a room, results agree, queries are answered and end, matches end with their connection |

Bounds. `MaxFaults` counts all failures together; one failure at any step, followed by
any number of late messages, is what the error paths of the code are about, and
two transfers meet on a common account in every combination of directions. The
proofs hold for every value of these bounds. `MaxBlocks = 3`
lets a fork be followed by a block on either branch. `MaxMail = 1`
lets sessions, gateway and death watch send to the room only when its mailbox is
empty, and timers at any time; as a session may send as late as it likes, what is
lost are combinations of several queued messages of players. The invariants were
also checked once with `MaxMail = 2` (ten million states, too many for a regular
run). With two players a full room never refuses and a right guess always ends
the round; a third player multiplies the states by more than ten.

In the scrabble room three tiles with racks of one and `MaxPlayers = 2` are enough for
an empty bag, a full table with and without the bot, a late joiner without a rack and a
turn index past the end. The engine plays four moves on the real board with three
letters, seven words, six tiles of which one is a blank, and racks of two; all of that
happens within rows and columns 5 to 9, to which `Window` confines the reference definition.
Tetris has a board of five by four, the pieces I, O and T, and two cleared lines, so
that rows are cleared singly, in pairs and with rows above them. The lobbies have two
players, two languages, two short codes and a long one. Results are of two games, one
player and one bot on two nodes. The agents have two pods, of which none, one or
both have a key for a model, two queries, one kind and one fault. The one kind is the tool
agent, whose answers include those of the others.

In both transfer programs there are two units in a cent and transfers move one, so that a
row rounds what a transfer left of an odd balance. The accounts of the saga open with a cent
or half a cent in debt, and clients credit half a cent, or take it, where that leaves the
account empty (`MaxCredited = 0`).

The accounts of `services` open with a third of a cent and are credited a third each time, to at
most a cent (`MaxBalance = 3`, `Cent = 3`): a lost credit, a repeated one and a balance set back
are all visible, and rows round down, up and not at all. With one client of a
multi-datacenter program (`DCClients`) both datacenters are still reached. The chat has
`maxHistorySize = 1` with two messages, so that the cap is met, and one `/join`;
`MaxMail = 1` loses little, because no client reacts to what the server has handled.

`CHECK_DEADLOCK FALSE` wherever a system without further requests may stop: all transfers
have ended, all blocks are mined, a game's bound is reached. Only `services` checks for
deadlock: its programs restart for ever, and the chat may stutter once both processes are
gone. There are no symmetry sets, because nearly every passing run checks a liveness
property.

Type invariants are stated for the large modules and proved; only that of
`TwoPhaseCommit` is also an invariant of its run, since the other properties would fail to
evaluate outside the types.

Fairness. Weak fairness of an actor's own steps: a goakt dispatcher schedules every
actor whose mailbox is not empty, a coordinator's Ask has a timeout, a proof-of-work
ends, and a topic actor handles its mailbox. Nothing is assumed of clients,
restarts, failovers or failures. In the pictograph room only the room's mailbox and
the timers are fair: no player has to pick, guess or leave. In the scrabble room only the
turn and shutdown timers and the handling of their messages are fair, neither players
nor bots. Around a tetris match the sessions and the match handle their mail, and the
gateway's reader ends when the session has closed the connection. An orchestrator
goes on, and its Ask ends with an answer or with its timeout: one weak fairness per
pod. Nothing is assumed of the agents, of the registry or of recovery. The chat and
the account services have no liveness property.

Every property of a passing run has a mutant in `PROJECT.json`: an operator next to the
one it replaces, marked "Mutant" in its comment, under which the property fails.

### What the violations show

* `NoOverdraft` (2PC): the debit check reads the balance and not the other prepared
  debits, so two transfers prepared on one account both get a YES vote and both
  commit.
* `FailedDebitCommitsNothing` (saga): an Ask that times out is taken as "nothing
  has been committed", while the account may still handle the debit; no
  compensation follows.
* `NoForks` (blockchain): the node declares the miner ready when the announcement is
  sent, not when its replica has appended the block, so a second block can be
  mined on the same tip; a pod that misses the first announcement stores the second.
* `EnoughPlayers` (pictograph): a player leaves when the message of the gather timer
  is already behind the `GoodbyePlayer` in the mailbox. The timer is cancelled,
  the message is not, and the handler does not count the players.
* `ToldBalanceSurvives` (goakt-saga, likewise goakt-2pc): `created_at` is written by the
  first insert of a row and never updated. An account that is stopped before its
  CreateAccount is handled is stored as not created and stays so: after later restarts a repeated
  CreateAccount overwrites the balance that was reported.

## 4. Proofs

The theorems hold for every value of the constants that satisfies the named assumptions: any
accounts, transfers, pods, players, sessions and addresses, and any bound on failures. The
assumptions say of constants what the programs give: amounts of transfers are positive
(those of openings and credits of `TwoPhaseCommit` and `Saga` are any integers), a cent has
any number of units, limits are numbers, a session belongs to a player, `None` is nobody and
nothing else, a tetris board has rows and columns and its gravity lies between its limits.
Sums need finitely many accounts, transfers, players and nodes, and tables and mailboxes are
sequences; nothing else has to be finite.

A safety property is proved from an inductive invariant that was first checked with TLC.
Below, the invariant of each module, and why the property is not inductive by itself.

### TwoPhaseCommitProofs

`TypeCorrect`, `Invariance` (`IInv`), `Refinement` (`ImplementsAtomicTransfer`),
`StatusAgreement`, `StatusOnlyForward` (an action property), `UndisturbedAtomic`.

That a `Commit` handled late moves only money of a committed transfer depends on which
messages can be in a mailbox at each place of the handler, which depends on where the
handler has been. `IInv` is the conjunction of `TypeOK` and
`MessageInv` (a message is in the mailbox of the account it was meant for, the
handler is no earlier than where it sends it, and the money of a `Commit` in a mailbox has
not moved), `PreparedInv` (an account is prepared only for its own side of a transfer,
and has voted), `VoteInv` (each place of the handler knows the votes it has
passed), `MovedInv` (nothing moves before the decision, and the destination not
before its turn), `AnswerInv` and `RowInv` (the answer and the status column against
the place in the handler). Each has one lemma over the actions that disturb it, from
effect lemmas for the operators that the actions share. `RefineStep` maps
each action to a step of `AtomicTransfer` or to a stutter: entering phase 2 is
`Commit`, every way to "aborted" is `Abort`, a YES vote is `Vote`, a commit handled
by an account `Move`. The mapping is the identity but for `decision`, which is
computed from `pc`. `UndisturbedAtomic` adds `AtomicInv`: while neither an Ask failed nor
an account stopped, a YES vote is still backed by an entry of `prepared` when the Commit
arrives, and an acknowledged Commit has moved its side.

### SagaProofs

`TypeCorrect`, `OverdraftFree`, `Invariance`, `UndisturbedSettled`, `StatusAgreement`,
`Refinement` (`ImplementsCompensatedTransfer`), `MoneyAccounted`, `MoneyKept`.

`TransferInv` says of each transfer that a request under way has not taken effect and that
its orchestrator waits for it or has given up on it (`PendingOK`), which effects each place
of the handler knows (`EffectOK`), what is certain as long as no Ask failed
(`UndisturbedOK`), and what may be stored and answered (`RowOK`, `AnswerOK`).
`StatusAgreement` follows from these two for every report that GET /transfers can be given.
`OverdraftFree` rests on `BalanceInv`: the memory and the row of an account that is not
`charged` are never below zero, which rounding keeps. `MoneyConserved` speaks only of moments when no transfer is under way, so it needs
`MoneyInv`, which holds at every step, failures included: the sum of all holdings and of
what the transfers have taken and not yet given is what clients have put in. A step changes
one holding and the open amount of one transfer by opposite numbers, or one holding and
`deposited` by the same. Where a row rounds, the difference is within half a cent for each
time it did (`NumericNear`), and none where the balance is a number of cents.

`SumTheorems` has the laws that this takes. The library defines a sum by
recursion over the subsets of a set, and the provers cannot use its induction
theorems, which have an operator as a parameter; but they can use that a non-empty set of
numbers has a least element. So the existence of the sum, its independence of the order
and its change with one summand are proved from the least size of a set that
violates them.

### BlockchainProofs

`TypeCorrect`, `ChainsStayValid`, `StoresOnlyGrow` (an action property), `StoresLoad`,
`TransactionsMinedOnce`, `QuietAgreement`.

Validity rests on what `Append` checks of a block against the tip (`Appendable`), at every
place where a write may fail or a pod may crash. `TransactionsOnce` needs that what is
pending or in a block has been submitted. `QuietReplicasAgree` needs `QuietInv`: without
failures the predecessor of every block, even of one mined on a tip that already has a
successor, is the first block made of its index; chains hold only first blocks; and inbox
and topic hold, in the order of minting, exactly the announcements that a replica has not
handled.

### PictographRoomProofs, ScrabbleRoomProofs

`TypeCorrect`, `Invariance`, `DrawerSeated`, `TimersBelongToPhase`, `ConnectedKeepSeat`;
and `TypeCorrect`, `Invariance`, `NeverFails`, `TilesKept`, `EmptyRoomsStop`.

For pictograph, `IInv` adds what the handlers rely on without checking it: a stopped room
has neither messages nor timers, a drawing phase has time left, and a `GoodbyePlayer` or
`Terminated` in the mailbox is about a connection that has really ended, which is what
keeps a player who came back in the seat. For scrabble, the properties need each
other: that a rack can be refilled rests on the account of the tiles, and that the account
is exact on every seat having a rack, which holds until somebody joins or leaves. A bot at
the table is alive, and a room that does not run has no timer set or due.

### ServicesProofs

`Invariance`, `NestedLifetimes`, `NotFoundMeansNotCredited`, `ToldBalancesKept`, for the
fifteen programs at once; and for the chat, over `MCSpec` of `MCServices`, whose rooms and
processes are constants, `ChatInvariance`, `ServerAgreement`, `MembersHearAll`.

`ScriptOK` says where a process stands in its start or stop, and that in what is left of
a script the store comes before the actor system when starting and after it when
stopping. `ToldOK` says that a balance that was told is in the actor or in its row, and that
the account counts as created wherever a repeated CreateAccount could set it back: this is
what goakt-2pc and goakt-saga lack. `ClientOK` says of a request that
still waits that, unless the gateway forwarded it, a failing Ask will not answer it "not
found": of the errors that a delivered message can end with `isNotFound` accepts none.
That a told balance survives the rounding of `PostStop` is that rounding twice is rounding once
(`NumericTwice`) and keeps the order (`NumericMonotone`).

`ServerAgrees` is about addresses whose messages are all handled; the invariant must be
about those with messages under way. `Off` and `On` say what the server will have of an
address once it has handled its mailbox: off after the last Disconnect, or on as the first
Connect after it says, since the server ignores a Connect of an address it knows. The
invariant relates that to the three goroutines of the client: lemmas say what one more
letter changes, and what handling the first one does not.

`MembersHear` says that what a client was shown is a selection of what was said in its
room: all that is at certain places, in order (`IsSelection`). `HearInv` adds that the
history of each room is the end of what was said there (`IsHistory`), which is what a new
member is shown; that appending and cutting keeps it so is the lemma `HistoryGrows`, and
that one more message extends a selection, or leaves it alone for the one who spoke,
`SelectionMore`.

### SystemsProofs

The systems of `Systems` do not interact, so each theorem is about the specification of
one of them.

*Lobbies*: `ScrabbleCodes`, `PictographCodes`. `LobbyInv` says that a room that a player
was told of or sits in is named after the player's code, and is the one the directory has
for it, unless the code is a long one or the directory was lost. In pictograph, where
rooms have no language, the name alone settles it: the theorem adds `OneRoomPerCode`,
which holds without these exceptions.

*Agents*: `AnswersOfAgents`. `AgentsInv` follows a query from its submission to its
answer. It is in one place (`Placed`): with nobody, in a mailbox, or in the hands of its
pod's orchestrator, and then `StageOf` says for each step of `handleSubmitQuery` whether
a request may be under way and how often the query can have been worked on. That it is
never worked on more than twice needs `RequestsCounted`: a query has at most two requests,
one of them a retry, all for one agent. `NoCanned` is a second invariant: while every pod has a
client, nothing that came of a query is the fixed text, since an agent that answers is on a pod.

*Results*: `ResultsOfGames`. What was played is what profiles and leaderboards show and
what the tasks under way will add (`ProfilesExact`, `WinsCounted`), with `<=` instead of
`=` when a step failed. A node adds only to its own entry of a counter and knows it best
(`OwnCountsLead`), so a merge by maximum loses nothing, and what a node shows is at most
the sum of what all nodes know of themselves. `SumOrder` of `SumTheorems` compares sums.

*Tetris*: `BoardOfGame`, and `FourLinesAtMost`, an action property: no step completes
more than four rows, so `scoreFor[cleared]` exists. `TetrisInv` is `BoardSound` with types. The
arguments are in lemmas about the operators: every piece in every position has four cells
(`Turns`), a hard drop ends where the piece can be (`LandingPlaced`), and `clearLines`
leaves no full row (`ClearedSound`): a row moves down by the number of full rows under it,
rows that are not full keep their order and never meet (`RowsInOrder`), so a row that is
full afterwards was full before.

### Only model-checked

* Liveness, which is out of the prover's reach: `CoordinatorEnds`, `ConfirmedDebitEnds`,
  `CatchUpEnds`, `MinerReturns`, `GameEnds`, `GameOverEnds`, `MatchEndsWithConnection`,
  `EveryQueryEnds`.
* `GeneratesEveryMove` and `GameKept`: the engine's operators are `RECURSIVE`, and what
  they compute is induction over data.

All other properties of the passing runs are stated by a theorem.

## 5. Not modelled

`PROJECT.json` gives every part its status. Left out for good: the goakt library, the
HTTP clients of language models, generated protobuf code, the browser clients, deployment
files, `goakt-stream`, `goakt-behaviors` and the one-exchange examples, whose behaviour is
the library's; `goakt-iot-twin` drives one grain through a script. Of the rooms, what is
published, drawn or said is left out, and in the pictograph room scores and words.

Some effects are visible in the models and no property promises anything of them:
transactions that are pending in the broker are lost with a failover after the client
was told a block index; a restart asked for by a player who has left cancels the shutdown
timer of an empty pictograph room; guesses stashed in a round that is aborted are
replayed in a later one; `CreateAccount` on an account that a transfer has spawned
overwrites its balance; the profile store in memory is one per node, so that a grain that
moves starts from nothing.

## 6. Plan

The plan of the project is carried out: the programs with logic of their own are modelled
and checked, and each safety property outside the scrabble engine is proved. What could
follow, in this order:

1. The engine's bag, racks and turns apart from its words, without `RECURSIVE` operators,
   to prove the account of the tiles in `GameKept` for any language; `ScrabbleRoom` has it
   for the numbers of tiles.
2. Liveness, with a prover that has fairness and well-founded orders.
3. The parts of the rooms that are left out: scores and words in pictograph, and the
   registry of scrabble if it becomes mutable.
