---------------------------- MODULE ScrabbleRoom ----------------------------
(***************************************************************************)
(* goakt-scrabble: one RoomActor, its BotActors, the PlayerSessionActors   *)
(* of its players, and the gateway that opens and closes their WebSockets. *)
(*                                                                         *)
(* An action of the room handles one message.  Messages of one sender      *)
(* arrive in order, those of sessions, bots, the gateway, the timers and   *)
(* the death watch in any order, so an input may arrive after the gateway  *)
(* has said goodbye.  Cancelling a timer does not take back a message that *)
(* has been sent.                                                          *)
(*                                                                         *)
(* Tiles are counted, not told apart: whether a placement is valid is      *)
(* open (module ScrabbleEngine is about that), and so is how many tiles it *)
(* lays.  Scores, chat and what is published on the topic are left out.    *)
(***************************************************************************)
EXTENDS Integers, Sequences, FiniteSets, FiniteSetsExt, Functions, SequencesExt

CONSTANTS
  Players,     \* player ids
  Bots,        \* the ids addBot makes up, each used once
  Sessions,    \* session names: one per WebSocket connection
  Owner,       \* Owner[s]: the player that connects with s
  None,        \* no player, no session, a nil rack
  MinPlayers, MaxPlayers,
  Tiles,       \* Language.TotalTiles
  RackSize,
  ScorelessTurnsToEnd,
  MaxThinking  \* bound: turns a bot was told of that the room has no answer to

ASSUME RoomAssumption ==
  /\ Players \cap Bots = {}
  /\ None \notin Players \cup Bots \cup Sessions \cup Nat
  /\ Owner \in [Sessions -> Players]
  /\ {MinPlayers, MaxPlayers, Tiles, RackSize, ScorelessTurnsToEnd} \subseteq Nat \ {0}
  /\ MaxThinking \in Nat \ {0}

VARIABLES
  \* RoomActor
  phase,       \* the current behaviour; "stopped"; "failed" after a panic
  players,     \* the seats in turn order; rack is a number of tiles
  ownerID,
  bag, board,  \* tiles in the bag and on the board
  currentIdx,  \* counts from 0
  scorelessTurns,
  armed,       \* the timers that are running: "turn", "shutdown", bot moves
  due,         \* the timers whose message has been sent and not handled
  \* BotActor
  bot,         \* bot[b]: "none", "alive", "stopping" or "dead"
  thinking,    \* thinking[b]: YourTurn messages sent to b whose BotPlay the
               \* room has not handled
  \* PlayerSessionActor and gateway, as far as the room has heard
  session,     \* session[s]: "new" before its PlayerHello, "joined" before its
               \* Terminated, or "dead"
  socket,      \* socket[s]: "open" before its GoodbyePlayer, or "closed"
  \* bookkeeping
  disturbed,   \* a seat was taken or left during this game
  revived      \* a new game was asked for when nobody was at the table

gameVars == <<players, ownerID, bag, board, currentIdx, scorelessTurns>>
roomVars == <<phase, gameVars, armed, due, disturbed, revived>>
botVars == <<bot, thinking>>
sessionVars == <<session, socket>>
vars == <<roomVars, botVars, sessionVars>>

\* A seat of the table: whose it is, through which session, and the rack.
Seats == [id : Players \cup Bots, session : Sessions \cup {None},
          rack : (0 .. RackSize) \cup {None}]

\* The kinds of values each variable holds.  Nobody sits at the table twice, and
\* never more than MaxPlayers do.
TypeOK ==
  /\ phase \in {"waiting", "playing", "paused", "gameOver", "stopped", "failed"}
  /\ players \in Seq(Seats)
  /\ Len(players) <= MaxPlayers
  /\ \A i, j \in 1 .. Len(players) : players[i].id = players[j].id => i = j
  /\ ownerID \in Players \cup {None}
  /\ bag \in 0 .. Tiles /\ board \in 0 .. Tiles
  /\ currentIdx \in Nat /\ scorelessTurns \in 0 .. ScorelessTurnsToEnd
  /\ armed \subseteq {"turn", "shutdown"} \cup Bots
  /\ due \subseteq {"turn", "shutdown"}
  /\ bot \in [Bots -> {"none", "alive", "stopping", "dead"}]
  /\ thinking \in [Bots -> 0 .. MaxThinking]
  /\ session \in [Sessions -> {"new", "joined", "dead"}]
  /\ socket \in [Sessions -> {"open", "closed"}]
  /\ disturbed \in BOOLEAN /\ revived \in BOOLEAN

\* PostStart: a room nobody has joined.
Init ==
  /\ phase = "waiting"
  /\ players = <<>> /\ ownerID = None
  /\ bag = 0 /\ board = 0 /\ currentIdx = 0 /\ scorelessTurns = 0
  /\ armed = {} /\ due = {}
  /\ bot = [b \in Bots |-> "none"]
  /\ thinking = [b \in Bots |-> 0]
  /\ session = [s \in Sessions |-> "new"]
  /\ socket = [s \in Sessions |-> "open"]
  /\ disturbed = FALSE /\ revived = FALSE

-----------------------------------------------------------------------------
(* The table *)

\* currentPlayer, which is nil when the index is past the last seat.
HasCurrent == currentIdx < Len(players)
current == players[currentIdx + 1]

\* playerByID
Seated(p) == \E i \in 1 .. Len(players) : players[i].id = p

Humans(seats) == {i \in 1 .. Len(seats) : seats[i].id \in Players}

\* Mutant: bots keep the room open.
MaybeShutdownCountsBots(seats) == ownerID # None /\ seats = <<>>

\* maybeShutdown; hadPlayer is set with the owner.
MaybeShutdown(seats) == ownerID # None /\ Humans(seats) = {}

Running == phase \notin {"stopped", "failed"}

\* ctx.Shutdown, PostStop: all timers are cancelled, the mailbox is gone.
Ends(as) ==
  /\ phase' = as
  /\ armed' = {}
  /\ due' = {}

\* A nil dereference: the supervisor stops the room.
Panics ==
  /\ Ends("failed")
  /\ UNCHANGED <<gameVars, disturbed, revived>>

-----------------------------------------------------------------------------
(* Turns *)

\* A bot whose turn begins is told so after a delay.
BotMove(seats, idx) ==
  IF idx < Len(seats) THEN {seats[idx + 1].id} \cap Bots ELSE {}

\* Mutant: only the first turn is timed.
BeginTurnUntimed(seats, idx, timers) ==
  /\ currentIdx' = idx
  /\ armed' = timers \cup BotMove(seats, idx) \cup (IF phase = "playing" THEN {} ELSE {"turn"})

\* beginTurn, scheduleBotMove
BeginTurn(seats, idx, timers) ==
  /\ currentIdx' = idx
  /\ armed' = timers \cup {"turn"} \cup BotMove(seats, idx)

\* A full bag, an empty board, and a rack for every seat.
StartGame ==
  LET dealt(n) == Min({Tiles, n * RackSize})
  IN /\ players' = [i \in 1 .. Len(players) |->
                      [players[i] EXCEPT !.rack = dealt(i) - dealt(i - 1)]]
     /\ bag' = Tiles - dealt(Len(players))
     /\ board' = 0
     /\ scorelessTurns' = 0
     /\ phase' = "playing"
     /\ BeginTurn(players, 0, armed \ {"shutdown"})
     /\ disturbed' = FALSE

\* enterGameOver; recordResults works outside the room.
EnterGameOver ==
  /\ phase' = "gameOver"
  /\ armed' = (armed \ {"turn"}) \cup {"shutdown"}
  /\ UNCHANGED currentIdx

\* checkGameOver and advanceTurn, after laid tiles went to the board and the
\* racks, the bag and the count have become those given, with pending timer
\* messages.  FirstEmptyRack and FinalScores read every rack, and panic on a nil
\* one.
EndTurn(seats, left, laid, scoreless, pending) ==
  LET racks == {seats[i].rack : i \in 1 .. Len(seats)}
      cutOff == scoreless >= ScorelessTurnsToEnd
  IN IF None \in racks /\ (cutOff \/ left = 0)
     THEN Panics
     ELSE /\ players' = seats
          /\ bag' = left
          /\ board' = board + laid
          /\ scorelessTurns' = scoreless
          /\ IF cutOff \/ (left = 0 /\ 0 \in racks)
             THEN EnterGameOver
             ELSE /\ BeginTurn(seats, (currentIdx + 1) % Len(seats), armed \ {"turn"})
                  /\ UNCHANGED phase
          /\ due' = pending
          /\ UNCHANGED <<ownerID, disturbed, revived>>

\* applyPass
ApplyPass(pending) == EndTurn(players, bag, 0, scorelessTurns + 1, pending)

\* Mutant: the tiles that are laid stay on the rack.
ApplyPlaceKeepsTiles ==
  /\ current.rack # None
  /\ \E laid \in 1 .. current.rack : EndTurn(players, bag, laid, 0, due)

\* applyPlace of a move that is valid: some tiles leave the rack, which is
\* refilled from the bag.
ApplyPlace ==
  IF current.rack = None
  THEN Panics
  ELSE \E laid \in 1 .. current.rack :
         LET drawn == Min({RackSize - (current.rack - laid), bag})
         IN EndTurn([players EXCEPT ![currentIdx + 1].rack = @ - laid + drawn],
                    bag - drawn, laid, 0, due)

\* applyExchange: the bag gives as many tiles as it gets.
ApplyExchange ==
  /\ bag >= RackSize
  /\ IF current.rack = None THEN Panics ELSE ApplyPass(due)

-----------------------------------------------------------------------------
(* Players come and go *)

\* addPlayer: a new session in the seat, or a seat at the end of the table.  The
\* first player ever owns the room.  The seat of a late joiner has no rack.
TakeSeat(s) ==
  IF Seated(Owner[s])
  THEN /\ players' = [i \in 1 .. Len(players) |->
                        IF players[i].id = Owner[s]
                        THEN [players[i] EXCEPT !.session = s] ELSE players[i]]
       /\ UNCHANGED <<ownerID, disturbed>>
  ELSE /\ players' = Append(players, [id |-> Owner[s], session |-> s, rack |-> None])
       /\ ownerID' = IF ownerID = None THEN Owner[s] ELSE ownerID
       /\ disturbed' = (disturbed \/ phase \in {"playing", "paused"})

\* wsHandler has found the room and spawned a session, and the session says
\* hello.  A full table refuses.
PlayerHello(s) ==
  /\ Running
  /\ session[s] = "new"
  /\ session' = [session EXCEPT ![s] = "joined"]
  /\ IF Seated(Owner[s]) \/ Len(players) < MaxPlayers
     THEN TakeSeat(s)
     ELSE UNCHANGED <<players, ownerID, disturbed>>
  /\ UNCHANGED <<phase, bag, board, currentIdx, scorelessTurns, armed, due, revived,
                 botVars, socket>>

\* The table without the seat of this index, which nobody may have.
Without(found) ==
  IF found = {} THEN {players} ELSE {RemoveAt(players, i) : i \in found}

\* removePlayerByName, removePlayerByPath: the seat of a session goes, with the
\* tiles of its rack, and the turn stays with the index.  A bot has no session.
RemovePlayer(s) ==
  \E seats \in Without({i \in 1 .. Len(players) : players[i].session = s}) :
    /\ Running
    /\ players' = seats
    /\ disturbed' = (disturbed \/ (phase \in {"playing", "paused"} /\ seats # players))
    /\ IF phase # "gameOver" /\ MaybeShutdown(seats)
       THEN Ends("stopped")
       ELSE UNCHANGED <<phase, armed, due>>
    /\ UNCHANGED <<ownerID, bag, board, currentIdx, scorelessTurns, revived>>

\* The reader loop of the gateway has ended, before or after the session said
\* hello.
GoodbyePlayer(s) ==
  /\ socket[s] = "open"
  /\ socket' = [socket EXCEPT ![s] = "closed"]
  /\ RemovePlayer(s)
  /\ UNCHANGED <<session, botVars>>

\* The session has handled closed, or could not write to its socket.  The room
\* may never hear of a session that had ended when it began to watch it.
Terminated(s) ==
  /\ session[s] = "joined"
  /\ session' = [session EXCEPT ![s] = "dead"]
  /\ RemovePlayer(s)
  /\ UNCHANGED <<socket, botVars>>

\* A bot that was taken off the table has stopped.
BotTerminated(b) ==
  /\ bot[b] = "stopping"
  /\ bot' = [bot EXCEPT ![b] = "dead"]
  /\ RemovePlayer(b)
  /\ UNCHANGED <<thinking, sessionVars>>

-----------------------------------------------------------------------------
(* The waiting room: the owner's inputs *)

\* An input of player p.  Its session forwards what the client sent, even after
\* the socket was closed.
Input(p) == Running /\ \E s \in Sessions : Owner[s] = p /\ session[s] = "joined"

OwnerAsks == phase = "waiting" /\ ownerID # None /\ Input(ownerID)

Start ==
  /\ OwnerAsks
  /\ Len(players) >= MinPlayers
  /\ StartGame
  /\ UNCHANGED <<ownerID, due, revived, botVars, sessionVars>>

AddBot(b) ==
  /\ OwnerAsks
  /\ Len(players) < MaxPlayers
  /\ bot[b] = "none"
  /\ bot' = [bot EXCEPT ![b] = "alive"]
  /\ players' = Append(players, [id |-> b, session |-> None, rack |-> None])
  /\ UNCHANGED <<phase, ownerID, bag, board, currentIdx, scorelessTurns, armed, due,
                 disturbed, revived, thinking, sessionVars>>

RemoveBot(b) ==
  /\ OwnerAsks
  /\ Seated(b)
  /\ bot' = [bot EXCEPT ![b] = "stopping"]
  /\ players' \in Without({i \in 1 .. Len(players) : players[i].id = b})
  /\ UNCHANGED <<phase, ownerID, bag, board, currentIdx, scorelessTurns, armed, due,
                 disturbed, revived, thinking, sessionVars>>

-----------------------------------------------------------------------------
(* The game *)

\* Whose turn it is lays tiles, exchanges some or passes.
PlayTurn ==
  /\ phase = "playing"
  /\ HasCurrent /\ current.id \in Players /\ Input(current.id)
  /\ ApplyPlace \/ ApplyExchange \/ ApplyPass(due)
  /\ UNCHANGED <<botVars, sessionVars>>

\* The answer of a bot is dropped when the turn is another's or the game is
\* paused or over, and refused when the board or the rack it was worked out for
\* have changed.
HandleBotPlay(b) ==
  \/ /\ phase = "playing"
     /\ HasCurrent /\ current.id = b
     /\ ApplyPass(due) \/ ApplyPlace
  \/ UNCHANGED roomVars

\* handleTurn: a bot that was told of its turn answers, with a pass at worst.
BotPlay(b) ==
  /\ Running
  /\ thinking[b] > 0 /\ bot[b] # "dead"
  /\ thinking' = [thinking EXCEPT ![b] = @ - 1]
  /\ HandleBotPlay(b)
  /\ UNCHANGED <<bot, sessionVars>>

\* Any player stops the clock and the move of the bot whose turn it is.
PauseGame ==
  /\ phase = "playing"
  /\ \E p \in Players : Input(p)
  /\ phase' = "paused"
  /\ armed' = armed \ ({"turn"} \cup BotMove(players, currentIdx))
  /\ UNCHANGED <<gameVars, due, disturbed, revived, botVars, sessionVars>>

ResumeGame ==
  /\ phase = "paused"
  /\ \E p \in Players : Input(p)
  /\ phase' = "playing"
  /\ armed' = armed \cup {"turn"} \cup BotMove(players, currentIdx)
  /\ UNCHANGED <<gameVars, due, disturbed, revived, botVars, sessionVars>>

\* Mutant: a new game begins at a table with too few players.
RestartGameUnchecked ==
  /\ phase = "gameOver"
  /\ \E p \in Players : Input(p)
  /\ StartGame
  /\ revived' = (Humans(players) = {})
  /\ UNCHANGED <<ownerID, due, botVars, sessionVars>>

\* restartGame: whoever asks, the room no longer stops; a new game begins with
\* those who are seated, or the room waits for more.
RestartGame ==
  /\ phase = "gameOver"
  /\ \E p \in Players : Input(p)
  /\ IF Len(players) < MinPlayers
     THEN /\ phase' = "waiting"
          /\ armed' = armed \ {"shutdown"}
          /\ UNCHANGED <<players, bag, board, currentIdx, scorelessTurns, disturbed>>
     ELSE StartGame
  /\ revived' = (Humans(players) = {})
  /\ UNCHANGED <<ownerID, due, botVars, sessionVars>>

-----------------------------------------------------------------------------
(* Timers *)

\* A timer of the room fires.
Fire(timer) ==
  /\ timer \in armed \ due
  /\ armed' = armed \ {timer}
  /\ due' = due \cup {timer}
  /\ UNCHANGED <<phase, gameVars, disturbed, revived, botVars, sessionVars>>

\* A bot has thought long enough: YourTurn is sent to it.
FireBotMove(b) ==
  /\ b \in armed
  /\ thinking[b] < MaxThinking
  /\ armed' = armed \ {b}
  /\ thinking' = [thinking EXCEPT ![b] = @ + 1]
  /\ UNCHANGED <<phase, gameVars, due, disturbed, revived, bot, sessionVars>>

\* turnTimeout: the turn is passed, whoever's turn it is by now.
TurnTimeout ==
  /\ "turn" \in due
  /\ IF phase = "playing"
     THEN IF HasCurrent THEN ApplyPass(due \ {"turn"}) ELSE Panics
     ELSE due' = due \ {"turn"} /\ UNCHANGED <<phase, gameVars, armed, disturbed, revived>>
  /\ UNCHANGED <<botVars, sessionVars>>

ShutdownRoom ==
  /\ "shutdown" \in due
  /\ IF phase = "gameOver"
     THEN Ends("stopped")
     ELSE due' = due \ {"shutdown"} /\ UNCHANGED <<phase, armed>>
  /\ UNCHANGED <<gameVars, disturbed, revived, botVars, sessionVars>>

-----------------------------------------------------------------------------
\* What sessions and the gateway do after the room has stopped is left out.
Next ==
  \/ Start \/ PlayTurn \/ PauseGame \/ ResumeGame \/ RestartGame
  \/ TurnTimeout \/ ShutdownRoom
  \/ \E timer \in {"turn", "shutdown"} : Fire(timer)
  \/ \E b \in Bots :
       AddBot(b) \/ RemoveBot(b) \/ FireBotMove(b) \/ BotPlay(b) \/ BotTerminated(b)
  \/ \E s \in Sessions :
       PlayerHello(s) \/ GoodbyePlayer(s) \/ Terminated(s)

\* Timers fire, and the room handles their messages.
Fairness ==
  /\ \A timer \in {"turn", "shutdown"} : WF_vars(Fire(timer))
  /\ WF_vars(TurnTimeout) /\ WF_vars(ShutdownRoom)

Spec == Init /\ [][Next]_vars /\ Fairness

-----------------------------------------------------------------------------
(* Properties *)

\* The room panics only in a game that somebody joined or left: while the table
\* stays as it was when the game began, the turn is always a seated player's and
\* every seat has a rack, through passes, timeouts, pauses, late bot moves and
\* new games (currentPlayer, FinalScores).
UndisturbedNeverFails == phase = "failed" => disturbed

\* No tile is ever made: bag, board and racks hold at most the tiles of the
\* language, and exactly those as long as nobody joined or left (Refill,
\* Exchange, applyPlace).  A leaver's rack does not go back to the bag.
TilesAccounted ==
  LET racks == [i \in 1 .. Len(players) |->
                  IF players[i].rack = None THEN 0 ELSE players[i].rack]
      inPlay == bag + board + SumFunction(racks)
  IN phase \in {"playing", "paused"} =>
       inPlay <= Tiles /\ (~disturbed => inPlay = Tiles)

\* When the last human has left, the room stops, whether it waited, played or
\* was paused and whatever bots are at the table (maybeShutdown).  Two ways
\* around that exist: after a game only the timer stops the room, and a new game
\* asked for by a player who is gone cancels that timer.
EmptyRoomStops ==
  phase \in {"waiting", "playing", "paused"} /\ ownerID # None /\ Humans(players) = {}
    => revived

\* Every turn is timed: whatever players and bots do or stop doing, a game is
\* over, paused or lost at last (beginTurn, resumeGame, ScorelessTurnsToEnd).
GameEnds == phase = "playing" ~> phase # "playing"
=============================================================================
