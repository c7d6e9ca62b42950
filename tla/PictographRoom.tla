--------------------------- MODULE PictographRoom ---------------------------
(***************************************************************************)
(* goakt-pictograph: one RoomActor, the PlayerSessionActors of its         *)
(* players, and the gateway that opens and closes their WebSockets.        *)
(*                                                                         *)
(* The room's mailbox is a queue.  Sessions, the gateway, the timers and   *)
(* the death watch all send to it, so a GoodbyePlayer of the gateway may   *)
(* overtake what the session of the same player sends.  Cancelling a timer *)
(* does not take back a message that is already in the mailbox.            *)
(*                                                                         *)
(* Of the players the room keeps who is seated, through which session, who *)
(* has drawn and who has guessed.  Seats are not ordered: any player who   *)
(* has not drawn may be the next drawer.  Words, strokes, scores and what  *)
(* is published on the topic are left out; whether a guess is right is     *)
(* open.                                                                   *)
(***************************************************************************)
EXTENDS Integers, Sequences, FiniteSets

CONSTANTS
  Players,     \* player ids
  Sessions,    \* session names: one per WebSocket connection
  Owner,       \* Owner[s]: the player that connects with s
  None,        \* no player, no session
  MinPlayers, MaxPlayers,
  MaxRounds,   \* DefaultRounds
  DrawSeconds, \* ticks of the drawing phase
  MaxMail      \* bound: sessions and gateway send while the mailbox is
               \* shorter than this

ASSUME OwnerAssumption == Owner \in [Sessions -> Players]
ASSUME NoneAssumption == None \notin Players \cup Sessions
ASSUME LimitsAssumption ==
  /\ MinPlayers \in Nat \ {0} /\ MaxPlayers \in Nat /\ MaxMail \in Nat
  /\ MaxRounds \in Nat \ {0} /\ DrawSeconds \in Nat \ {0}

VARIABLES
  \* RoomActor
  phase,      \* the current behaviour, or "stopped"
  via,        \* via[p]: the session of a player of r.players, None for others
  drawn,      \* the seated players whose hasDrawn is set
  round,
  drawer,     \* drawerID
  guessed,
  timeLeft,   \* seconds left of the drawing phase
  hadPlayer,
  stash,      \* the players of the stashed guesses
  armed,      \* the timers that are running
  mailbox,
  watched,    \* the sessions whose end the room will hear of
  \* PlayerSessionActor and gateway
  session,    \* session[s]: "none", "starting", "joined" or "dead"
  socket,     \* socket[s]: "none", "open" or "closed"
  \* bookkeeping
  latest      \* latest[p]: the session p was last admitted with (history)

gameVars == <<via, drawn, round, drawer, guessed, timeLeft, hadPlayer, latest>>
roomVars == <<phase, gameVars, stash, armed, mailbox, watched>>
sessionVars == <<session, socket>>
vars == <<roomVars, sessionVars>>

Phases == {"waiting", "choosing", "drawing", "roundOver", "gameOver", "stopped"}
Timers == {"startgame", "choose", "countdown", "roundend", "shutdown"}
InputTypes == {"pickWord", "guess", "restart"}
Messages ==
  [type : {"PlayerHello", "GoodbyePlayer", "Terminated"}, session : Sessions]
    \cup [type : {"PlayerInput"}, input : InputTypes, player : Players]
    \cup [type : {"nextRound", "autoPickFirst", "tickCountdown", "shutdownRoom"}]

\* The ids of r.players.
seated == {p \in Players : via[p] # None}

\* The message a timer sends.
Tells(timer) ==
  CASE timer \in {"startgame", "roundend"} -> [type |-> "nextRound"]
    [] timer = "choose" -> [type |-> "autoPickFirst"]
    [] timer = "countdown" -> [type |-> "tickCountdown"]
    [] timer = "shutdown" -> [type |-> "shutdownRoom"]

\* The kinds of values each variable holds.
TypeOK ==
  /\ phase \in Phases
  /\ via \in [Players -> Sessions \cup {None}]
  /\ drawn \subseteq seated
  /\ round \in Nat
  /\ drawer \in Players \cup {None}
  /\ guessed \subseteq Players
  /\ timeLeft \in 0 .. DrawSeconds
  /\ hadPlayer \in BOOLEAN
  /\ stash \in Seq(Players)
  /\ armed \subseteq Timers
  /\ mailbox \in Seq(Messages)
  /\ watched \subseteq Sessions
  /\ session \in [Sessions -> {"none", "starting", "joined", "dead"}]
  /\ socket \in [Sessions -> {"none", "open", "closed"}]
  /\ latest \in [Players -> Sessions \cup {None}]

\* PostStart: a room nobody has joined.
Init ==
  /\ phase = "waiting"
  /\ via = [p \in Players |-> None]
  /\ drawn = {}
  /\ round = 0
  /\ drawer = None
  /\ guessed = {}
  /\ timeLeft = 0
  /\ hadPlayer = FALSE
  /\ stash = <<>>
  /\ armed = {}
  /\ mailbox = <<>>
  /\ watched = {}
  /\ session = [s \in Sessions |-> "none"]
  /\ socket = [s \in Sessions |-> "none"]
  /\ latest = [p \in Players |-> None]

-----------------------------------------------------------------------------
\* The message that is handled, and the mailbox behind it.
msg == Head(mailbox)
rest == Tail(mailbox)
Takes(types) == mailbox # <<>> /\ msg.type \in types

(* The ways into each phase *)

\* Mutant: the pause after a round is not timed.
EnterRoundOverUntimed ==
  /\ phase' = "roundOver"
  /\ armed' = armed \ {"countdown", "choose"}

EnterRoundOver ==
  /\ phase' = "roundOver"
  /\ armed' = (armed \ {"countdown", "choose"}) \cup {"roundend"}

\* Mutant: nothing stops the room after the game.
EnterGameOverUntimed(timers) ==
  /\ phase' = "gameOver"
  /\ armed' = timers \ {"countdown", "roundend"}

\* recordResults works outside the room and changes nothing in it.
EnterGameOver(timers) ==
  /\ phase' = "gameOver"
  /\ armed' = (timers \ {"countdown", "roundend"}) \cup {"shutdown"}

\* pickNextDrawer, where has are the players who have drawn.
PickNextDrawer(has) ==
  LET fresh == seated \ has
  IN \/ /\ seated = {}
        /\ drawer' = None
        /\ drawn' = has
     \/ \E p \in fresh :
          /\ drawer' = p
          /\ drawn' = has \cup {p}
     \/ /\ fresh = {}
        /\ \E p \in seated :
             /\ drawer' = p
             /\ drawn' = {p}

\* Round r + 1 begins, or the game is over.
EnterChoosing(r) ==
  /\ round' = r + 1
  /\ \/ /\ r + 1 > MaxRounds
        /\ EnterGameOver(armed \ {"startgame"})
        /\ UNCHANGED <<drawn, drawer, guessed, timeLeft>>
     \/ /\ r + 1 <= MaxRounds
        /\ phase' = "choosing"
        /\ PickNextDrawer(drawn)
        /\ guessed' = {}
        /\ timeLeft' = 0
        /\ armed' = (armed \ {"startgame"}) \cup {"choose"}

\* The stashed guesses go back to the mailbox, before or behind the rest of it.
UnstashAll ==
  LET guesses == [i \in 1 .. Len(stash) |->
        [type |-> "PlayerInput", input |-> "guess", player |-> stash[i]]]
  IN /\ mailbox' \in {guesses \o rest, rest \o guesses}
     /\ stash' = <<>>

EnterDrawing(timers) ==
  /\ phase' = "drawing"
  /\ timeLeft' = DrawSeconds
  /\ armed' = timers \cup {"countdown"}
  /\ UnstashAll
  /\ UNCHANGED <<via, drawn, round, drawer, guessed, hadPlayer, latest, watched,
                 sessionVars>>

-----------------------------------------------------------------------------
(* The messages *)

\* ctx.Watch: the end of a session that is dead already is reported at once, or
\* never.
Watch(s) ==
  \/ /\ session[s] # "dead"
     /\ watched' = watched \cup {s}
     /\ mailbox' = rest
  \/ /\ session[s] = "dead"
     /\ mailbox' \in {rest, Append(rest, [type |-> "Terminated", session |-> s])}
     /\ UNCHANGED watched

\* Mutant: a returning player keeps the old session.
AddPlayerKeepsSession(s) ==
  /\ via' = [via EXCEPT ![Owner[s]] = IF @ = None THEN s ELSE @]
  /\ latest' = [latest EXCEPT ![Owner[s]] = s]
  /\ hadPlayer' = TRUE
  /\ Watch(s)

\* A new player is seated, or the session of a seated one is replaced.
AddPlayer(s) ==
  /\ via' = [via EXCEPT ![Owner[s]] = s]
  /\ latest' = [latest EXCEPT ![Owner[s]] = s]
  /\ hadPlayer' = TRUE
  /\ Watch(s)

\* In the waiting phase the gather window starts again.  A full room refuses.
PlayerHello ==
  /\ Takes({"PlayerHello"})
  /\ IF Owner[msg.session] \in seated \/ Cardinality(seated) < MaxPlayers
     THEN /\ AddPlayer(msg.session)
          /\ armed' = IF phase = "waiting" /\ Cardinality(seated') >= MinPlayers
                      THEN armed \cup {"startgame"} ELSE armed
     ELSE /\ mailbox' = rest
          /\ UNCHANGED <<via, latest, hadPlayer, watched, armed>>
  /\ UNCHANGED <<phase, drawn, round, drawer, guessed, timeLeft, stash,
                 sessionVars>>

\* removePlayerByName, removePlayerByPath
Remaining(s) == {p \in seated : via[p] # s}

\* Mutant: the table is looked at before the player is taken off it.
AbortsOnOldTable(remaining) ==
  Cardinality(seated) < MinPlayers \/ drawer \notin seated

\* maybeAbortRound: the drawer is gone or too few players remain.
Aborts(remaining) ==
  Cardinality(remaining) < MinPlayers \/ drawer \notin remaining

\* ctx.Shutdown, PostStop: all timers are cancelled, the mailbox is gone.
Shutdown ==
  /\ phase' = "stopped"
  /\ armed' = {}
  /\ mailbox' = <<>>
  /\ stash' = <<>>

\* Who remains when the player of this GoodbyePlayer or Terminated leaves.
Leaves(remaining) ==
  /\ Takes({"GoodbyePlayer", "Terminated"})
  /\ remaining = Remaining(msg.session)
  /\ via' = [p \in Players |-> IF p \in remaining THEN via[p] ELSE None]
  /\ drawn' = drawn \cap remaining
  /\ UNCHANGED <<round, drawer, guessed, timeLeft, hadPlayer, latest, watched,
                 sessionVars>>

\* maybeShutdown
LastLeaves(remaining) ==
  /\ Leaves(remaining)
  /\ phase \in {"waiting", "roundOver"}
  /\ hadPlayer /\ remaining = {}
  /\ Shutdown

\* cancelGatherIfBelowMin
LeavesWaiting(remaining) ==
  /\ Leaves(remaining)
  /\ phase = "waiting"
  /\ ~(hadPlayer /\ remaining = {})
  /\ armed' = IF Cardinality(remaining) < MinPlayers
              THEN armed \ {"startgame"} ELSE armed
  /\ mailbox' = rest
  /\ UNCHANGED <<phase, stash>>

LeavesAndAborts(remaining) ==
  /\ Leaves(remaining)
  /\ phase \in {"choosing", "drawing"}
  /\ Aborts(remaining)
  /\ EnterRoundOver
  /\ mailbox' = rest
  /\ UNCHANGED stash

LeavesQuietly(remaining) ==
  /\ Leaves(remaining)
  /\ \/ phase \in {"choosing", "drawing"} /\ ~Aborts(remaining)
     \/ phase = "roundOver" /\ ~(hadPlayer /\ remaining = {})
     \/ phase = "gameOver"
  /\ mailbox' = rest
  /\ UNCHANGED <<phase, armed, stash>>

Input(type) == Takes({"PlayerInput"}) /\ msg.input = type

\* The drawer picks a word.
PickWord ==
  /\ Input("pickWord")
  /\ phase = "choosing"
  /\ msg.player = drawer
  /\ EnterDrawing(armed \ {"choose"})

\* A guess in the choosing phase waits for the drawing phase.
StashGuess ==
  /\ Input("guess")
  /\ phase = "choosing"
  /\ stash' = Append(stash, msg.player)
  /\ mailbox' = rest
  /\ UNCHANGED <<phase, gameVars, armed, watched, sessionVars>>

\* handleGuess: a right guess by a player who may still guess.
Guess ==
  /\ Input("guess")
  /\ phase = "drawing"
  /\ msg.player \in seated \ (guessed \cup {drawer})
  /\ guessed' = guessed \cup {msg.player}
  /\ IF seated \ {drawer} \subseteq guessed'
     THEN EnterRoundOver
     ELSE UNCHANGED <<phase, armed>>
  /\ mailbox' = rest
  /\ UNCHANGED <<via, drawn, round, drawer, timeLeft, hadPlayer, latest, stash,
                 watched, sessionVars>>

\* Mutant: the timer that stops the room survives a restart.
RestartGameKeepsTimer ==
  /\ Input("restart")
  /\ phase = "gameOver"
  /\ Cardinality(seated) < MinPlayers
  /\ phase' = "waiting"
  /\ mailbox' = rest
  /\ UNCHANGED <<gameVars, armed, stash, watched, sessionVars>>

\* restartGame: whoever asks, all timers are cancelled, and a new game begins
\* with those who are seated or the room waits for more.
RestartGame ==
  /\ Input("restart")
  /\ phase = "gameOver"
  /\ guessed' = {}
  /\ timeLeft' = 0
  /\ \/ /\ Cardinality(seated) < MinPlayers
        /\ phase' = "waiting"
        /\ round' = 0
        /\ armed' = {}
        /\ drawer' = None
        /\ drawn' = {}
     \/ /\ Cardinality(seated) >= MinPlayers
        /\ phase' = "choosing"
        /\ round' = 1
        /\ armed' = {"choose"}
        /\ PickNextDrawer({})
  /\ mailbox' = rest
  /\ UNCHANGED <<via, hadPlayer, latest, stash, watched, sessionVars>>

\* nextRound: the gather window or the pause after a round has elapsed.
NextRound ==
  /\ Takes({"nextRound"})
  /\ \/ phase = "waiting" /\ EnterChoosing(0)
     \/ /\ phase = "roundOver"
        /\ Cardinality(seated) >= MinPlayers
        /\ EnterChoosing(round)
     \/ /\ phase = "roundOver"
        /\ Cardinality(seated) < MinPlayers
        /\ EnterGameOver(armed)
        /\ UNCHANGED <<round, drawn, drawer, guessed, timeLeft>>
  /\ mailbox' = rest
  /\ UNCHANGED <<via, hadPlayer, latest, stash, watched, sessionVars>>

\* The time to choose is over; so it is when the message is of a choice that
\* was aborted, and the timer of this one runs on.
AutoPickFirst ==
  /\ Takes({"autoPickFirst"})
  /\ phase = "choosing"
  /\ EnterDrawing(armed)

TickCountdown ==
  /\ Takes({"tickCountdown"})
  /\ phase = "drawing"
  /\ timeLeft' = timeLeft - 1
  /\ IF timeLeft' <= 0 THEN EnterRoundOver ELSE UNCHANGED <<phase, armed>>
  /\ mailbox' = rest
  /\ UNCHANGED <<via, drawn, round, drawer, guessed, hadPlayer, latest, stash,
                 watched, sessionVars>>

ShutdownRoom ==
  /\ Takes({"shutdownRoom"})
  /\ phase = "gameOver"
  /\ Shutdown
  /\ UNCHANGED <<gameVars, watched, sessionVars>>

\* Chat, wrong guesses and messages of another phase change nothing.
Ignored ==
  /\ \/ /\ Takes({"PlayerInput"})
        /\ msg.input = "pickWord" => phase # "choosing" \/ msg.player # drawer
        /\ msg.input = "guess" => phase # "choosing"
        /\ msg.input = "restart" => phase # "gameOver"
     \/ Takes({"nextRound"}) /\ phase \notin {"waiting", "roundOver"}
     \/ Takes({"autoPickFirst"}) /\ phase # "choosing"
     \/ Takes({"tickCountdown"}) /\ phase # "drawing"
     \/ Takes({"shutdownRoom"}) /\ phase # "gameOver"
  /\ mailbox' = rest
  /\ UNCHANGED <<phase, gameVars, stash, armed, watched, sessionVars>>

\* The room handles the next message.
Receive ==
  \/ PlayerHello
  \/ \E remaining \in SUBSET seated :
       \/ LastLeaves(remaining) \/ LeavesWaiting(remaining)
       \/ LeavesAndAborts(remaining) \/ LeavesQuietly(remaining)
  \/ PickWord \/ StashGuess \/ Guess \/ RestartGame
  \/ NextRound \/ AutoPickFirst \/ TickCountdown \/ ShutdownRoom
  \/ Ignored

-----------------------------------------------------------------------------
(* Timers, sessions and the gateway *)

\* A message reaches the mailbox of a running room.
Tell(m) ==
  /\ phase # "stopped"
  /\ Len(mailbox) < MaxMail
  /\ mailbox' = Append(mailbox, m)
  /\ UNCHANGED <<phase, gameVars, stash, armed>>

\* A timer fires.  The countdown recurs; a tick is sent when the last one has
\* been handled.
Fire(timer) ==
  /\ timer \in armed
  /\ \A i \in 1 .. Len(mailbox) :
       timer = "countdown" => mailbox[i].type # "tickCountdown"
  /\ armed' = IF timer = "countdown" THEN armed ELSE armed \ {timer}
  /\ mailbox' = Append(mailbox, Tells(timer))
  /\ UNCHANGED <<phase, gameVars, stash, watched, sessionVars>>

\* wsHandler has found the room and spawns the session.
Connect(s) ==
  /\ phase # "stopped"
  /\ session[s] = "none"
  /\ session' = [session EXCEPT ![s] = "starting"]
  /\ socket' = [socket EXCEPT ![s] = "open"]
  /\ UNCHANGED roomVars

\* PostStart of the session.
SessionStart(s) ==
  /\ session[s] = "starting"
  /\ session' = [session EXCEPT ![s] = "joined"]
  /\ Tell([type |-> "PlayerHello", session |-> s])
  /\ UNCHANGED <<watched, socket>>

\* The session passes on what the client sent, even after the socket closed.
SessionInput(s, input) ==
  /\ session[s] = "joined"
  /\ input = "guess" => Len(stash) < MaxMail
  /\ Tell([type |-> "PlayerInput", input |-> input, player |-> Owner[s]])
  /\ UNCHANGED <<watched, sessionVars>>

\* The reader loop ends: GoodbyePlayer to the room, closed to the session.
CloseSocket(s) ==
  /\ socket[s] = "open"
  /\ socket' = [socket EXCEPT ![s] = "closed"]
  /\ Tell([type |-> "GoodbyePlayer", session |-> s])
  /\ UNCHANGED <<watched, session>>

\* The session handles closed, or a write to the socket fails.  The death watch
\* tells the room.
SessionStop(s) ==
  /\ session[s] = "joined"
  /\ session' = [session EXCEPT ![s] = "dead"]
  /\ watched' = watched \ {s}
  /\ \/ /\ s \in watched
        /\ Tell([type |-> "Terminated", session |-> s])
     \/ /\ s \notin watched /\ phase # "stopped"
        /\ UNCHANGED <<phase, gameVars, stash, armed, mailbox>>
  /\ UNCHANGED socket

-----------------------------------------------------------------------------
\* What sessions and the gateway do after the room has stopped is left out.
Next ==
  \/ Receive
  \/ \E timer \in Timers : Fire(timer)
  \/ \E s \in Sessions :
       \/ Connect(s) \/ SessionStart(s) \/ CloseSocket(s) \/ SessionStop(s)
       \/ \E input \in InputTypes : SessionInput(s, input)

\* The room works off its mailbox, and timers fire.
Fairness ==
  /\ WF_vars(Receive)
  /\ \A timer \in Timers : WF_vars(Fire(timer))

Spec == Init /\ [][Next]_vars /\ Fairness

-----------------------------------------------------------------------------
(* Properties *)

\* While a word is chosen or drawn, the drawer who was picked is at the table,
\* whoever leaves, returns or restarts the game in between (pickNextDrawer,
\* maybeAbortRound).  None is picked only from an empty table.
DrawerIsSeated == phase \in {"choosing", "drawing"} => drawer \in seated \cup {None}

\* A timer runs only in the phase it was set for, and the one for the choice at
\* most until the round is over, so none leaks into another round or game (the
\* comment of enterRoundOver, restartGame, PostStop).
TimersMatchPhase ==
  /\ "startgame" \in armed =>
       phase = "waiting" /\ Cardinality(seated) >= MinPlayers
  /\ "choose" \in armed => phase \in {"choosing", "drawing"}
  /\ "countdown" \in armed <=> phase = "drawing"
  /\ "shutdown" \in armed => phase = "gameOver"

\* A player whose last admitted session is connected stays seated: neither the
\* GoodbyePlayer nor the end of an older session evicts a player who came back
\* (the comment of addPlayer).
ConnectedStaySeated ==
  \A p \in Players :
    LET s == latest[p]
    IN (s # None /\ phase # "stopped")
         => (socket[s] = "open" /\ session[s] = "joined" => p \in seated)

\* A game that has begun ends, whatever players do or stop doing: every phase is
\* left by a timer at last.
GameEnds == phase = "choosing" ~> phase \in {"gameOver", "stopped"}

\* After a game the room stops or is restarted.
GameOverEnds == phase = "gameOver" ~> phase # "gameOver"

\* A round never starts with fewer than MinPlayers players (the comment of
\* cancelGatherIfBelowMin).
EnoughPlayers == phase = "choosing" => Cardinality(seated) >= MinPlayers
=============================================================================
