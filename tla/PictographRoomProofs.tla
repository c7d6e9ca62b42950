------------------------ MODULE PictographRoomProofs ------------------------
(***************************************************************************)
(* The safety invariants of PictographRoom, proved for every set of        *)
(* players and sessions, every number of rounds and every table size.      *)
(*                                                                         *)
(* None of the three is inductive by itself.  IInv adds what the room's    *)
(* handlers rely on without checking it: a room that has stopped has       *)
(* neither messages nor timers, a drawing phase has time left, and a       *)
(* GoodbyePlayer or Terminated in the mailbox is about a connection that   *)
(* has really ended.  Players need not be finite; that the table is, is a  *)
(* part of the invariant.                                                  *)
(***************************************************************************)
EXTENDS PictographRoom, SequenceTheorems, FiniteSetTheorems, TLAPS

USE DEF gameVars, roomVars, sessionVars, vars

-----------------------------------------------------------------------------
(* The inductive invariant *)

\* The session of a message about the end of a connection has ended.
EndsTrue(m, sockets, sessions) ==
  /\ m.type = "GoodbyePlayer" => sockets[m.session] = "closed"
  /\ m.type = "Terminated" => sessions[m.session] = "dead"

MailboxInv ==
  /\ \A i \in 1 .. Len(mailbox) : EndsTrue(mailbox[i], socket, session)
  /\ phase = "stopped" => mailbox = <<>> /\ armed = {}

PhaseInv ==
  /\ phase = "drawing" => timeLeft > 0
  /\ IsFiniteSet(seated)

\* A connection that was never opened has no socket.
SessionInv == \A s \in Sessions : session[s] = "none" => socket[s] = "none"

\* A player sits there with the last session he was admitted with, or that
\* session has lost its socket or is dead.
Sits(p) ==
  latest[p] # None =>
    \/ via[p] = latest[p]
    \/ socket[latest[p]] = "closed"
    \/ session[latest[p]] = "dead"

SeatInv == \A p \in Players : Sits(p)

IInv ==
  /\ TypeOK
  /\ MailboxInv
  /\ PhaseInv
  /\ SessionInv
  /\ SeatInv
  /\ DrawerIsSeated
  /\ TimersMatchPhase

-----------------------------------------------------------------------------
(* Lemmas on the operators of the model *)

\* What the room takes from its mailbox is a message, and what is behind it
\* was in the mailbox before.
LEMMA Taken ==
  ASSUME TypeOK, mailbox # <<>>
  PROVE /\ msg \in Messages
        /\ msg = mailbox[1] /\ 1 \in 1 .. Len(mailbox)
        /\ rest \in Seq(Messages)
        /\ \A i \in 1 .. Len(rest) :
             i + 1 \in 1 .. Len(mailbox) /\ rest[i] = mailbox[i + 1]
<1>1. mailbox \in Seq(Messages)
  BY DEF TypeOK
<1>2. /\ Head(mailbox) \in Messages /\ Tail(mailbox) \in Seq(Messages)
      /\ Len(mailbox) \in Nat /\ Len(mailbox) > 0
      /\ Len(Tail(mailbox)) = Len(mailbox) - 1
      /\ Head(mailbox) = mailbox[1]
  BY <1>1, HeadTailProperties, EmptySeq, LenProperties
<1>3. \A i \in 1 .. Len(Tail(mailbox)) : Tail(mailbox)[i] = mailbox[i + 1]
  BY <1>1, <1>2, HeadTailProperties
<1> QED
  BY <1>2, <1>3 DEF msg, rest

\* A message about a session names one of the sessions.
LEMMA AboutSession ==
  ASSUME NEW m \in Messages,
         m.type \in {"PlayerHello", "GoodbyePlayer", "Terminated"}
  PROVE m.session \in Sessions
BY DEF Messages

\* What a player sends names a player.
LEMMA FromPlayer ==
  ASSUME NEW m \in Messages, m.type = "PlayerInput"
  PROVE m.player \in Players
BY DEF Messages

\* What a timer sends is no news of a session.
LEMMA TellsProperties ==
  ASSUME NEW timer \in Timers
  PROVE /\ Tells(timer) \in Messages
        /\ Tells(timer).type \notin {"GoodbyePlayer", "Terminated"}
BY DEF Timers, Tells, Messages

\* The drawer is picked from the table, and only from an empty one nobody is.
LEMMA Picked ==
  ASSUME NEW has, has \subseteq seated, PickNextDrawer(has)
  PROVE drawer' \in seated \cup {None} /\ drawn' \subseteq seated
BY DEF PickNextDrawer

\* The stashed guesses are guesses when they return to the mailbox.
LEMMA Unstashed ==
  ASSUME TypeOK, mailbox # <<>>, UnstashAll
  PROVE /\ stash' = <<>>
        /\ mailbox' \in Seq(Messages)
        /\ \A i \in 1 .. Len(mailbox') :
             \/ \E j \in 1 .. Len(mailbox) : mailbox'[i] = mailbox[j]
             \/ mailbox'[i].type = "PlayerInput"
<1> DEFINE g == [i \in 1 .. Len(stash) |->
             [type |-> "PlayerInput", input |-> "guess", player |-> stash[i]]]
<1>1. Len(stash) \in Nat /\ \A i \in 1 .. Len(stash) : stash[i] \in Players
  BY LenProperties, ElementOfSeq DEF TypeOK
<1>2. \A i \in 1 .. Len(stash) :
        [type |-> "PlayerInput", input |-> "guess", player |-> stash[i]] \in Messages
  BY <1>1 DEF Messages, InputTypes
<1>3. g \in Seq(Messages) /\ \A i \in 1 .. Len(g) : g[i].type = "PlayerInput"
  <2>1. g \in Seq(Messages)
    BY <1>1, <1>2, IsASeq
  <2>2. DOMAIN g = 1 .. Len(g) /\ DOMAIN g = 1 .. Len(stash)
    BY <2>1, LenProperties
  <2> QED
    BY <2>1, <2>2
<1>4. rest \in Seq(Messages)
      /\ \A i \in 1 .. Len(rest) : \E j \in 1 .. Len(mailbox) : rest[i] = mailbox[j]
  BY Taken
<1>5. mailbox' \in {g \o rest, rest \o g} /\ stash' = <<>>
  BY DEF UnstashAll
<1> HIDE DEF g
<1>6. ASSUME NEW a \in Seq(Messages), NEW b \in Seq(Messages), NEW i \in 1 .. Len(a \o b)
      PROVE /\ a \o b \in Seq(Messages)
            /\ \/ \E j \in 1 .. Len(a) : (a \o b)[i] = a[j]
               \/ \E j \in 1 .. Len(b) : (a \o b)[i] = b[j]
  <2>1. /\ a \o b \in Seq(Messages) /\ Len(a \o b) = Len(a) + Len(b)
        /\ (a \o b)[i] = IF i <= Len(a) THEN a[i] ELSE b[i - Len(a)]
    BY ConcatProperties
  <2>2. Len(a) \in Nat /\ Len(b) \in Nat
    BY LenProperties
  <2>3. CASE i <= Len(a)
    BY <2>1, <2>2, <2>3
  <2>4. CASE ~(i <= Len(a))
    <3>1. i - Len(a) \in 1 .. Len(b)
      BY <2>1, <2>2, <2>4
    <3> QED
      BY <2>1, <2>4, <3>1
  <2> QED
    BY <2>3, <2>4
<1>7. mailbox' \in Seq(Messages)
  BY <1>3, <1>4, <1>5, ConcatProperties
<1>8. \A i \in 1 .. Len(mailbox') :
        \/ \E j \in 1 .. Len(rest) : mailbox'[i] = rest[j]
        \/ \E j \in 1 .. Len(g) : mailbox'[i] = g[j]
  <2>1. CASE mailbox' = g \o rest
    BY <1>3, <1>4, <1>6, <2>1
  <2>2. CASE mailbox' = rest \o g
    BY <1>3, <1>4, <1>6, <2>2
  <2> QED
    BY <1>5, <2>1, <2>2
<1> QED
  BY <1>3, <1>4, <1>5, <1>7, <1>8

\* What every step does with the mailbox: what is in it afterwards was in it
\* before, or tells the truth about the sessions.
MailStep ==
  /\ mailbox' \in Seq(Messages)
  /\ \A i \in 1 .. Len(mailbox') :
       \/ \E j \in 1 .. Len(mailbox) : mailbox'[i] = mailbox[j]
       \/ EndsTrue(mailbox'[i], socket', session')

LEMMA RestStep ==
  ASSUME TypeOK, mailbox # <<>>, mailbox' = rest
  PROVE MailStep
BY Taken DEF MailStep

LEMMA SameStep ==
  ASSUME TypeOK, mailbox' = mailbox
  PROVE MailStep
BY DEF MailStep, TypeOK

LEMMA EmptyStep ==
  ASSUME mailbox' = <<>>
  PROVE MailStep
BY EmptySeq DEF MailStep

LEMMA AppendStep ==
  ASSUME TypeOK, NEW m \in Messages, EndsTrue(m, socket', session'),
         NEW q, q = mailbox \/ (mailbox # <<>> /\ q = rest),
         mailbox' = Append(q, m)
  PROVE MailStep
<1>1. q \in Seq(Messages)
      /\ \A i \in 1 .. Len(q) : \E j \in 1 .. Len(mailbox) : q[i] = mailbox[j]
  BY Taken DEF TypeOK
<1>2. /\ mailbox' \in Seq(Messages) /\ Len(mailbox') = Len(q) + 1
      /\ \A i \in 1 .. Len(q) : mailbox'[i] = q[i]
      /\ mailbox'[Len(q) + 1] = m
  BY <1>1, AppendProperties
<1>3. Len(q) \in Nat
  BY <1>1, LenProperties
<1>4. ASSUME NEW i \in 1 .. Len(mailbox')
      PROVE \/ \E j \in 1 .. Len(mailbox) : mailbox'[i] = mailbox[j]
            \/ mailbox'[i] = m
  BY <1>1, <1>2, <1>3
<1> QED
  BY <1>2, <1>4 DEF MailStep

LEMMA UnstashStep ==
  ASSUME TypeOK, mailbox # <<>>, UnstashAll
  PROVE MailStep
BY Unstashed DEF MailStep, EndsTrue

\* A player who is admitted has a seat, and nobody loses one.
LEMMA Seated ==
  ASSUME TypeOK, NEW s \in Sessions, via' = [via EXCEPT ![Owner[s]] = s]
  PROVE /\ via' \in [Players -> Sessions \cup {None}]
        /\ seated' = seated \cup {Owner[s]}
        /\ Owner[s] \in Players
<1>1. Owner[s] \in Players /\ s # None
  BY OwnerAssumption, NoneAssumption
<1> QED
  BY <1>1 DEF TypeOK, seated

\* Those who remain are the ones who keep their seats.
LEMMA StillSeated ==
  ASSUME TypeOK, NEW remaining \in SUBSET seated,
         via' = [p \in Players |-> IF p \in remaining THEN via[p] ELSE None]
  PROVE /\ via' \in [Players -> Sessions \cup {None}]
        /\ seated' = remaining
BY DEF TypeOK, seated

-----------------------------------------------------------------------------
(* Every step of the room *)

\* The handlers of the room leave sessions and sockets alone, and what they
\* append to the mailbox is the end of a session that is dead.
LEMMA ReceiveStep ==
  ASSUME TypeOK, Receive
  PROVE /\ mailbox # <<>> /\ UNCHANGED sessionVars
        /\ MailStep
        /\ stash' \in Seq(Players) /\ watched' \subseteq Sessions
<1> DEFINE Goal == /\ mailbox # <<>> /\ UNCHANGED sessionVars
                   /\ MailStep
                   /\ stash' \in Seq(Players) /\ watched' \subseteq Sessions
<1>t. stash \in Seq(Players) /\ watched \subseteq Sessions /\ <<>> \in Seq(Players)
  BY EmptySeq DEF TypeOK
<1>1. ASSUME PlayerHello PROVE Goal
  <2>1. /\ mailbox # <<>> /\ msg.type = "PlayerHello" /\ UNCHANGED sessionVars
        /\ stash' = stash
    BY <1>1 DEF PlayerHello, Takes
  <2>2. PICK s \in Sessions : s = msg.session
    BY <2>1, Taken, AboutSession
  <2>3. CASE mailbox' = rest /\ UNCHANGED watched
    BY <1>t, <2>1, <2>3, RestStep
  <2>4. CASE Watch(s)
    <3>1. CASE session[s] # "dead"
      BY <1>t, <2>1, <2>4, <3>1, RestStep DEF Watch
    <3>2. CASE session[s] = "dead" /\ mailbox' = rest /\ UNCHANGED watched
      BY <1>t, <2>1, <3>2, RestStep
    <3>3. CASE /\ session[s] = "dead" /\ UNCHANGED watched
               /\ mailbox' = Append(rest, [type |-> "Terminated", session |-> s])
      <4>1. [type |-> "Terminated", session |-> s] \in Messages
        BY DEF Messages
      <4>2. EndsTrue([type |-> "Terminated", session |-> s], socket', session')
        BY <2>1, <3>3 DEF EndsTrue
      <4>3. MailStep
        BY <2>1, <3>3, <4>1, <4>2, AppendStep
      <4> QED
        BY <1>t, <2>1, <3>3, <4>3
    <3> QED
      BY <2>4, <3>1, <3>2, <3>3 DEF Watch
  <2> QED
    BY <1>1, <2>2, <2>3, <2>4 DEF PlayerHello, AddPlayer
<1>2. ASSUME NEW remaining \in SUBSET seated,
             \/ LastLeaves(remaining) \/ LeavesWaiting(remaining)
             \/ LeavesAndAborts(remaining) \/ LeavesQuietly(remaining)
      PROVE Goal
  <2>1. /\ mailbox # <<>> /\ UNCHANGED sessionVars /\ UNCHANGED watched
        /\ stash' = stash \/ stash' = <<>>
        /\ mailbox' = rest \/ mailbox' = <<>>
    BY <1>2 DEF LastLeaves, LeavesWaiting, LeavesAndAborts, LeavesQuietly, Leaves,
         Takes, Shutdown
  <2> QED
    BY <1>t, <2>1, RestStep, EmptyStep
<1>3. ASSUME EnterDrawing(armed) \/ EnterDrawing(armed \ {"choose"}), mailbox # <<>>
      PROVE Goal
  <2>1. UnstashAll /\ UNCHANGED sessionVars /\ UNCHANGED watched
    BY <1>3 DEF EnterDrawing
  <2> QED
    BY <1>t, <1>3, <2>1, Unstashed, UnstashStep
<1>4. ASSUME PickWord PROVE Goal
  BY <1>3, <1>4 DEF PickWord, Input, Takes
<1>5. ASSUME AutoPickFirst PROVE Goal
  BY <1>3, <1>5 DEF AutoPickFirst, Takes
<1>6. ASSUME StashGuess PROVE Goal
  <2>1. /\ mailbox # <<>> /\ UNCHANGED sessionVars /\ UNCHANGED watched
        /\ stash' = Append(stash, msg.player) /\ mailbox' = rest
        /\ msg.type = "PlayerInput"
    BY <1>6 DEF StashGuess, Input, Takes
  <2>2. msg.player \in Players
    BY <2>1, Taken, FromPlayer
  <2>3. stash' \in Seq(Players)
    BY <1>t, <2>1, <2>2, AppendProperties
  <2> QED
    BY <1>t, <2>1, <2>3, RestStep
<1>7. ASSUME Guess \/ RestartGame \/ NextRound \/ TickCountdown \/ Ignored PROVE Goal
  <2>1. /\ mailbox # <<>> /\ UNCHANGED sessionVars /\ UNCHANGED <<watched, stash>>
        /\ mailbox' = rest
    BY <1>7 DEF Guess, RestartGame, NextRound, TickCountdown, Ignored, Input, Takes
  <2> QED
    BY <1>t, <2>1, RestStep
<1>8. ASSUME ShutdownRoom PROVE Goal
  BY <1>t, <1>8, EmptyStep DEF ShutdownRoom, Shutdown, Takes
<1> HIDE DEF Goal
<1>9. Goal
  BY <1>1, <1>2, <1>4, <1>5, <1>6, <1>7, <1>8 DEF Receive
<1> QED
  BY <1>9 DEF Goal

\* Timers, sessions and the gateway leave the game alone.
OutsideStep ==
  /\ UNCHANGED gameVars /\ UNCHANGED phase /\ UNCHANGED stash
  /\ armed' \subseteq armed
  /\ "countdown" \in armed => "countdown" \in armed'
  /\ watched' \subseteq watched
  /\ mailbox' # mailbox => phase # "stopped" \/ armed # {}
  /\ MailStep
  /\ session' \in [Sessions -> {"none", "starting", "joined", "dead"}]
  /\ socket' \in [Sessions -> {"none", "open", "closed"}]
  /\ \A s \in Sessions :
       /\ session'[s] = "none" => session[s] = "none" /\ socket'[s] = socket[s]
       /\ socket[s] = "closed" => socket'[s] = "closed"
       /\ session[s] = "dead" => session'[s] = "dead"

LEMMA OutsideSteps ==
  ASSUME TypeOK, SessionInv,
         \/ \E timer \in Timers : Fire(timer)
         \/ \E s \in Sessions :
              \/ Connect(s) \/ SessionStart(s) \/ CloseSocket(s) \/ SessionStop(s)
              \/ \E input \in InputTypes : SessionInput(s, input)
  PROVE OutsideStep
<1>t. /\ session \in [Sessions -> {"none", "starting", "joined", "dead"}]
      /\ socket \in [Sessions -> {"none", "open", "closed"}]
  BY DEF TypeOK
<1>1. ASSUME NEW timer \in Timers, Fire(timer) PROVE OutsideStep
  <2>1. /\ mailbox' = Append(mailbox, Tells(timer)) /\ timer \in armed
        /\ armed' \subseteq armed
        /\ "countdown" \in armed => "countdown" \in armed'
        /\ UNCHANGED <<phase, gameVars, stash, watched, sessionVars>>
    BY <1>1 DEF Fire
  <2>2. MailStep
    BY <2>1, TellsProperties, AppendStep DEF EndsTrue
  <2> QED
    BY <1>t, <2>1, <2>2 DEF OutsideStep
<1>2. ASSUME NEW s \in Sessions, Connect(s) PROVE OutsideStep
  BY <1>2, <1>t, SameStep DEF Connect, OutsideStep, SessionInv
<1>3. ASSUME NEW s \in Sessions, SessionStart(s) PROVE OutsideStep
  <2>1. [type |-> "PlayerHello", session |-> s] \in Messages
    BY DEF Messages
  <2>2. MailStep
    BY <1>3, <2>1, AppendStep DEF SessionStart, Tell, EndsTrue
  <2> QED
    BY <1>3, <1>t, <2>2 DEF SessionStart, Tell, OutsideStep
<1>4. ASSUME NEW s \in Sessions, CloseSocket(s) PROVE OutsideStep
  <2>1. [type |-> "GoodbyePlayer", session |-> s] \in Messages
    BY DEF Messages
  <2>2. socket'[s] = "closed"
    BY <1>4, <1>t DEF CloseSocket
  <2>3. MailStep
    BY <1>4, <2>1, <2>2, AppendStep DEF CloseSocket, Tell, EndsTrue
  <2> QED
    BY <1>4, <1>t, <2>3 DEF CloseSocket, Tell, OutsideStep, SessionInv
<1>5. ASSUME NEW s \in Sessions, SessionStop(s) PROVE OutsideStep
  <2>1. [type |-> "Terminated", session |-> s] \in Messages
    BY DEF Messages
  <2>2. session'[s] = "dead"
    BY <1>5, <1>t DEF SessionStop
  <2>3. MailStep
    <3>1. CASE mailbox' = mailbox
      BY <3>1, SameStep
    <3>2. CASE Tell([type |-> "Terminated", session |-> s])
      BY <3>2, <2>1, <2>2, AppendStep DEF Tell, EndsTrue
    <3> QED
      BY <1>5, <3>1, <3>2 DEF SessionStop
  <2>4. /\ UNCHANGED gameVars /\ UNCHANGED <<phase, stash, armed, socket>>
        /\ phase # "stopped"
        /\ watched' \subseteq watched
        /\ session' = [session EXCEPT ![s] = "dead"]
    BY <1>5 DEF SessionStop, Tell
  <2> QED
    BY <1>t, <2>3, <2>4 DEF OutsideStep
<1>6. ASSUME NEW s \in Sessions, NEW input \in InputTypes, SessionInput(s, input)
      PROVE OutsideStep
  <2>1. [type |-> "PlayerInput", input |-> input, player |-> Owner[s]] \in Messages
    BY OwnerAssumption DEF Messages
  <2>2. MailStep
    BY <1>6, <2>1, AppendStep DEF SessionInput, Tell, EndsTrue
  <2> QED
    BY <1>6, <1>t, <2>2 DEF SessionInput, Tell, OutsideStep
<1> QED
  BY <1>1, <1>2, <1>3, <1>4, <1>5, <1>6

-----------------------------------------------------------------------------
(* What the handlers keep *)

\* The room's own part of the invariant.
RoomInv ==
  /\ phase \in Phases
  /\ via \in [Players -> Sessions \cup {None}]
  /\ drawn \subseteq seated
  /\ round \in Nat
  /\ drawer \in Players \cup {None}
  /\ guessed \subseteq Players
  /\ timeLeft \in 0 .. DrawSeconds
  /\ hadPlayer \in BOOLEAN
  /\ armed \subseteq Timers
  /\ latest \in [Players -> Sessions \cup {None}]
  /\ phase = "stopped" => mailbox = <<>> /\ armed = {}
  /\ PhaseInv
  /\ DrawerIsSeated
  /\ TimersMatchPhase

\* The drawer of a picked round is a player.
LEMMA SeatedPlayers ==
  seated \subseteq Players
BY DEF seated

LEMMA HelloKeeps ==
  ASSUME TypeOK, RoomInv, PlayerHello
  PROVE RoomInv'
<1>1. /\ mailbox # <<>> /\ msg.type = "PlayerHello"
      /\ UNCHANGED <<phase, drawn, round, drawer, guessed, timeLeft>>
  BY DEF PlayerHello, Takes
<1>2. PICK s \in Sessions : s = msg.session
  BY <1>1, Taken, AboutSession
<1>3. phase # "stopped"
  BY <1>1 DEF RoomInv
<1>4. CASE UNCHANGED <<via, latest, hadPlayer, armed>>
  <2>1. seated' = seated
    BY <1>4 DEF seated
  <2> QED
    BY <1>1, <1>3, <1>4, <2>1
      DEF RoomInv, PhaseInv, DrawerIsSeated, TimersMatchPhase
<1>5. CASE /\ AddPlayer(s)
           /\ armed' = IF phase = "waiting" /\ Cardinality(seated') >= MinPlayers
                       THEN armed \cup {"startgame"} ELSE armed
  <2>1. /\ via' \in [Players -> Sessions \cup {None}]
        /\ seated' = seated \cup {Owner[s]}
        /\ Owner[s] \in Players
    BY <1>5, Seated DEF AddPlayer
  <2>2. latest' \in [Players -> Sessions \cup {None}] /\ hadPlayer' = TRUE
    BY <1>5, <2>1 DEF AddPlayer, RoomInv
  <2>3. IsFiniteSet(seated) /\ IsFiniteSet(seated \cup {Owner[s]})
    BY FS_AddElement DEF RoomInv, PhaseInv
  <2>4. /\ Cardinality(seated) <= Cardinality(seated \cup {Owner[s]})
        /\ Cardinality(seated) \in Nat
        /\ Cardinality(seated \cup {Owner[s]}) \in Nat
    BY <2>3, FS_Subset, FS_CardinalityType
  <2>5. TimersMatchPhase'
    <3>1. armed \subseteq armed' /\ armed' \subseteq armed \cup {"startgame"}
      BY <1>5
    <3>2. "startgame" \in armed' =>
             phase = "waiting" /\ Cardinality(seated') >= MinPlayers
      <4>1. CASE "startgame" \in armed
        BY <2>1, <2>4, <4>1, LimitsAssumption DEF RoomInv, TimersMatchPhase
      <4>2. CASE "startgame" \notin armed
        BY <1>5, <4>2
      <4> QED
        BY <4>1, <4>2
    <3> QED
      BY <1>1, <3>1, <3>2 DEF RoomInv, TimersMatchPhase
  <2>6. armed' \subseteq Timers
    BY <1>5 DEF RoomInv, Timers
  <2>7. DrawerIsSeated' /\ PhaseInv'
    BY <1>1, <2>1, <2>3 DEF RoomInv, DrawerIsSeated, PhaseInv
  <2> QED
    BY <1>1, <1>3, <2>1, <2>2, <2>5, <2>6, <2>7 DEF RoomInv
<1> QED
  BY <1>2, <1>4, <1>5 DEF PlayerHello

LEMMA LeavingKeeps ==
  ASSUME TypeOK, RoomInv, NEW remaining \in SUBSET seated,
         \/ LastLeaves(remaining) \/ LeavesWaiting(remaining)
         \/ LeavesAndAborts(remaining) \/ LeavesQuietly(remaining)
  PROVE RoomInv'
<1>1. Leaves(remaining)
  BY DEF LastLeaves, LeavesWaiting, LeavesAndAborts, LeavesQuietly
<1>2. /\ via' \in [Players -> Sessions \cup {None}]
      /\ seated' = remaining
      /\ drawn' \subseteq remaining
      /\ UNCHANGED <<round, drawer, guessed, timeLeft, hadPlayer, latest>>
      /\ mailbox # <<>>
  BY <1>1, StillSeated DEF Leaves, Takes
<1>3. IsFiniteSet(remaining) /\ Cardinality(remaining) \in Nat
  BY FS_Subset, FS_CardinalityType DEF RoomInv, PhaseInv
<1>4. phase # "stopped"
  BY <1>2 DEF RoomInv
<1>5. /\ phase' \in Phases /\ armed' \subseteq Timers
      /\ phase' = "stopped" => mailbox' = <<>> /\ armed' = {}
      /\ phase' = "drawing" => phase = "drawing"
      /\ phase' \in {"choosing", "drawing"} => drawer \in remaining
      /\ TimersMatchPhase'
  <2>1. CASE LastLeaves(remaining)
    BY <2>1 DEF LastLeaves, Shutdown, Phases, TimersMatchPhase
  <2>2. CASE LeavesWaiting(remaining)
    BY <1>2, <1>3, <2>2, LimitsAssumption DEF LeavesWaiting, RoomInv, TimersMatchPhase
  <2>3. CASE LeavesAndAborts(remaining)
    BY <1>2, <2>3
      DEF LeavesAndAborts, EnterRoundOver, RoomInv, TimersMatchPhase, Phases, Timers
  <2>4. CASE LeavesQuietly(remaining)
    BY <1>2, <1>4, <2>4 DEF LeavesQuietly, Aborts, RoomInv, TimersMatchPhase
  <2> QED
    BY <2>1, <2>2, <2>3, <2>4
<1>6. PhaseInv' /\ DrawerIsSeated'
  BY <1>2, <1>3, <1>5 DEF RoomInv, PhaseInv, DrawerIsSeated
<1> QED
  BY <1>2, <1>5, <1>6 DEF RoomInv

LEMMA DrawingKeeps ==
  ASSUME TypeOK, RoomInv, phase = "choosing",
         NEW timers \in SUBSET armed, EnterDrawing(timers)
  PROVE RoomInv'
<1>1. /\ phase' = "drawing" /\ timeLeft' = DrawSeconds
      /\ armed' = timers \cup {"countdown"}
      /\ UNCHANGED <<via, drawn, round, drawer, guessed, hadPlayer, latest>>
  BY DEF EnterDrawing
<1>2. seated' = seated
  BY <1>1 DEF seated
<1>3. TimersMatchPhase'
  BY <1>1, <1>2 DEF RoomInv, TimersMatchPhase
<1>4. PhaseInv' /\ DrawerIsSeated'
  BY <1>1, <1>2, LimitsAssumption DEF RoomInv, PhaseInv, DrawerIsSeated
<1>5. phase' \in Phases /\ armed' \subseteq Timers /\ timeLeft' \in 0 .. DrawSeconds
  BY <1>1, LimitsAssumption DEF RoomInv, Phases, Timers
<1> QED
  BY <1>1, <1>2, <1>3, <1>4, <1>5 DEF RoomInv

LEMMA RoundOverKeeps ==
  ASSUME TypeOK, RoomInv, phase \in {"choosing", "drawing"}, EnterRoundOver,
         UNCHANGED <<via, drawn, round, drawer, hadPlayer, latest>>,
         guessed' \subseteq Players, timeLeft' \in 0 .. DrawSeconds
  PROVE RoomInv'
<1>1. /\ phase' = "roundOver"
      /\ armed' = (armed \ {"countdown", "choose"}) \cup {"roundend"}
  BY DEF EnterRoundOver
<1>2. seated' = seated
  BY DEF seated
<1>3. TimersMatchPhase'
  BY <1>1, <1>2 DEF RoomInv, TimersMatchPhase
<1>4. PhaseInv' /\ DrawerIsSeated'
  BY <1>1, <1>2 DEF RoomInv, PhaseInv, DrawerIsSeated
<1>5. phase' \in Phases /\ armed' \subseteq Timers
  BY <1>1 DEF RoomInv, Phases, Timers
<1> QED
  BY <1>1, <1>2, <1>3, <1>4, <1>5 DEF RoomInv

\* The phase stays, and so do the timers and the table.
LEMMA PhaseKeeps ==
  ASSUME TypeOK, RoomInv, phase # "stopped",
         UNCHANGED <<phase, armed, via, drawn, round, drawer, hadPlayer, latest>>,
         guessed' \subseteq Players, timeLeft' \in 0 .. DrawSeconds,
         phase = "drawing" => timeLeft' > 0
  PROVE RoomInv'
<1>1. seated' = seated
  BY DEF seated
<1> QED
  BY <1>1 DEF RoomInv, PhaseInv, DrawerIsSeated, TimersMatchPhase

LEMMA ChoosingKeeps ==
  ASSUME TypeOK, RoomInv, phase \in {"waiting", "roundOver", "gameOver"},
         phase' = "choosing", round' \in Nat,
         NEW has \in SUBSET drawn, PickNextDrawer(has),
         guessed' = {}, timeLeft' = 0,
         armed' \subseteq (armed \ {"startgame", "shutdown"}) \cup {"choose"},
         UNCHANGED <<via, hadPlayer, latest>>
  PROVE RoomInv'
<1>1. seated' = seated
  BY DEF seated
<1>2. drawer' \in seated \cup {None} /\ drawn' \subseteq seated
  BY Picked DEF RoomInv
<1>3. TimersMatchPhase'
  BY <1>1 DEF RoomInv, TimersMatchPhase
<1>4. PhaseInv' /\ DrawerIsSeated'
  BY <1>1, <1>2 DEF RoomInv, PhaseInv, DrawerIsSeated
<1>5. phase' \in Phases /\ armed' \subseteq Timers /\ timeLeft' \in 0 .. DrawSeconds
  BY LimitsAssumption DEF RoomInv, Phases, Timers
<1>6. drawer' \in Players \cup {None}
  BY <1>2, SeatedPlayers
<1> QED
  BY <1>1, <1>2, <1>3, <1>4, <1>5, <1>6 DEF RoomInv

LEMMA GameOverKeeps ==
  ASSUME TypeOK, RoomInv, phase \in {"waiting", "roundOver"},
         NEW timers \in SUBSET armed, "startgame" \notin timers, EnterGameOver(timers),
         round' \in Nat,
         UNCHANGED <<via, drawn, drawer, guessed, timeLeft, hadPlayer, latest>>
  PROVE RoomInv'
<1>1. /\ phase' = "gameOver"
      /\ armed' = (timers \ {"countdown", "roundend"}) \cup {"shutdown"}
  BY DEF EnterGameOver
<1>2. seated' = seated
  BY DEF seated
<1>3. TimersMatchPhase'
  BY <1>1, <1>2 DEF RoomInv, TimersMatchPhase
<1>4. PhaseInv' /\ DrawerIsSeated'
  BY <1>1, <1>2 DEF RoomInv, PhaseInv, DrawerIsSeated
<1>5. phase' \in Phases /\ armed' \subseteq Timers
  BY <1>1 DEF RoomInv, Phases, Timers
<1> QED
  BY <1>1, <1>2, <1>3, <1>4, <1>5 DEF RoomInv

LEMMA RoomKept ==
  ASSUME TypeOK, RoomInv, Receive
  PROVE RoomInv'
<1>n. mailbox # <<>> /\ phase # "stopped"
  BY ReceiveStep DEF RoomInv
<1>t. /\ guessed \subseteq Players /\ timeLeft \in 0 .. DrawSeconds
      /\ phase = "drawing" => timeLeft > 0
      /\ round \in Nat
      /\ drawn \subseteq drawn
  BY DEF RoomInv, PhaseInv
<1>1. ASSUME PickWord PROVE RoomInv'
  BY <1>1, DrawingKeeps DEF PickWord
<1>2. ASSUME StashGuess PROVE RoomInv'
  BY <1>2, <1>n, <1>t, PhaseKeeps DEF StashGuess
<1>3. ASSUME Guess PROVE RoomInv'
  <2>1. /\ guessed' = guessed \cup {msg.player} /\ msg.player \in seated
        /\ phase = "drawing"
        /\ UNCHANGED <<via, drawn, round, drawer, timeLeft, hadPlayer, latest>>
        /\ EnterRoundOver \/ UNCHANGED <<phase, armed>>
    BY <1>3 DEF Guess
  <2>2. guessed' \subseteq Players
    BY <1>t, <2>1, SeatedPlayers
  <2>3. CASE EnterRoundOver
    BY <1>t, <2>1, <2>2, <2>3, RoundOverKeeps
  <2>4. CASE UNCHANGED <<phase, armed>>
    BY <1>n, <1>t, <2>1, <2>2, <2>4, PhaseKeeps
  <2> QED
    BY <2>1, <2>3, <2>4
<1>4. ASSUME RestartGame PROVE RoomInv'
  <2>1. /\ phase = "gameOver" /\ guessed' = {} /\ timeLeft' = 0
        /\ UNCHANGED <<via, hadPlayer, latest>>
    BY <1>4 DEF RestartGame
  <2>2. CASE /\ phase' = "waiting" /\ round' = 0 /\ armed' = {}
             /\ drawer' = None /\ drawn' = {}
    <3>1. seated' = seated
      BY <2>1 DEF seated
    <3>2. timeLeft' \in 0 .. DrawSeconds /\ phase' \in Phases
      BY <2>1, <2>2, LimitsAssumption DEF Phases
    <3>3. TimersMatchPhase' /\ PhaseInv' /\ DrawerIsSeated'
      BY <2>2, <3>1 DEF RoomInv, TimersMatchPhase, PhaseInv, DrawerIsSeated
    <3> QED
      BY <2>1, <2>2, <3>1, <3>2, <3>3 DEF RoomInv
  <2>3. CASE /\ phase' = "choosing" /\ round' = 1 /\ armed' = {"choose"}
             /\ PickNextDrawer({})
    BY <2>1, <2>3, ChoosingKeeps
  <2> QED
    BY <1>4, <2>2, <2>3 DEF RestartGame
<1>5. ASSUME NEW r \in Nat, phase \in {"waiting", "roundOver"}, EnterChoosing(r),
             UNCHANGED <<via, hadPlayer, latest>>
      PROVE RoomInv'
  <2>1. round' \in Nat
    BY <1>5 DEF EnterChoosing
  <2>2. CASE /\ EnterGameOver(armed \ {"startgame"})
             /\ UNCHANGED <<drawn, drawer, guessed, timeLeft>>
    BY <1>5, <2>1, <2>2, GameOverKeeps
  <2>3. CASE /\ phase' = "choosing" /\ PickNextDrawer(drawn)
             /\ guessed' = {} /\ timeLeft' = 0
             /\ armed' = (armed \ {"startgame"}) \cup {"choose"}
    <3>1. armed' \subseteq (armed \ {"startgame", "shutdown"}) \cup {"choose"}
      BY <1>5, <2>3 DEF RoomInv, TimersMatchPhase
    <3> QED
      BY <1>5, <2>1, <2>3, <3>1, ChoosingKeeps
  <2> QED
    BY <1>5, <2>2, <2>3 DEF EnterChoosing
<1>6. ASSUME NextRound PROVE RoomInv'
  <2>1. UNCHANGED <<via, hadPlayer, latest>>
    BY <1>6 DEF NextRound
  <2>2. CASE phase = "waiting" /\ EnterChoosing(0)
    BY <1>5, <2>1, <2>2
  <2>3. CASE phase = "roundOver" /\ EnterChoosing(round)
    BY <1>5, <1>t, <2>1, <2>3
  <2>4. CASE /\ phase = "roundOver" /\ EnterGameOver(armed)
             /\ UNCHANGED <<round, drawn, drawer, guessed, timeLeft>>
    <3>1. "startgame" \notin armed
      BY <2>4 DEF RoomInv, TimersMatchPhase
    <3> QED
      BY <1>t, <2>1, <2>4, <3>1, GameOverKeeps
  <2> QED
    BY <1>6, <2>2, <2>3, <2>4 DEF NextRound
<1>7. ASSUME AutoPickFirst PROVE RoomInv'
  BY <1>7, DrawingKeeps DEF AutoPickFirst
<1>8. ASSUME TickCountdown PROVE RoomInv'
  <2>1. /\ phase = "drawing" /\ timeLeft' = timeLeft - 1
        /\ UNCHANGED <<via, drawn, round, drawer, guessed, hadPlayer, latest>>
        /\ IF timeLeft' <= 0 THEN EnterRoundOver ELSE UNCHANGED <<phase, armed>>
    BY <1>8 DEF TickCountdown
  <2>2. timeLeft' \in 0 .. DrawSeconds
    BY <1>t, <2>1, LimitsAssumption
  <2>3. CASE EnterRoundOver
    BY <1>t, <2>1, <2>2, <2>3, RoundOverKeeps
  <2>4. CASE UNCHANGED <<phase, armed>> /\ timeLeft' > 0
    BY <1>n, <1>t, <2>1, <2>2, <2>4, PhaseKeeps
  <2> QED
    BY <2>1, <2>2, <2>3, <2>4, LimitsAssumption
<1>9. ASSUME ShutdownRoom PROVE RoomInv'
  <2>1. phase' = "stopped" /\ armed' = {} /\ mailbox' = <<>> /\ UNCHANGED gameVars
    BY <1>9 DEF ShutdownRoom, Shutdown
  <2>2. seated' = seated
    BY <2>1 DEF seated
  <2> QED
    BY <2>1, <2>2
      DEF RoomInv, PhaseInv, DrawerIsSeated, TimersMatchPhase, Phases
<1>10. ASSUME Ignored PROVE RoomInv'
  BY <1>10, <1>n, <1>t, PhaseKeeps DEF Ignored
<1> QED
  BY <1>1, <1>2, <1>3, <1>4, <1>6, <1>7, <1>8, <1>9, <1>10, HelloKeeps, LeavingKeeps
    DEF Receive

\* A player loses his seat only to the end of the session he sits there with.
LEMMA SeatsKept ==
  ASSUME TypeOK, MailboxInv, SeatInv, Receive
  PROVE SeatInv'
<1>1. mailbox # <<>> /\ UNCHANGED sessionVars
  BY ReceiveStep
<1>2. CASE UNCHANGED <<via, latest>>
  BY <1>1, <1>2 DEF SeatInv, Sits
<1>3. CASE PlayerHello
  <2>1. PICK s \in Sessions : s = msg.session
    BY <1>1, <1>3, Taken, AboutSession DEF PlayerHello, Takes
  <2>2. CASE AddPlayer(s)
    <3>1. /\ via' = [via EXCEPT ![Owner[s]] = s]
          /\ latest' = [latest EXCEPT ![Owner[s]] = s]
          /\ Owner[s] \in Players
      BY <2>2, OwnerAssumption DEF AddPlayer
    <3> QED
      BY <1>1, <3>1 DEF SeatInv, Sits, TypeOK
  <2> QED
    BY <1>2, <1>3, <2>1, <2>2 DEF PlayerHello
<1>4. ASSUME NEW remaining \in SUBSET seated, Leaves(remaining)
      PROVE SeatInv'
  <2>1. PICK s \in Sessions : s = msg.session
    BY <1>1, <1>4, Taken, AboutSession DEF Leaves, Takes
  <2>2. socket[s] = "closed" \/ session[s] = "dead"
    BY <1>1, <1>4, <2>1, Taken DEF Leaves, Takes, MailboxInv, EndsTrue
  <2>3. /\ via' = [p \in Players |-> IF p \in remaining THEN via[p] ELSE None]
        /\ remaining = {p \in seated : via[p] # s}
        /\ latest' = latest
    BY <1>4, <2>1 DEF Leaves, Remaining
  <2>4. ASSUME NEW p \in Players PROVE Sits(p)'
    <3>1. CASE via[p] = latest[p] /\ latest[p] # None /\ latest[p] # s
      <4>1. p \in remaining
        BY <2>3, <3>1 DEF seated
      <4> QED
        BY <2>3, <3>1, <4>1 DEF Sits
    <3>2. CASE latest[p] = s
      BY <1>1, <2>2, <2>3, <3>2 DEF Sits
    <3>3. CASE latest[p] = None \/ via[p] # latest[p]
      BY <1>1, <2>3, <3>3 DEF Sits, SeatInv
    <3> QED
      BY <3>1, <3>2, <3>3
  <2> QED
    BY <2>4 DEF SeatInv
<1>5. \/ PlayerHello
      \/ \E remaining \in SUBSET seated : Leaves(remaining)
      \/ UNCHANGED <<via, latest>>
  BY DEF Receive, LastLeaves, LeavesWaiting, LeavesAndAborts, LeavesQuietly,
       PickWord, StashGuess, Guess, RestartGame, NextRound, AutoPickFirst,
       TickCountdown, ShutdownRoom, Ignored, EnterDrawing
<1> QED
  BY <1>2, <1>3, <1>4, <1>5

-----------------------------------------------------------------------------
(* The invariant is inductive *)

LEMMA InitInv == Init => IInv
<1> SUFFICES ASSUME Init PROVE IInv
  OBVIOUS
<1> USE DEF Init
<1>1. seated = {}
  BY DEF seated
<1>2. TypeOK
  <2>1. stash \in Seq(Players) /\ mailbox \in Seq(Messages)
    BY EmptySeq
  <2>2. phase \in Phases /\ armed \subseteq Timers /\ hadPlayer \in BOOLEAN
    BY DEF Phases
  <2>4. timeLeft \in 0 .. DrawSeconds /\ round \in Nat
    BY LimitsAssumption
  <2>3. /\ session \in [Sessions -> {"none", "starting", "joined", "dead"}]
        /\ socket \in [Sessions -> {"none", "open", "closed"}]
        /\ via \in [Players -> Sessions \cup {None}]
        /\ latest \in [Players -> Sessions \cup {None}]
    OBVIOUS
  <2> QED
    BY <1>1, <2>1, <2>2, <2>3, <2>4 DEF TypeOK
<1>3. MailboxInv /\ SessionInv /\ SeatInv
  BY EmptySeq DEF MailboxInv, SessionInv, SeatInv, Sits
<1>4. PhaseInv
  BY <1>1, FS_EmptySet DEF PhaseInv
<1>5. DrawerIsSeated /\ TimersMatchPhase
  BY DEF DrawerIsSeated, TimersMatchPhase
<1> QED
  BY <1>2, <1>3, <1>4, <1>5 DEF IInv

LEMMA NextInv == IInv /\ [Next]_vars => IInv'
<1> SUFFICES ASSUME IInv, [Next]_vars PROVE IInv'
  OBVIOUS
<1> USE DEF IInv
<1>r. RoomInv
  BY DEF RoomInv, TypeOK, MailboxInv
<1>1. CASE Receive
  <2>1. /\ UNCHANGED sessionVars /\ MailStep
        /\ stash' \in Seq(Players) /\ watched' \subseteq Sessions
    BY <1>1, ReceiveStep
  <2>2. RoomInv'
    BY <1>1, <1>r, RoomKept
  <2>3. TypeOK'
    BY <2>1, <2>2 DEF TypeOK, RoomInv, MailStep
  <2>4. MailboxInv'
    BY <2>1, <2>2 DEF RoomInv, MailboxInv, MailStep
  <2>5. SessionInv'
    BY <2>1 DEF SessionInv
  <2>6. SeatInv'
    BY <1>1, SeatsKept
  <2> QED
    BY <2>2, <2>3, <2>4, <2>5, <2>6 DEF RoomInv
<1>2. CASE \/ \E timer \in Timers : Fire(timer)
           \/ \E s \in Sessions :
                \/ Connect(s) \/ SessionStart(s) \/ CloseSocket(s) \/ SessionStop(s)
                \/ \E input \in InputTypes : SessionInput(s, input)
  <2>1. OutsideStep
    BY <1>2, OutsideSteps
  <2>2. seated' = seated
    BY <2>1 DEF OutsideStep, seated
  <2>3. TypeOK'
    BY <2>1, <2>2 DEF OutsideStep, MailStep, TypeOK
  <2>4. MailboxInv'
    <3>1. ASSUME NEW i \in 1 .. Len(mailbox')
          PROVE EndsTrue(mailbox'[i], socket', session')
      <4>1. CASE EndsTrue(mailbox'[i], socket', session')
        BY <4>1
      <4>2. CASE \E j \in 1 .. Len(mailbox) : mailbox'[i] = mailbox[j]
        <5>1. PICK j \in 1 .. Len(mailbox) : mailbox'[i] = mailbox[j]
          BY <4>2
        <5>2. mailbox[j] \in Messages /\ EndsTrue(mailbox[j], socket, session)
          BY ElementOfSeq DEF TypeOK, MailboxInv
        <5>3. mailbox[j].type \in {"GoodbyePlayer", "Terminated"} =>
                mailbox[j].session \in Sessions
          BY <5>2, AboutSession
        <5> QED
          BY <2>1, <5>1, <5>2, <5>3 DEF EndsTrue, OutsideStep
      <4> QED
        BY <2>1, <4>1, <4>2 DEF OutsideStep, MailStep
    <3>2. phase' = "stopped" => mailbox' = <<>> /\ armed' = {}
      BY <2>1 DEF OutsideStep, MailboxInv
    <3> QED
      BY <3>1, <3>2 DEF MailboxInv
  <2>5. PhaseInv' /\ DrawerIsSeated' /\ TimersMatchPhase'
    BY <2>1, <2>2 DEF OutsideStep, PhaseInv, DrawerIsSeated, TimersMatchPhase
  <2>6. SessionInv'
    BY <2>1 DEF OutsideStep, SessionInv
  <2>7. SeatInv'
    <3>1. \A p \in Players : latest[p] \in Sessions \cup {None}
      BY DEF TypeOK
    <3> QED
      BY <2>1, <3>1 DEF OutsideStep, SeatInv, Sits
  <2> QED
    BY <2>3, <2>4, <2>5, <2>6, <2>7
<1>3. CASE UNCHANGED vars
  <2>1. seated' = seated
    BY <1>3 DEF seated
  <2> QED
    BY <1>3, <2>1 DEF TypeOK, MailboxInv, PhaseInv, SessionInv, SeatInv, Sits,
         DrawerIsSeated, TimersMatchPhase
<1> QED
  BY <1>1, <1>2, <1>3 DEF Next

-----------------------------------------------------------------------------
(* The theorems *)

\* The strengthened invariant holds in every state of the room, its sessions
\* and the gateway.
THEOREM Invariance == Spec => []IInv
BY InitInv, NextInv, PTL DEF Spec

\* The variables of the room keep their types; a seated player is never among
\* those who have drawn without being at the table, and the time that is left
\* never falls below zero (TickCountdown).
THEOREM TypeCorrect == Spec => []TypeOK
<1>1. IInv => TypeOK
  BY DEF IInv
<1> QED
  BY <1>1, Invariance, PTL

\* The drawer of a running round is at the table (pickNextDrawer,
\* maybeAbortRound, restartGame).
THEOREM DrawerSeated == Spec => []DrawerIsSeated
<1>1. IInv => DrawerIsSeated
  BY DEF IInv
<1> QED
  BY <1>1, Invariance, PTL

\* No timer runs outside the phase it was set for (enterRoundOver, restartGame,
\* cancelGatherIfBelowMin, PostStop).
THEOREM TimersBelongToPhase == Spec => []TimersMatchPhase
<1>1. IInv => TimersMatchPhase
  BY DEF IInv
<1> QED
  BY <1>1, Invariance, PTL

\* A player whose last admitted session is connected keeps his seat, whatever
\* the mailbox still holds about his older sessions (addPlayer,
\* removePlayerByName, removePlayerByPath).
THEOREM ConnectedKeepSeat == Spec => []ConnectedStaySeated
<1>1. IInv => ConnectedStaySeated
  <2> SUFFICES ASSUME IInv, NEW p \in Players, latest[p] # None,
                      socket[latest[p]] = "open", session[latest[p]] = "joined"
               PROVE p \in seated
    BY DEF ConnectedStaySeated
  <2>1. Sits(p)
    BY DEF IInv, SeatInv
  <2> QED
    BY <2>1 DEF Sits, seated
<1> QED
  BY <1>1, Invariance, PTL
=============================================================================
