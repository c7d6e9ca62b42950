--------------------------- MODULE SystemsProofs ---------------------------
(***************************************************************************)
(* Proofs about the systems of Systems, each for every value of its        *)
(* constants: the lobbies of the games, the AI agents, the tetris board    *)
(* and the results of the games.                                           *)
(***************************************************************************)
EXTENDS Systems, SumTheorems, SequenceTheorems, TLAPS

-----------------------------------------------------------------------------
(***************************************************************************)
(* The lobbies.  What a gateway was answered, and where its player sits,   *)
(* is a room named after the code; and of a short code, as long as the     *)
(* lobby has not lost its directory, the room the directory has for it.    *)
(* L is the set of languages, which is {None} for goakt-pictograph.        *)
(***************************************************************************)
RoomNames(L) == [language : L, code : Lobby!AllCodes]
Answers(L) == {e \in [code : Lobby!AllCodes, room : RoomNames(L)] : e.room.code = e.code}

\* An answer is the directory's, unless it is about a long code.
InDirectory(e, dir) ==
  e.code \notin LongCodes => e.code \in DOMAIN dir /\ dir[e.code] = e.room

LobbyInv(L) ==
  /\ request \in [Visitors -> Answers(L) \cup {None}]
  /\ seat \in [Visitors -> Answers(L) \cup {None}]
  /\ \A c \in DOMAIN rooms : rooms[c] \in RoomNames(L) /\ rooms[c].code = c
  /\ ~restarted => \A p \in Visitors :
       /\ request[p] # None => InDirectory(request[p], rooms)
       /\ seat[p] # None => InDirectory(seat[p], rooms)

LEMMA LobbyStarts ==
  ASSUME Lobby!Init, NEW L PROVE LobbyInv(L)
<1>1. DOMAIN rooms = {}
  BY DEF Lobby!Init
<1> QED
  BY <1>1 DEF Lobby!Init, LobbyInv

\* The lobby answers with a room the directory has, or has now.
LEMMA AnswerKeeps ==
  ASSUME NEW L, LobbyInv(L), NEW p \in Visitors, NEW code \in Lobby!AllCodes,
         NEW name \in RoomNames(L), name.code = code, Lobby!Answer(p, code, name),
         UNCHANGED <<seat, restarted>>,
         \A c \in DOMAIN rooms' : rooms'[c] \in RoomNames(L) /\ rooms'[c].code = c,
         \A c \in DOMAIN rooms \ LongCodes : c \in DOMAIN rooms' /\ rooms'[c] = rooms[c],
         code \notin LongCodes => code \in DOMAIN rooms' /\ rooms'[code] = name
  PROVE  LobbyInv(L)'
<1>1. PICK e \in Answers(L) : e = [code |-> code, room |-> name]
  BY DEF Answers
<1>2. request' = request \/ request' = [request EXCEPT ![p] = e]
  BY <1>1 DEF Lobby!Answer
<1>3. request' \in [Visitors -> Answers(L) \cup {None}]
  BY <1>1, <1>2 DEF LobbyInv
<1>4. ASSUME NEW d, InDirectory(d, rooms) PROVE InDirectory(d, rooms')
  BY <1>4 DEF InDirectory
<1>5. InDirectory(e, rooms')
  BY <1>1 DEF InDirectory
<1>6. ASSUME ~restarted, NEW q \in Visitors, request'[q] # None
      PROVE  InDirectory(request'[q], rooms')
  <2>1. CASE request'[q] = request[q]
    BY <1>4, <1>6, <2>1 DEF LobbyInv
  <2>2. CASE request'[q] = e
    BY <1>5, <2>2
  <2> QED
    BY <1>2, <2>1, <2>2 DEF LobbyInv
<1>7. ASSUME ~restarted, NEW q \in Visitors, seat[q] # None
      PROVE  InDirectory(seat[q], rooms')
  BY <1>4, <1>7 DEF LobbyInv
<1> QED
  BY <1>3, <1>6, <1>7 DEF LobbyInv

\* A code of the directory is answered with its room.
LEMMA KnownCodeKeeps ==
  ASSUME NEW L, LobbyInv(L), NEW p \in Visitors, NEW code \in Lobby!AllCodes,
         Lobby!KnownCode(p, code), UNCHANGED <<seat, restarted>>
  PROVE  LobbyInv(L)'
<1>1. /\ rooms' = rooms
      /\ code \in DOMAIN rooms
      /\ rooms[code] \in RoomNames(L) /\ rooms[code].code = code
      /\ Lobby!Answer(p, code, rooms[code])
  BY DEF Lobby!KnownCode, LobbyInv
<1>2. \A c \in DOMAIN rooms' : rooms'[c] \in RoomNames(L) /\ rooms'[c].code = c
  BY <1>1 DEF LobbyInv
<1> DEFINE name == rooms[code]
<1> HIDE DEF name
<1>3. /\ name \in RoomNames(L) /\ name.code = code
      /\ Lobby!Answer(p, code, name)
      /\ code \notin LongCodes => code \in DOMAIN rooms' /\ rooms'[code] = name
  BY <1>1 DEF name
<1> QED
  BY <1>1, <1>2, <1>3, AnswerKeeps

\* A room is spawned for a code the directory does not have, or a long one.
LEMMA SpawnRoomKeeps ==
  ASSUME NEW L, LobbyInv(L), NEW p \in Visitors, NEW language \in L,
         NEW code \in Lobby!AllCodes, code \notin DOMAIN rooms \/ code \in LongCodes,
         Lobby!SpawnRoom(p, code, Lobby!Room(language, code)),
         UNCHANGED <<seat, restarted>>
  PROVE  LobbyInv(L)'
<1> DEFINE name == Lobby!Room(language, code)
<1>1. name \in RoomNames(L) /\ name.code = code
  BY DEF Lobby!Room, RoomNames
<1> HIDE DEF name
<1>2. /\ rooms' = [c \in DOMAIN rooms \cup {code} |-> IF c = code THEN name ELSE rooms[c]]
      /\ Lobby!Answer(p, code, name)
  BY DEF name, Lobby!SpawnRoom
<1>3. \A c \in DOMAIN rooms' : rooms'[c] \in RoomNames(L) /\ rooms'[c].code = c
  BY <1>1, <1>2 DEF LobbyInv
<1>4. \A c \in DOMAIN rooms \ LongCodes : c \in DOMAIN rooms' /\ rooms'[c] = rooms[c]
  BY <1>2
<1>5. code \in DOMAIN rooms' /\ rooms'[code] = name
  BY <1>2
<1> QED
  BY <1>1, <1>2, <1>3, <1>4, <1>5, AnswerKeeps

\* A session takes a seat in the room its gateway was answered, answers are
\* given up and seats are left, rooms stop, and the directory is lost.
LEMMA CommonKeeps ==
  ASSUME NEW L, LobbyInv(L), Lobby!Common
  PROVE  LobbyInv(L)'
<1>1. ASSUME NEW p \in Visitors, Lobby!ResolveRoom(p) PROVE LobbyInv(L)'
  BY <1>1 DEF Lobby!ResolveRoom, LobbyInv
<1>2. ASSUME NEW p \in Visitors, Lobby!ResolveFails(p) PROVE LobbyInv(L)'
  BY <1>2 DEF Lobby!ResolveFails, LobbyInv
<1>3. ASSUME NEW p \in Visitors, Lobby!Disconnect(p) PROVE LobbyInv(L)'
  BY <1>3 DEF Lobby!Disconnect, LobbyInv
<1>4. ASSUME Lobby!RoomStops PROVE LobbyInv(L)'
  BY <1>4 DEF Lobby!RoomStops, LobbyInv
<1>5. ASSUME Lobby!LobbyFailsOver PROVE LobbyInv(L)'
  <2>1. DOMAIN rooms' = {} /\ restarted'
    BY <1>5 DEF Lobby!LobbyFailsOver
  <2> QED
    BY <1>5, <2>1 DEF Lobby!LobbyFailsOver, LobbyInv
<1> QED
  BY <1>1, <1>2, <1>3, <1>4, <1>5 DEF Lobby!Common

LEMMA ScrabbleLobbyKeeps ==
  ASSUME LobbyInv(Languages), [Lobby!NextScrabble]_(Lobby!vars)
  PROVE  LobbyInv(Languages)'
<1>1. ASSUME NEW p \in Visitors, Lobby!JoinOrCreate(p) PROVE LobbyInv(Languages)'
  <2>1. ASSUME NEW code \in Lobby!AllCodes, Lobby!KnownCode(p, code)
        PROVE  LobbyInv(Languages)'
    BY <1>1, <2>1, KnownCodeKeeps DEF Lobby!JoinOrCreate
  <2>2. ASSUME NEW language \in Languages,
               NEW code \in (Lobby!AllCodes \ DOMAIN rooms) \cup Lobby!GeneratedCodes,
               Lobby!SpawnRoom(p, code, Lobby!Room(language, code))
        PROVE  LobbyInv(Languages)'
    <3>1. code \in Lobby!AllCodes /\ (code \notin DOMAIN rooms \/ code \in LongCodes)
      BY DEF Lobby!GeneratedCodes, Lobby!AllCodes
    <3> QED
      BY <1>1, <2>2, <3>1, SpawnRoomKeeps DEF Lobby!JoinOrCreate
  <2> QED
    BY <1>1, <2>1, <2>2 DEF Lobby!JoinOrCreate
<1>2. ASSUME UNCHANGED Lobby!vars PROVE LobbyInv(Languages)'
  BY <1>2 DEF Lobby!vars, LobbyInv
<1> QED
  BY <1>1, <1>2, CommonKeeps DEF Lobby!NextScrabble

LEMMA PictographLobbyKeeps ==
  ASSUME LobbyInv({None}), [Lobby!NextPictograph]_(Lobby!vars)
  PROVE  LobbyInv({None})'
<1>1. ASSUME NEW p \in Visitors, Lobby!JoinOrCreateDrawing(p) PROVE LobbyInv({None})'
  <2>1. ASSUME NEW code \in Lobby!AllCodes, Lobby!KnownCode(p, code)
        PROVE  LobbyInv({None})'
    BY <1>1, <2>1, KnownCodeKeeps DEF Lobby!JoinOrCreateDrawing
  <2>2. ASSUME NEW code \in (Lobby!AllCodes \ DOMAIN rooms) \cup Lobby!GeneratedCodes,
               Lobby!SpawnRoom(p, code, Lobby!Room(None, code))
        PROVE  LobbyInv({None})'
    <3>1. code \in Lobby!AllCodes /\ (code \notin DOMAIN rooms \/ code \in LongCodes)
      BY DEF Lobby!GeneratedCodes, Lobby!AllCodes
    <3> QED
      BY <1>1, <2>2, <3>1, SpawnRoomKeeps DEF Lobby!JoinOrCreateDrawing
  <2> QED
    BY <1>1, <2>1, <2>2 DEF Lobby!JoinOrCreateDrawing
<1>2. ASSUME UNCHANGED Lobby!vars PROVE LobbyInv({None})'
  BY <1>2 DEF Lobby!vars, LobbyInv
<1> QED
  BY <1>1, <1>2, CommonKeeps DEF Lobby!NextPictograph

\* Two players with one code: what they are seated in are rooms of that code,
\* and the directory's one while it has not been lost and the code is short.
LEMMA SeatsAgree ==
  ASSUME NEW L, LobbyInv(L) PROVE CodeMeansRoom
<1> SUFFICES ASSUME NEW p \in Visitors, NEW q \in Visitors, seat[p] # None, seat[q] # None,
                    seat[p].code = seat[q].code, seat[p].room # seat[q].room
             PROVE  /\ restarted \/ seat[p].code \in LongCodes
                    /\ seat[p].room.language # seat[q].room.language
  BY DEF CodeMeansRoom, Lobby!CodeMeansRoom
<1>1. restarted \/ seat[p].code \in LongCodes
  BY DEF LobbyInv, InDirectory
<1>2. /\ seat[p].room \in RoomNames(L) /\ seat[p].room.code = seat[p].code
      /\ seat[q].room \in RoomNames(L) /\ seat[q].room.code = seat[q].code
  BY DEF LobbyInv, Answers
<1>3. seat[p].room.language # seat[q].room.language
  BY <1>2 DEF RoomNames
<1> QED
  BY <1>1, <1>3

\* goakt-scrabble: players who came with one code are in one room, but for a
\* lobby that lost its directory and long codes (handleJoinOrCreate).
THEOREM ScrabbleCodes == Lobby!SpecScrabble => []CodeMeansRoom
<1>1. Lobby!Init => LobbyInv(Languages)
  BY LobbyStarts
<1>2. LobbyInv(Languages) /\ [Lobby!NextScrabble]_(Lobby!vars) => LobbyInv(Languages)'
  BY ScrabbleLobbyKeeps
<1>3. LobbyInv(Languages) => CodeMeansRoom
  BY SeatsAgree
<1> QED
  BY <1>1, <1>2, <1>3, PTL DEF Lobby!SpecScrabble

\* Players who came with one code are in one room, also when the lobby has lost
\* its directory meanwhile.
OneRoomPerCode ==
  \A p, q \in {r \in Visitors : seat[r] # None} :
    seat[p].code = seat[q].code => seat[p].room = seat[q].room

\* goakt-pictograph: rooms are named after their codes alone, and players who
\* came with one code are in one room even after the lobby lost its directory
\* and when a code is used again (handleJoinOrCreate).
THEOREM PictographCodes == Lobby!SpecPictograph => [](CodeMeansRoom /\ OneRoomPerCode)
<1>1. Lobby!Init => LobbyInv({None})
  BY LobbyStarts
<1>2. LobbyInv({None}) /\ [Lobby!NextPictograph]_(Lobby!vars) => LobbyInv({None})'
  BY PictographLobbyKeeps
<1>3. LobbyInv({None}) => CodeMeansRoom
  BY SeatsAgree
<1>4. ASSUME LobbyInv({None}) PROVE OneRoomPerCode
  <2> SUFFICES ASSUME NEW p \in Visitors, NEW q \in Visitors, seat[p] # None, seat[q] # None,
                      seat[p].code = seat[q].code
               PROVE  seat[p].room = seat[q].room
    BY DEF OneRoomPerCode
  <2>1. /\ seat[p].room \in RoomNames({None}) /\ seat[p].room.code = seat[p].code
        /\ seat[q].room \in RoomNames({None}) /\ seat[q].room.code = seat[q].code
    BY <1>4 DEF LobbyInv, Answers
  <2> QED
    BY <2>1 DEF RoomNames
<1> QED
  BY <1>1, <1>2, <1>3, <1>4, PTL DEF Lobby!SpecPictograph

-----------------------------------------------------------------------------
(***************************************************************************)
(* The AI agents.  A query waits, is handled by the orchestrator of its pod*)
(* or is done with; what has been asked of an agent for it, and how often  *)
(* it was worked on, follows from where it is.                           *)
(***************************************************************************)
Messages == [query : Queries, pod : Pods, retry : BOOLEAN]

Outcomes == {"model", "tool", "canned", "error"}

AgentTypes ==
  /\ answer \in [Queries -> Outcomes \cup {"none"}]
  /\ pod \in [Queries -> Pods \cup {None}]
  /\ mailbox \in [Pods -> Seq(Queries)]
  /\ handling \in [Pods -> Queries \cup {None}]
  /\ step \in [Pods -> {"none", "locate", "spawn", "ask", "direct"}]
  /\ kind \in [Pods -> AgentKinds \cup {None}]
  /\ retrying \in [Pods -> BOOLEAN]
  /\ registry \in [AgentKinds -> Pods \cup {None}]
  /\ agent \in [AgentKinds -> Pods \cup {None}]
  /\ requests \in [AgentKinds -> SUBSET Messages]
  /\ processed \in [Queries -> Nat]
  /\ outcomes \in [Queries -> SUBSET Outcomes]
  /\ queryDisturbed \in [Queries -> BOOLEAN]

\* No request of the query is under way, and there has been none.
NotRequested(q) == \A k \in AgentKinds : \A r \in requests[k] : r.query # q
Untouched(q) == processed[q] = 0 /\ NotRequested(q)

\* A query is in one place, at its pod.
Placed ==
  \A p \in Pods :
    /\ handling[p] = None <=> step[p] = "none"
    /\ handling[p] = None => ~retrying[p]
    /\ handling[p] # None => kind[p] \in AgentKinds /\ pod[handling[p]] = p
    /\ \A i \in 1 .. Len(mailbox[p]) :
         /\ pod[mailbox[p][i]] = p
         /\ mailbox[p][i] # handling[p]
         /\ \A j \in 1 .. Len(mailbox[p]) : mailbox[p][i] = mailbox[p][j] => i = j

\* A query that waits has not been worked on, and has an answer only because it
\* was given up.
Waiting ==
  /\ \A q \in Queries : pod[q] = None => answer[q] = "none" /\ Untouched(q)
  /\ \A p \in Pods : \A i \in 1 .. Len(mailbox[p]) :
       /\ Untouched(mailbox[p][i])
       /\ answer[mailbox[p][i]] # "none" => queryDisturbed[mailbox[p][i]]

\* How far a query can have come at the steps of handleSubmitQuery.
StageOf(p, q) ==
  /\ answer[q] # "none" => queryDisturbed[q]
  /\ retrying[p] => queryDisturbed[q] /\ step[p] # "direct"
  /\ ~retrying[p] /\ step[p] # "ask" => Untouched(q)
  /\ ~retrying[p] /\ step[p] = "ask" => processed[q] = 0
  /\ retrying[p] /\ step[p] # "ask" => processed[q] <= 1
  /\ \A k \in AgentKinds : \A r \in requests[k] : r.query = q =>
       /\ k = kind[p]
       /\ ~retrying[p] => ~r.retry
       /\ retrying[p] /\ step[p] # "ask" => ~r.retry /\ processed[q] = 0
  /\ step[p] = "ask" /\ ~queryDisturbed[q] => Agents!Request(p) \in requests[kind[p]]

Handled == \A p \in Pods : handling[p] # None => StageOf(p, handling[p])

\* A query has at most two requests, both of one agent, and each of them will add
\* one to what it has been worked on.
RequestsCounted ==
  \A k \in AgentKinds : \A r \in requests[k] :
    /\ pod[r.query] = r.pod
    /\ processed[r.query] <= 1
    /\ \A l \in AgentKinds : \A s \in requests[l] : s.query = r.query =>
         /\ l = k
         /\ s # r => processed[r.query] = 0

Answered ==
  \A q \in Queries : answer[q] # "none" /\ ~queryDisturbed[q] => NotRequested(q)

\* What QueriesAnswered says of every query, with or without a client for a model.
Accounted ==
  \A q \in Queries :
    /\ answer[q] = "error" => queryDisturbed[q] \/ "error" \in outcomes[q]
    /\ answer[q] \in Agents!Results => answer[q] \in outcomes[q]
    /\ answer[q] # "none" /\ ~queryDisturbed[q] => processed[q] = 1
    /\ processed[q] <= 2

AgentsInv ==
  /\ AgentTypes /\ Placed /\ Waiting /\ Handled /\ RequestsCounted /\ Answered
  /\ Accounted

\* What an agent answers (handleProcessQuery).
LEMMA OutcomesOfAgents ==
  ASSUME NEW k \in AgentKinds PROVE Agents!Answers(k) \subseteq Outcomes
BY DEF Agents!Answers, Agents!Completions, Outcomes

LEMMA AgentsStart ==
  ASSUME Agents!Init PROVE AgentsInv
<1>1. AgentTypes
  BY DEF Agents!Init, AgentTypes
<1>2. \A p \in Pods : Len(mailbox[p]) = 0
  BY DEF Agents!Init
<1> QED
  BY <1>1, <1>2 DEF Agents!Init, AgentsInv, Placed, Waiting, Handled, RequestsCounted, Answered,
     Accounted, Untouched, NotRequested, Agents!Results, Outcomes

\* A failure is felt by every query that waits or is handled.
LEMMA FaultFelt ==
  ASSUME AgentsInv, Agents!Fault
  PROVE  /\ queryDisturbed' \in [Queries -> BOOLEAN]
         /\ \A q \in Queries : queryDisturbed[q] => queryDisturbed'[q]
         /\ \A q \in Queries : pod[q] # None /\ answer[q] = "none" => queryDisturbed'[q]
         /\ \A p \in Pods : handling[p] # None => queryDisturbed'[handling[p]]
<1>1. queryDisturbed' = [q \in Queries |-> queryDisturbed[q] \/ q \in Agents!UnderWay]
  BY DEF Agents!Fault
<1>2. \A p \in Pods : handling[p] # None =>
        handling[p] \in Queries /\ pod[handling[p]] = p /\ p # None
        /\ (answer[handling[p]] # "none" => queryDisturbed[handling[p]])
  BY AgentsAssumption DEF AgentsInv, AgentTypes, Placed, Handled, StageOf
<1> QED
  BY <1>1, <1>2 DEF Agents!UnderWay, AgentsInv, AgentTypes

\* Two orchestrators do not handle the same query.
LEMMA HandledOnce ==
  ASSUME AgentsInv, NEW p \in Pods, NEW o \in Pods, handling[p] # None,
         handling[p] = handling[o]
  PROVE  p = o
  BY DEF AgentsInv, Placed

\* A query arrives (handleQuery): nobody has heard of it before.
LEMMA SubmitKeeps ==
  ASSUME AgentsInv, NEW q \in Queries, NEW p \in Pods, Agents!Submit(q, p)
  PROVE  AgentsInv'
<1>1. /\ pod[q] = None /\ pod' = [pod EXCEPT ![q] = p]
      /\ mailbox' = [mailbox EXCEPT ![p] = Append(mailbox[p], q)]
      /\ UNCHANGED <<answer, handling, step, kind, retrying, registry, agent, requests,
                     processed, outcomes, queryDisturbed>>
  BY DEF Agents!Submit, Agents!clusterVars
<1>2. p # None /\ answer[q] = "none" /\ Untouched(q)
  BY <1>1, AgentsAssumption DEF AgentsInv, Waiting
<1>3. AgentTypes'
  BY <1>1 DEF AgentsInv, AgentTypes
<1>4. \A o \in Pods : handling[o] # q
  BY <1>1, AgentsAssumption DEF AgentsInv, Placed
<1>5. \A o \in Pods : \A i \in 1 .. Len(mailbox[o]) : mailbox[o][i] # q
  BY <1>1, AgentsAssumption DEF AgentsInv, Placed
<1>6. ASSUME NEW o \in Pods, NEW i \in 1 .. Len(mailbox'[o])
      PROVE  \/ i \in 1 .. Len(mailbox[o]) /\ mailbox'[o][i] = mailbox[o][i]
             \/ o = p /\ i = Len(mailbox[p]) + 1 /\ mailbox'[o][i] = q
  BY <1>1 DEF AgentsInv, AgentTypes
<1>7. Placed'
  <2>1. \A o \in Pods :
          /\ handling'[o] = None <=> step'[o] = "none"
          /\ handling'[o] = None => ~retrying'[o]
          /\ handling'[o] # None => kind'[o] \in AgentKinds /\ pod'[handling'[o]] = o
    BY <1>1, <1>4 DEF AgentsInv, Placed, AgentTypes
  <2>2. ASSUME NEW o \in Pods, NEW i \in 1 .. Len(mailbox'[o])
        PROVE  pod'[mailbox'[o][i]] = o /\ mailbox'[o][i] # handling'[o]
    BY <1>1, <1>4, <1>5, <1>6 DEF AgentsInv, Placed, AgentTypes
  <2>3. ASSUME NEW o \in Pods, NEW i \in 1 .. Len(mailbox'[o]), NEW j \in 1 .. Len(mailbox'[o]),
               mailbox'[o][i] = mailbox'[o][j]
        PROVE  i = j
    <3>1. (i \in 1 .. Len(mailbox[o]) /\ j \in 1 .. Len(mailbox[o])) \/ i = j
      BY <1>5, <1>6, <2>3
    <3>2. CASE i \in 1 .. Len(mailbox[o]) /\ j \in 1 .. Len(mailbox[o])
      <4>1. mailbox[o][i] = mailbox[o][j]
        BY <1>1, <2>3, <3>2 DEF AgentsInv, AgentTypes
      <4> QED
        BY <3>2, <4>1 DEF AgentsInv, Placed
    <3> QED
      BY <3>1, <3>2
  <2> QED
    BY <2>1, <2>2, <2>3 DEF Placed
<1>8. Waiting'
  <2>1. \A r \in Queries : pod'[r] = None => answer'[r] = "none" /\ Untouched(r)'
    BY <1>1, <1>2 DEF AgentsInv, Waiting, AgentTypes, Untouched, NotRequested
  <2>2. ASSUME NEW o \in Pods, NEW i \in 1 .. Len(mailbox'[o])
        PROVE  /\ Untouched(mailbox[o][i])'
               /\ answer'[mailbox'[o][i]] # "none" => queryDisturbed'[mailbox'[o][i]]
    BY <1>1, <1>2, <1>6 DEF AgentsInv, Waiting, Untouched, NotRequested
  <2> QED
    BY <2>1, <2>2 DEF Waiting
<1>9. Handled'
  <2>1. ASSUME NEW o \in Pods, handling'[o] # None PROVE StageOf(o, handling[o])'
    <3>1. StageOf(o, handling[o])
      BY <1>1, <2>1 DEF AgentsInv, Handled
    <3> QED
      BY <1>1, <3>1 DEF StageOf, Agents!Request, Untouched, NotRequested
  <2> QED
    BY <2>1 DEF Handled
<1>10. RequestsCounted'
  BY <1>1, <1>2 DEF AgentsInv, RequestsCounted, Untouched, NotRequested, AgentTypes, Messages
<1>11. Answered' /\ Accounted'
  BY <1>1 DEF AgentsInv, Answered, NotRequested, Accounted
<1> QED
  BY <1>3, <1>7, <1>8, <1>9, <1>10, <1>11 DEF AgentsInv

\* What does not concern a query that is handled leaves it at its stage.
LEMMA StageKeeps ==
  ASSUME NEW o \in Pods, NEW r, StageOf(o, r), handling[o] = r, handling'[o] = r,
         step'[o] = step[o], kind'[o] = kind[o], kind[o] \in AgentKinds,
         retrying'[o] = retrying[o], retrying[o] \in BOOLEAN,
         queryDisturbed[r] => queryDisturbed'[r],
         answer'[r] # "none" => queryDisturbed'[r],
         processed'[r] = processed[r],
         \A k \in AgentKinds : requests'[k] \subseteq Messages,
         \A k \in AgentKinds : \A s \in requests'[k] : s.query = r => s \in requests[k],
         queryDisturbed'[r] \/ \A k \in AgentKinds : \A s \in requests[k] :
                                 s.query = r => s \in requests'[k]
  PROVE  StageOf(o, r)'
<1>1. Agents!Request(o)' = Agents!Request(o) /\ Agents!Request(o).query = r
  BY DEF Agents!Request
<1>2. (~retrying[o] /\ step[o] # "ask" => Untouched(r))'
  BY DEF StageOf, Untouched, NotRequested
<1>3. (\A k \in AgentKinds : \A s \in requests[k] : s.query = r =>
        /\ k = kind[o]
        /\ ~retrying[o] => ~s.retry
        /\ retrying[o] /\ step[o] # "ask" => ~s.retry /\ processed[r] = 0)'
  BY DEF StageOf
<1>4. (step[o] = "ask" /\ ~queryDisturbed[r] => Agents!Request(o) \in requests[kind[o]])'
  <2> SUFFICES ASSUME step[o] = "ask", ~queryDisturbed'[r]
               PROVE  Agents!Request(o) \in requests'[kind[o]]
    BY <1>1
  <2>1. Agents!Request(o) \in requests[kind[o]]
    BY DEF StageOf
  <2> QED
    BY <1>1, <2>1
<1> QED
  BY <1>2, <1>3, <1>4 DEF StageOf

\* The queries an orchestrator does not handle stay where they are while it goes
\* on with its own.
LEMMA OthersKeep ==
  ASSUME AgentsInv, AgentTypes', NEW p \in Pods, handling[p] # None,
         UNCHANGED <<pod, mailbox>>,
         \A o \in Pods \ {p} : /\ handling'[o] = handling[o] /\ step'[o] = step[o]
                               /\ kind'[o] = kind[o] /\ retrying'[o] = retrying[o],
         \A q \in Queries \ {handling[p]} :
           /\ answer'[q] = answer[q] /\ processed'[q] = processed[q]
           /\ outcomes'[q] = outcomes[q]
           /\ \A k \in AgentKinds : \A s \in Messages :
                s.query = q => (s \in requests'[k] <=> s \in requests[k]),
         \A q \in Queries : queryDisturbed[q] => queryDisturbed'[q]
  PROVE  /\ Waiting'
         /\ \A o \in Pods \ {p} : handling'[o] # None => StageOf(o, handling[o])'
         /\ \A q \in Queries \ {handling[p]} :
              /\ answer'[q] # "none" /\ ~queryDisturbed'[q] =>
                   NotRequested(q)' /\ processed'[q] = 1
              /\ answer'[q] = "error" => queryDisturbed'[q] \/ "error" \in outcomes'[q]
              /\ answer'[q] \in Agents!Results => answer'[q] \in outcomes'[q]
              /\ processed'[q] <= 2
         /\ \A k \in AgentKinds : \A r \in requests'[k] : r.query # handling[p] =>
              /\ pod'[r.query] = r.pod
              /\ processed'[r.query] <= 1
              /\ \A l \in AgentKinds : \A s \in requests'[l] : s.query = r.query =>
                   /\ l = k
                   /\ s # r => processed'[r.query] = 0
<1>1. handling[p] \in Queries /\ pod[handling[p]] = p /\ p # None
  BY AgentsAssumption DEF AgentsInv, AgentTypes, Placed
<1>2. \A k \in AgentKinds : requests[k] \subseteq Messages /\ requests'[k] \subseteq Messages
  BY DEF AgentsInv, AgentTypes
<1>3. ASSUME NEW q \in Queries \ {handling[p]}
      PROVE  (Untouched(q) => Untouched(q)') /\ (NotRequested(q) => NotRequested(q)')
  BY <1>2 DEF Untouched, NotRequested
<1>4. ASSUME NEW o \in Pods, NEW i \in 1 .. Len(mailbox[o])
      PROVE  mailbox[o][i] \in Queries \ {handling[p]}
  BY <1>1 DEF AgentsInv, AgentTypes, Placed
<1>5. Waiting'
  <2>1. \A q \in Queries : pod'[q] = None => answer'[q] = "none" /\ Untouched(q)'
    BY <1>1, <1>3 DEF AgentsInv, Waiting
  <2>2. ASSUME NEW o \in Pods, NEW i \in 1 .. Len(mailbox'[o])
        PROVE  /\ Untouched(mailbox[o][i])'
               /\ answer'[mailbox'[o][i]] # "none" => queryDisturbed'[mailbox'[o][i]]
    <3>1. PICK q \in Queries \ {handling[p]} : q = mailbox[o][i] /\ q = mailbox'[o][i]
      BY <1>4
    <3>2. Untouched(q) /\ (answer[q] # "none" => queryDisturbed[q])
      BY <3>1 DEF AgentsInv, Waiting
    <3>3. Untouched(q)'
      BY <1>3, <3>2
    <3> QED
      BY <3>1, <3>2, <3>3
  <2> QED
    BY <2>1, <2>2 DEF Waiting
<1>6. ASSUME NEW o \in Pods \ {p}, handling'[o] # None PROVE StageOf(o, handling[o])'
  <2>1. PICK r \in Queries \ {handling[p]} : r = handling[o] /\ r = handling'[o]
    BY <1>1, <1>6, HandledOnce DEF AgentsInv, AgentTypes
  <2>2. StageOf(o, r) /\ (answer[r] # "none" => queryDisturbed[r])
    BY <2>1, <1>6 DEF AgentsInv, Handled, StageOf
  <2>3. kind[o] \in AgentKinds /\ retrying[o] \in BOOLEAN
    BY <2>1, <1>6 DEF AgentsInv, Placed, AgentTypes
  <2>4. StageOf(o, r)'
    BY <1>2, <2>1, <2>2, <2>3, StageKeeps
  <2> QED
    BY <2>1, <2>4
<1>7. ASSUME NEW q \in Queries \ {handling[p]}
      PROVE  /\ answer'[q] # "none" /\ ~queryDisturbed'[q] =>
                  NotRequested(q)' /\ processed'[q] = 1
             /\ answer'[q] = "error" => queryDisturbed'[q] \/ "error" \in outcomes'[q]
             /\ answer'[q] \in Agents!Results => answer'[q] \in outcomes'[q]
             /\ processed'[q] <= 2
  BY <1>3 DEF AgentsInv, Answered, Accounted
<1>8. ASSUME NEW k \in AgentKinds, NEW r \in requests'[k], r.query # handling[p]
      PROVE  /\ pod'[r.query] = r.pod
             /\ processed'[r.query] <= 1
             /\ \A l \in AgentKinds : \A s \in requests'[l] : s.query = r.query =>
                  /\ l = k
                  /\ s # r => processed'[r.query] = 0
  <2>1. r.query \in Queries \ {handling[p]} /\ r \in requests[k]
    BY <1>2, <1>8 DEF Messages
  <2>2. ASSUME NEW l \in AgentKinds, NEW s \in requests'[l], s.query = r.query
        PROVE  s \in requests[l]
    BY <1>2, <2>1, <2>2
  <2> QED
    BY <2>1, <2>2 DEF AgentsInv, RequestsCounted
<1> QED
  BY <1>5, <1>6, <1>7, <1>8

\* An orchestrator is done with a query (Response): what it tells is so, and what
\* is still asked of an agent can be worked on once more.
LEMMA RespondKeeps ==
  ASSUME AgentsInv, AgentTypes', NEW p \in Pods, NEW q \in Queries, handling[p] = q,
         NEW what \in Outcomes, Agents!Respond(p, what),
         \A r \in Queries \ {q} :
           /\ processed'[r] = processed[r] /\ outcomes'[r] = outcomes[r]
           /\ \A k \in AgentKinds : \A s \in Messages :
                s.query = r => (s \in requests'[k] <=> s \in requests[k]),
         \A r \in Queries : queryDisturbed[r] => queryDisturbed'[r],
         outcomes[q] \subseteq outcomes'[q], processed[q] <= processed'[q], processed'[q] <= 2,
         what = "error" => queryDisturbed'[q] \/ "error" \in outcomes'[q],
         what \in Agents!Results => what \in outcomes'[q],
         ~queryDisturbed'[q] => processed'[q] = 1 /\ NotRequested(q)',
         \A k \in AgentKinds : \A r \in requests'[k] : r.query = q =>
           /\ r.pod = p /\ processed'[q] <= 1
           /\ \A l \in AgentKinds : \A s \in requests'[l] : s.query = q =>
                l = k /\ (s # r => processed'[q] = 0)
  PROVE  AgentsInv'
<1>1. handling[p] # None /\ pod[q] = p
  BY AgentsAssumption DEF AgentsInv, Placed
<1>2. /\ answer' = IF answer[q] = "none" THEN [answer EXCEPT ![q] = what] ELSE answer
      /\ handling' = [handling EXCEPT ![p] = None]
      /\ step' = [step EXCEPT ![p] = "none"]
      /\ kind' = [kind EXCEPT ![p] = None]
      /\ retrying' = [retrying EXCEPT ![p] = FALSE]
  BY DEF Agents!Respond
<1>2a. UNCHANGED <<pod, mailbox>>
  BY DEF Agents!Respond
<1>3. \A o \in Pods \ {p} : /\ handling'[o] = handling[o] /\ step'[o] = step[o]
                            /\ kind'[o] = kind[o] /\ retrying'[o] = retrying[o]
  BY <1>2 DEF AgentsInv, AgentTypes
<1>4. handling'[p] = None /\ step'[p] = "none" /\ ~retrying'[p]
  BY <1>2 DEF AgentsInv, AgentTypes
<1>5. \A r \in Queries \ {q} : answer'[r] = answer[r]
  BY <1>2 DEF AgentsInv, AgentTypes
<1>6. answer'[q] = IF answer[q] = "none" THEN what ELSE answer[q]
  BY <1>2 DEF AgentsInv, AgentTypes
<1>7. /\ Waiting'
      /\ \A o \in Pods \ {p} : handling'[o] # None => StageOf(o, handling[o])'
      /\ \A r \in Queries \ {q} :
           /\ answer'[r] # "none" /\ ~queryDisturbed'[r] =>
                NotRequested(r)' /\ processed'[r] = 1
           /\ answer'[r] = "error" => queryDisturbed'[r] \/ "error" \in outcomes'[r]
           /\ answer'[r] \in Agents!Results => answer'[r] \in outcomes'[r]
           /\ processed'[r] <= 2
      /\ \A k \in AgentKinds : \A r \in requests'[k] : r.query # q =>
           /\ pod'[r.query] = r.pod
           /\ processed'[r.query] <= 1
           /\ \A l \in AgentKinds : \A s \in requests'[l] : s.query = r.query =>
                /\ l = k
                /\ s # r => processed'[r.query] = 0
  BY <1>1, <1>3, <1>5, <1>2a, OthersKeep
<1>8. Placed'
  <2>1. handling'[p] \notin Queries
    BY <1>4, AgentsAssumption
  <2>2. ASSUME NEW o \in Pods, NEW i \in 1 .. Len(mailbox[o]) PROVE mailbox[o][i] \in Queries
    BY DEF AgentsInv, AgentTypes
  <2>3. ASSUME NEW o \in Pods
        PROVE  /\ handling'[o] = None <=> step'[o] = "none"
               /\ handling'[o] = None => ~retrying'[o]
               /\ handling'[o] # None => kind'[o] \in AgentKinds /\ pod'[handling'[o]] = o
    BY <1>3, <1>4, <1>2a DEF AgentsInv, Placed
  <2> QED
    BY <1>3, <1>2a, <2>1, <2>2, <2>3 DEF AgentsInv, Placed
<1>9. Handled'
  BY <1>4, <1>7 DEF Handled
<1>10. RequestsCounted'
  BY <1>1, <1>7, <1>2a DEF RequestsCounted
<1>11. Answered' /\ Accounted'
  <2>1. /\ answer'[q] = "error" => queryDisturbed'[q] \/ "error" \in outcomes'[q]
        /\ answer'[q] \in Agents!Results => answer'[q] \in outcomes'[q]
    BY <1>6 DEF AgentsInv, AgentTypes, Accounted
  <2> QED
    BY <1>7, <2>1 DEF Answered, Accounted
<1> QED
  BY <1>7, <1>8, <1>9, <1>10, <1>11 DEF AgentsInv

\* An orchestrator goes on with its query.
LEMMA GoesOn ==
  ASSUME AgentsInv, AgentTypes', NEW p \in Pods, NEW q \in Queries, handling[p] = q,
         UNCHANGED <<answer, pod, mailbox, handling, kind, processed, outcomes>>,
         step'[p] # "none", StageOf(p, q)',
         \A o \in Pods \ {p} : step'[o] = step[o] /\ retrying'[o] = retrying[o],
         \A r \in Queries \ {q} : \A k \in AgentKinds : \A s \in Messages :
           s.query = r => (s \in requests'[k] <=> s \in requests[k]),
         \A r \in Queries : queryDisturbed[r] => queryDisturbed'[r],
         \A k \in AgentKinds : \A r \in requests'[k] : r.query = q =>
           /\ r.pod = p /\ processed'[q] <= 1
           /\ \A l \in AgentKinds : \A s \in requests'[l] : s.query = q =>
                l = k /\ (s # r => processed'[q] = 0)
  PROVE  AgentsInv'
<1>1. handling[p] # None /\ pod[q] = p
  BY AgentsAssumption DEF AgentsInv, Placed
<1>2. /\ Waiting'
      /\ \A o \in Pods \ {p} : handling'[o] # None => StageOf(o, handling[o])'
      /\ \A r \in Queries \ {q} :
           /\ answer'[r] # "none" /\ ~queryDisturbed'[r] =>
                NotRequested(r)' /\ processed'[r] = 1
           /\ answer'[r] = "error" => queryDisturbed'[r] \/ "error" \in outcomes'[r]
           /\ answer'[r] \in Agents!Results => answer'[r] \in outcomes'[r]
           /\ processed'[r] <= 2
      /\ \A k \in AgentKinds : \A r \in requests'[k] : r.query # q =>
           /\ pod'[r.query] = r.pod
           /\ processed'[r.query] <= 1
           /\ \A l \in AgentKinds : \A s \in requests'[l] : s.query = r.query =>
                /\ l = k
                /\ s # r => processed'[r.query] = 0
  BY <1>1, OthersKeep
<1>3. Placed'
  <2>1. ASSUME NEW o \in Pods
        PROVE  /\ handling'[o] = None <=> step'[o] = "none"
               /\ handling'[o] = None => ~retrying'[o]
               /\ handling'[o] # None => kind'[o] \in AgentKinds /\ pod'[handling'[o]] = o
    BY <1>1 DEF AgentsInv, Placed
  <2> QED
    BY <2>1 DEF AgentsInv, Placed
<1>4. Handled'
  BY <1>2 DEF Handled
<1>5. RequestsCounted'
  BY <1>1, <1>2 DEF RequestsCounted
<1>6. (answer'[q] # "none" => queryDisturbed'[q]) /\ processed[q] <= 2
  BY DEF StageOf, AgentsInv, Accounted
<1>7. Answered' /\ Accounted'
  <2>1. answer'[q] \in Agents!Results => answer'[q] \in outcomes'[q]
    BY DEF AgentsInv, Accounted
  <2> QED
    BY <1>2, <1>6, <2>1 DEF Answered, Accounted
<1> QED
  BY <1>2, <1>3, <1>4, <1>5, <1>7 DEF AgentsInv

\* A client gives up (handleQuery): which only a failure makes it do.
LEMMA GiveUpKeeps ==
  ASSUME AgentsInv, NEW q \in Queries, Agents!GiveUp(q) PROVE AgentsInv'
<1>1. /\ pod[q] # None /\ answer[q] = "none" /\ answer' = [answer EXCEPT ![q] = "error"]
      /\ UNCHANGED <<pod, mailbox, handling, step, kind, retrying, registry, agent, requests,
                     processed, outcomes>>
  BY DEF Agents!GiveUp, Agents!orchestratorVars, Agents!clusterVars, Agents!UnderWay
<1>2. /\ queryDisturbed' \in [Queries -> BOOLEAN] /\ queryDisturbed'[q]
      /\ \A r \in Queries : queryDisturbed[r] => queryDisturbed'[r]
  <2>1. CASE Agents!Fault
    BY <1>1, <2>1, FaultFelt
  <2>2. CASE queryDisturbed' = [queryDisturbed EXCEPT ![q] = TRUE]
    BY <2>2 DEF AgentsInv, AgentTypes
  <2> QED
    BY <2>1, <2>2 DEF Agents!GiveUp
<1>3. AgentTypes'
  BY <1>1, <1>2 DEF AgentsInv, AgentTypes, Outcomes
<1>4. \A r \in Queries : answer'[r] # answer[r] => r = q
  BY <1>1 DEF AgentsInv, AgentTypes
<1>5. Placed'
  BY <1>1 DEF AgentsInv, Placed
<1>6. Waiting'
  <2>1. \A r \in Queries : pod'[r] = None => answer'[r] = "none" /\ Untouched(r)'
    BY <1>1, <1>4 DEF AgentsInv, Waiting, Untouched, NotRequested
  <2>2. ASSUME NEW o \in Pods, NEW i \in 1 .. Len(mailbox'[o])
        PROVE  /\ Untouched(mailbox[o][i])'
               /\ answer'[mailbox'[o][i]] # "none" => queryDisturbed'[mailbox'[o][i]]
    <3>1. PICK r \in Queries : r = mailbox[o][i] /\ r = mailbox'[o][i]
      BY <1>1 DEF AgentsInv, AgentTypes
    <3>2. Untouched(r) /\ (answer[r] # "none" => queryDisturbed[r])
      BY <1>1, <3>1 DEF AgentsInv, Waiting
    <3> QED
      BY <1>1, <1>2, <1>4, <3>1, <3>2 DEF Untouched, NotRequested
  <2> QED
    BY <2>1, <2>2 DEF Waiting
<1>7. Handled'
  <2>1. ASSUME NEW o \in Pods, handling'[o] # None PROVE StageOf(o, handling[o])'
    <3>1. PICK r \in Queries : r = handling[o] /\ r = handling'[o]
      BY <1>1, <2>1 DEF AgentsInv, AgentTypes
    <3>2. StageOf(o, r) /\ kind[o] \in AgentKinds /\ retrying[o] \in BOOLEAN
      BY <1>1, <2>1, <3>1 DEF AgentsInv, Handled, Placed, AgentTypes
    <3>3. answer'[r] # "none" => queryDisturbed'[r]
      BY <1>2, <1>4, <3>2 DEF StageOf
    <3>4. \A k \in AgentKinds : requests'[k] \subseteq Messages
      BY <1>1 DEF AgentsInv, AgentTypes
    <3>5. StageOf(o, r)'
      BY <1>1, <1>2, <3>1, <3>2, <3>3, <3>4, StageKeeps
    <3> QED
      BY <3>1, <3>5
  <2> QED
    BY <2>1 DEF Handled
<1>8. RequestsCounted'
  BY <1>1 DEF AgentsInv, RequestsCounted
<1>9. Answered'
  BY <1>1, <1>2, <1>4 DEF AgentsInv, Answered, NotRequested
<1>10. Accounted'
  BY <1>1, <1>2, <1>4 DEF AgentsInv, Accounted, Agents!Results
<1> QED
  BY <1>3, <1>5, <1>6, <1>7, <1>8, <1>9, <1>10 DEF AgentsInv

\* An orchestrator takes the next query of its mailbox.
LEMMA ReceiveKeeps ==
  ASSUME AgentsInv, NEW p \in Pods, Agents!Receive(p) PROVE AgentsInv'
<1>1. PICK k \in AgentKinds :
        /\ handling[p] = None /\ mailbox[p] # <<>>
        /\ handling' = [handling EXCEPT ![p] = Head(mailbox[p])]
        /\ mailbox' = [mailbox EXCEPT ![p] = Tail(mailbox[p])]
        /\ kind' = [kind EXCEPT ![p] = k]
        /\ step' = [step EXCEPT ![p] = "locate"]
        /\ UNCHANGED <<answer, pod, retrying, registry, agent, requests, processed, outcomes,
                       queryDisturbed>>
  BY DEF Agents!Receive, Agents!clusterVars
<1> DEFINE q == mailbox[p][1]
<1>2. /\ q \in Queries /\ pod[q] = p /\ p # None /\ Untouched(q) /\ 1 \in 1 .. Len(mailbox[p])
      /\ answer[q] # "none" => queryDisturbed[q]
  BY <1>1, AgentsAssumption DEF AgentsInv, AgentTypes, Placed, Waiting
<1>3. handling' = [handling EXCEPT ![p] = q]
  BY <1>1 DEF AgentsInv, AgentTypes
<1>4. \A i \in 1 .. Len(mailbox[p]) : mailbox[p][i] = q => i = 1
  BY <1>2 DEF AgentsInv, Placed
<1>5. \A o \in Pods \ {p} : \A i \in 1 .. Len(mailbox[o]) : mailbox[o][i] # q
  BY <1>2 DEF AgentsInv, Placed
<1>6. ASSUME NEW o \in Pods, NEW i \in 1 .. Len(mailbox'[o])
      PROVE  \/ o # p /\ i \in 1 .. Len(mailbox[o]) /\ mailbox'[o][i] = mailbox[o][i]
             \/ o = p /\ i + 1 \in 1 .. Len(mailbox[p]) /\ mailbox'[o][i] = mailbox[p][i + 1]
  BY <1>1 DEF AgentsInv, AgentTypes
<1> HIDE DEF q
<1>7. AgentTypes'
  <2>1. Tail(mailbox[p]) \in Seq(Queries)
    BY <1>1 DEF AgentsInv, AgentTypes
  <2> QED
    BY <1>1, <1>2, <1>3, <2>1 DEF AgentsInv, AgentTypes
<1>8. \A o \in Pods \ {p} : handling'[o] = handling[o] /\ step'[o] = step[o] /\ kind'[o] = kind[o]
  BY <1>1, <1>3 DEF AgentsInv, AgentTypes
<1>9. handling'[p] = q /\ step'[p] = "locate" /\ kind'[p] = k /\ ~retrying'[p]
  BY <1>1, <1>3 DEF AgentsInv, AgentTypes, Placed
<1>10. Placed'
  <2>1. ASSUME NEW o \in Pods
        PROVE  /\ handling'[o] = None <=> step'[o] = "none"
               /\ handling'[o] = None => ~retrying'[o]
               /\ handling'[o] # None => kind'[o] \in AgentKinds /\ pod'[handling'[o]] = o
    BY <1>1, <1>2, <1>8, <1>9, AgentsAssumption DEF AgentsInv, Placed
  <2>2. ASSUME NEW o \in Pods, NEW i \in 1 .. Len(mailbox'[o])
        PROVE  pod'[mailbox'[o][i]] = o /\ mailbox'[o][i] # handling'[o]
    <3>1. CASE o = p
      <4>1. i + 1 \in 1 .. Len(mailbox[p]) /\ mailbox'[o][i] = mailbox[p][i + 1] /\ i + 1 # 1
        BY <1>6, <3>1
      <4> QED
        BY <1>1, <1>4, <1>9, <3>1, <4>1 DEF AgentsInv, Placed
    <3>2. CASE o # p
      BY <1>1, <1>6, <1>8, <3>2 DEF AgentsInv, Placed
    <3> QED
      BY <3>1, <3>2
  <2>3. ASSUME NEW o \in Pods, NEW i \in 1 .. Len(mailbox'[o]), NEW j \in 1 .. Len(mailbox'[o]),
               mailbox'[o][i] = mailbox'[o][j]
        PROVE  i = j
    <3>1. CASE o = p
      <4>1. PICK a \in 1 .. Len(mailbox[p]) : a = i + 1 /\ mailbox'[o][i] = mailbox[p][a]
        BY <1>6, <3>1
      <4>2. PICK b \in 1 .. Len(mailbox[p]) : b = j + 1 /\ mailbox'[o][j] = mailbox[p][b]
        BY <1>6, <3>1
      <4>3. mailbox[p][a] = mailbox[p][b]
        BY <2>3, <4>1, <4>2
      <4>4. a = b
        BY <4>3 DEF AgentsInv, Placed
      <4> QED
        BY <4>1, <4>2, <4>4
    <3>2. CASE o # p
      BY <1>6, <2>3, <3>2 DEF AgentsInv, Placed
    <3> QED
      BY <3>1, <3>2
  <2> QED
    BY <2>1, <2>2, <2>3 DEF Placed
<1>11. Waiting'
  <2>1. \A r \in Queries : pod'[r] = None => answer'[r] = "none" /\ Untouched(r)'
    BY <1>1 DEF AgentsInv, Waiting, Untouched, NotRequested
  <2>2. ASSUME NEW o \in Pods, NEW i \in 1 .. Len(mailbox'[o])
        PROVE  /\ Untouched(mailbox[o][i])'
               /\ answer'[mailbox'[o][i]] # "none" => queryDisturbed'[mailbox'[o][i]]
    <3>1. PICK j \in 1 .. Len(mailbox[o]) : mailbox'[o][i] = mailbox[o][j]
      BY <1>6
    <3>2. Untouched(mailbox[o][j]) /\ (answer[mailbox[o][j]] # "none" => queryDisturbed[mailbox[o][j]])
      BY DEF AgentsInv, Waiting
    <3> QED
      BY <1>1, <3>1, <3>2 DEF Untouched, NotRequested
  <2> QED
    BY <2>1, <2>2 DEF Waiting
<1>12. Handled'
  <2>1. ASSUME NEW o \in Pods \ {p}, handling'[o] # None PROVE StageOf(o, handling[o])'
    <3>1. StageOf(o, handling[o])
      BY <1>8, <2>1 DEF AgentsInv, Handled
    <3> QED
      BY <1>1, <1>8, <3>1 DEF StageOf, Agents!Request, Untouched, NotRequested
  <2>2. StageOf(p, handling[p])'
    BY <1>1, <1>2, <1>9 DEF StageOf, Untouched, NotRequested
  <2> QED
    BY <2>1, <2>2 DEF Handled
<1>13. RequestsCounted' /\ Answered' /\ Accounted'
  BY <1>1 DEF AgentsInv, RequestsCounted, Answered, NotRequested, Accounted
<1> QED
  BY <1>7, <1>10, <1>11, <1>12, <1>13 DEF AgentsInv

\* What is known of a query that is handled.
LEMMA HandledFacts ==
  ASSUME AgentsInv, NEW p \in Pods, step[p] # "none"
  PROVE  /\ handling[p] \in Queries /\ handling[p] # None /\ pod[handling[p]] = p
         /\ kind[p] \in AgentKinds /\ retrying[p] \in BOOLEAN
         /\ StageOf(p, handling[p])
         /\ processed[handling[p]] \in Nat
  BY DEF AgentsInv, AgentTypes, Placed, Handled

LEMMA MessagesEqual ==
  ASSUME NEW r \in Messages, NEW s \in Messages,
         r.query = s.query, r.pod = s.pod, r.retry = s.retry
  PROVE  r = s
  BY DEF Messages

\* An agent is asked (Ask), and the request is lost only if that agent is gone.
LEMMA AskKeeps ==
  ASSUME AgentsInv, NEW p \in Pods, step[p] \in {"locate", "spawn"},
         step' = [step EXCEPT ![p] = "ask"], Agents!SendTo(kind[p], p),
         UNCHANGED <<answer, pod, mailbox, handling, kind, retrying, processed, outcomes>>,
         registry' \in [AgentKinds -> Pods \cup {None}],
         agent' \in [AgentKinds -> Pods \cup {None}],
         queryDisturbed' \in [Queries -> BOOLEAN],
         \A r \in Queries : queryDisturbed[r] => queryDisturbed'[r],
         agent'[kind[p]] = None => queryDisturbed'[handling[p]]
  PROVE  AgentsInv'
<1> DEFINE q == handling[p]
           k == kind[p]
           m == Agents!Request(p)
<1>1. /\ q \in Queries /\ q # None /\ pod[q] = p /\ k \in AgentKinds
      /\ retrying[p] \in BOOLEAN /\ StageOf(p, q) /\ processed[q] \in Nat
  BY HandledFacts
<1>2. m \in Messages /\ m.query = q /\ m.pod = p /\ m.retry = retrying[p]
  BY <1>1 DEF Agents!Request, Messages
<1>3. \/ requests' = requests /\ queryDisturbed'[q]
      \/ requests' = [requests EXCEPT ![k] = requests[k] \cup {m}]
  BY DEF Agents!SendTo
<1>4. m' = m /\ q' = q /\ k' = k /\ handling[p] = q /\ kind[p] = k
  BY DEF Agents!Request
<1>5. requests \in [AgentKinds -> SUBSET Messages]
  BY DEF AgentsInv, AgentTypes
<1>6. step' \in [Pods -> {"none", "locate", "spawn", "ask", "direct"}] /\ step'[p] = "ask"
      /\ \A o \in Pods \ {p} : step'[o] = step[o]
  BY DEF AgentsInv, AgentTypes
<1> HIDE DEF q, k, m
<1>7. requests' \in [AgentKinds -> SUBSET Messages]
  BY <1>1, <1>2, <1>3, <1>5
<1>8. ASSUME NEW l \in AgentKinds, NEW s \in requests'[l]
      PROVE  s \in requests[l] \/ (s = m /\ l = k)
  BY <1>1, <1>3, <1>5, <1>8
<1>9. AgentTypes'
  BY <1>6, <1>7 DEF AgentsInv, AgentTypes
<1>10. \A r \in Queries \ {q} : \A l \in AgentKinds : \A s \in Messages :
         s.query = r => (s \in requests'[l] <=> s \in requests[l])
  BY <1>1, <1>2, <1>3, <1>5
<1>11. ASSUME NEW l \in AgentKinds, NEW s \in requests'[l], s.query = q
       PROVE  /\ l = k /\ s.pod = p /\ s \in Messages
              /\ ~retrying[p] => ~s.retry
              /\ ~retrying[p] => s = m
              /\ retrying[p] /\ s # m => ~s.retry /\ processed[q] = 0
  <2>1. CASE s \in requests[l]
    <3>1. s.pod = p /\ s \in Messages
      BY <1>1, <1>5, <1>11, <2>1 DEF AgentsInv, RequestsCounted
    <3>2. step[p] # "ask"
      OBVIOUS
    <3>3. l = k /\ retrying[p] /\ ~s.retry /\ processed[q] = 0
      BY <1>1, <1>4, <1>11, <2>1, <3>2 DEF StageOf, Untouched, NotRequested
    <3> QED
      BY <3>1, <3>3
  <2>2. CASE s = m /\ l = k
    BY <1>2, <2>2
  <2> QED
    BY <1>8, <1>11, <2>1, <2>2
<1>12. processed[q] <= 1 /\ (~retrying[p] => processed[q] = 0)
  BY <1>1 DEF StageOf, Untouched
<1>13. ASSUME NEW l \in AgentKinds, NEW r \in requests'[l], r.query = q
       PROVE  /\ r.pod = p /\ processed'[q] <= 1
              /\ \A j \in AgentKinds : \A s \in requests'[j] : s.query = q =>
                   j = l /\ (s # r => processed'[q] = 0)
  BY <1>11, <1>12, <1>13
<1>14. StageOf(p, q)'
  <2>1. (answer[q] # "none" => queryDisturbed[q])'
    BY <1>1, <1>4 DEF StageOf
  <2>2. (retrying[p] => queryDisturbed[q] /\ step[p] # "direct")'
    BY <1>1, <1>4, <1>6 DEF StageOf
  <2>3. (\A l \in AgentKinds : \A s \in requests[l] : s.query = q =>
          l = kind[p] /\ (~retrying[p] => ~s.retry))'
    BY <1>4, <1>11
  <2>4. (step[p] = "ask" /\ ~queryDisturbed[q] => Agents!Request(p) \in requests[kind[p]])'
    BY <1>1, <1>3, <1>4, <1>5 DEF k, m
  <2> QED
    BY <1>4, <1>6, <1>12, <2>1, <2>2, <2>3, <2>4 DEF StageOf
<1> QED
  BY <1>1, <1>4, <1>6, <1>9, <1>10, <1>13, <1>14, GoesOn

\* getOrSpawnAgent finds an agent, which may be gone, or has to spawn one.
LEMMA LocateKeeps ==
  ASSUME AgentsInv, NEW p \in Pods, Agents!Locate(p) PROVE AgentsInv'
<1> DEFINE q == handling[p]
<1>1. /\ step[p] = "locate"
      /\ UNCHANGED <<answer, pod, mailbox, handling, kind, retrying, registry, agent, processed,
                     outcomes>>
      /\ queryDisturbed' = [queryDisturbed EXCEPT ![q] = queryDisturbed[q] \/
                              (registry[kind[p]] # None /\ agent[kind[p]] = None)]
  BY DEF Agents!Locate
<1>2. /\ q \in Queries /\ q # None /\ pod[q] = p /\ kind[p] \in AgentKinds
      /\ retrying[p] \in BOOLEAN /\ StageOf(p, q) /\ processed[q] \in Nat
  BY <1>1, HandledFacts
<1>3. q' = q /\ handling[p] = q
  BY <1>1
<1> HIDE DEF q
<1>4. /\ queryDisturbed' \in [Queries -> BOOLEAN]
      /\ \A r \in Queries : queryDisturbed[r] => queryDisturbed'[r]
      /\ registry[kind[p]] # None /\ agent[kind[p]] = None => queryDisturbed'[q]
  BY <1>1, <1>2 DEF AgentsInv, AgentTypes
<1>5. CASE registry[kind[p]] # None
  <2>1. step' = [step EXCEPT ![p] = "ask"] /\ Agents!SendTo(kind[p], p)
    BY <1>5 DEF Agents!Locate
  <2>2. registry' \in [AgentKinds -> Pods \cup {None}] /\ agent' \in [AgentKinds -> Pods \cup {None}]
    BY <1>1 DEF AgentsInv, AgentTypes
  <2>3. agent'[kind[p]] = None => queryDisturbed'[handling[p]]
    BY <1>1, <1>3, <1>4, <1>5
  <2> QED
    BY <1>1, <1>4, <2>1, <2>2, <2>3, AskKeeps
<1>6. CASE registry[kind[p]] = None
  <2>1. step' = [step EXCEPT ![p] = "spawn"] /\ UNCHANGED requests
    BY <1>6 DEF Agents!Locate
  <2>2. AgentTypes' /\ step'[p] = "spawn" /\ \A o \in Pods \ {p} : step'[o] = step[o]
    BY <1>1, <1>4, <2>1 DEF AgentsInv, AgentTypes
  <2>3. StageOf(p, q)'
    BY <1>1, <1>2, <1>3, <1>4, <2>1, <2>2 DEF StageOf, Untouched, NotRequested
  <2>4. \A k \in AgentKinds : \A r \in requests'[k] : r.query = q =>
          /\ r.pod = p /\ processed'[q] <= 1
          /\ \A l \in AgentKinds : \A s \in requests'[l] : s.query = q =>
               l = k /\ (s # r => processed'[q] = 0)
    BY <1>1, <1>2, <2>1 DEF AgentsInv, RequestsCounted
  <2> QED
    BY <1>1, <1>2, <1>3, <1>4, <2>1, <2>2, <2>3, <2>4, GoesOn
<1> QED
  BY <1>5, <1>6

\* getOrSpawnAgent spawns the agent on its own pod.
LEMMA SpawnAgentKeeps ==
  ASSUME AgentsInv, NEW p \in Pods, Agents!SpawnAgent(p) PROVE AgentsInv'
<1>1. /\ step[p] = "spawn" /\ step' = [step EXCEPT ![p] = "ask"] /\ Agents!SendTo(kind[p], p)
      /\ registry' = [registry EXCEPT ![kind[p]] = p]
      /\ agent' = [agent EXCEPT ![kind[p]] = p]
      /\ UNCHANGED <<answer, pod, mailbox, handling, kind, retrying, processed, outcomes,
                     queryDisturbed>>
  BY DEF Agents!SpawnAgent
<1>2. kind[p] \in AgentKinds /\ p # None
  BY <1>1, HandledFacts, AgentsAssumption
<1>3. /\ registry' \in [AgentKinds -> Pods \cup {None}]
      /\ agent' \in [AgentKinds -> Pods \cup {None}]
      /\ agent'[kind[p]] # None
      /\ queryDisturbed' \in [Queries -> BOOLEAN]
  BY <1>1, <1>2 DEF AgentsInv, AgentTypes
<1> QED
  BY <1>1, <1>3, AskKeeps

\* A late Spawn: the model is asked by the orchestrator, and only a query that was
\* disturbed ends with an error.
LEMMA SpawnRefusedKeeps ==
  ASSUME AgentsInv, NEW p \in Pods, Agents!SpawnRefused(p) PROVE AgentsInv'
<1>1. /\ step[p] = "spawn"
      /\ UNCHANGED <<registry, agent, requests, processed, outcomes, queryDisturbed>>
  BY DEF Agents!SpawnRefused, Agents!clusterVars
<1>2. PICK q \in Queries :
        /\ handling[p] = q /\ q # None /\ pod[q] = p /\ kind[p] \in AgentKinds
        /\ retrying[p] \in BOOLEAN /\ StageOf(p, q) /\ processed[q] \in Nat
  BY <1>1, HandledFacts
<1>3. \A k \in AgentKinds : \A r \in requests'[k] : r.query = q =>
        /\ r.pod = p /\ processed'[q] <= 1
        /\ \A l \in AgentKinds : \A s \in requests'[l] : s.query = q =>
             l = k /\ (s # r => processed'[q] = 0)
  BY <1>1, <1>2 DEF AgentsInv, RequestsCounted
<1>4. CASE retrying[p]
  <2>1. Agents!Respond(p, "error")
    BY <1>4 DEF Agents!SpawnRefused
  <2>2. AgentTypes'
    BY <1>1, <2>1 DEF AgentsInv, AgentTypes, Agents!Respond, Outcomes
  <2>3. queryDisturbed'[q] /\ processed'[q] <= 2
    BY <1>1, <1>2, <1>4 DEF StageOf, AgentsInv, Accounted
  <2> QED
    BY <1>1, <1>2, <1>3, <2>1, <2>2, <2>3, RespondKeeps DEF Agents!Results, Outcomes
<1>5. CASE ~retrying[p]
  <2>1. /\ step' = [step EXCEPT ![p] = "direct"]
        /\ UNCHANGED <<answer, pod, mailbox, handling, kind, retrying>>
    BY <1>5 DEF Agents!SpawnRefused
  <2>2. AgentTypes' /\ step'[p] = "direct" /\ \A o \in Pods \ {p} : step'[o] = step[o]
    BY <1>1, <2>1 DEF AgentsInv, AgentTypes
  <2>3. StageOf(p, q)'
    BY <1>1, <1>2, <1>5, <2>1, <2>2 DEF StageOf, Untouched, NotRequested
  <2> QED
    BY <1>1, <1>2, <1>3, <2>1, <2>2, <2>3, GoesOn
<1> QED
  BY <1>4, <1>5

\* completeWithLLM: the query is put to the model once, and the model decides.
LEMMA DirectKeeps ==
  ASSUME AgentsInv, NEW p \in Pods, Agents!Direct(p) PROVE AgentsInv'
<1>1. step[p] = "direct" /\ UNCHANGED <<registry, agent, requests, queryDisturbed>>
  BY DEF Agents!Direct, Agents!clusterVars
<1>2. PICK q \in Queries :
        /\ handling[p] = q /\ q # None /\ pod[q] = p /\ kind[p] \in AgentKinds
        /\ retrying[p] \in BOOLEAN /\ StageOf(p, q) /\ processed[q] \in Nat
  BY <1>1, HandledFacts
<1>3. PICK what \in Outcomes :
        /\ processed' = [processed EXCEPT ![q] = processed[q] + 1]
        /\ outcomes' = [outcomes EXCEPT ![q] = outcomes[q] \cup {what}]
        /\ Agents!Respond(p, what)
  BY <1>2 DEF Agents!Direct, Agents!Completions, Agents!Process, Outcomes
<1>4. AgentTypes'
  BY <1>1, <1>2, <1>3 DEF AgentsInv, AgentTypes, Agents!Respond
<1>5. processed[q] = 0 /\ NotRequested(q)
  BY <1>1, <1>2 DEF StageOf, Untouched
<1>6. /\ \A r \in Queries \ {q} : processed'[r] = processed[r] /\ outcomes'[r] = outcomes[r]
      /\ processed'[q] = 1 /\ (outcomes[q] \subseteq outcomes'[q]) /\ what \in outcomes'[q]
  <2>1. processed'[q] = 1 /\ \A r \in Queries \ {q} : processed'[r] = processed[r]
    BY <1>2, <1>3, <1>5 DEF AgentsInv, AgentTypes
  <2>2. \A r \in Queries \ {q} : outcomes'[r] = outcomes[r]
    BY <1>3 DEF AgentsInv, AgentTypes
  <2>3. outcomes'[q] = outcomes[q] \cup {what}
    BY <1>3 DEF AgentsInv, AgentTypes
  <2> QED
    BY <2>1, <2>2, <2>3
<1>7. NotRequested(q)'
  BY <1>1, <1>5 DEF NotRequested
<1>8. \A k \in AgentKinds : \A r \in requests'[k] : r.query # q
  BY <1>7 DEF NotRequested
<1> QED
  BY <1>1, <1>2, <1>3, <1>4, <1>5, <1>6, <1>7, <1>8, RespondKeeps

\* The first Ask fails and is tried again, or the second one and the query ends
\* with an error: not to a query that nothing happened to, whose request is there.
LEMMA AskFailsKeeps ==
  ASSUME AgentsInv, NEW p \in Pods, Agents!AskFails(p) PROVE AgentsInv'
<1>1. step[p] = "ask" /\ UNCHANGED <<registry, agent, requests, processed, outcomes>>
  BY DEF Agents!AskFails, Agents!clusterVars
<1>2. PICK q \in Queries :
        /\ handling[p] = q /\ q # None /\ pod[q] = p /\ kind[p] \in AgentKinds
        /\ retrying[p] \in BOOLEAN /\ StageOf(p, q) /\ processed[q] \in Nat
  BY <1>1, HandledFacts
<1>3. /\ queryDisturbed' \in [Queries -> BOOLEAN]
      /\ \A r \in Queries : queryDisturbed[r] => queryDisturbed'[r]
      /\ queryDisturbed'[q]
  <2>1. CASE Agents!Fault
    BY <1>2, <2>1, FaultFelt
  <2>2. CASE Agents!Request(p) \notin requests[kind[p]] /\ UNCHANGED queryDisturbed
    BY <1>1, <1>2, <2>2 DEF StageOf, AgentsInv, AgentTypes
  <2> QED
    BY <2>1, <2>2 DEF Agents!AskFails
<1>4. \A k \in AgentKinds : \A r \in requests'[k] : r.query = q =>
        /\ r.pod = p /\ processed'[q] <= 1
        /\ \A l \in AgentKinds : \A s \in requests'[l] : s.query = q =>
             l = k /\ (s # r => processed'[q] = 0)
  BY <1>1, <1>2 DEF AgentsInv, RequestsCounted
<1>5. CASE retrying[p]
  <2>1. Agents!Respond(p, "error")
    BY <1>5 DEF Agents!AskFails
  <2>2. AgentTypes'
    BY <1>1, <1>3, <2>1 DEF AgentsInv, AgentTypes, Agents!Respond, Outcomes
  <2>3. processed'[q] <= 2
    BY <1>1 DEF AgentsInv, Accounted
  <2> QED
    BY <1>1, <1>2, <1>3, <1>4, <2>1, <2>2, <2>3, RespondKeeps DEF Agents!Results, Outcomes
<1>6. CASE ~retrying[p]
  <2>1. /\ step' = [step EXCEPT ![p] = "locate"]
        /\ retrying' = [retrying EXCEPT ![p] = TRUE]
        /\ UNCHANGED <<answer, pod, mailbox, handling, kind>>
    BY <1>6 DEF Agents!AskFails
  <2>2. AgentTypes'
    BY <1>1, <1>3, <2>1 DEF AgentsInv, AgentTypes
  <2>3. step'[p] = "locate" /\ retrying'[p]
    BY <2>1 DEF AgentsInv, AgentTypes
  <2>4. StageOf(p, q)'
    BY <1>1, <1>2, <1>3, <1>6, <2>1, <2>3 DEF StageOf
  <2>5. /\ UNCHANGED <<answer, pod, mailbox, handling, kind, processed, outcomes>>
        /\ step'[p] # "none"
        /\ \A r \in Queries : queryDisturbed[r] => queryDisturbed'[r]
    BY <1>1, <1>3, <2>1, <2>3
  <2>6. \A o \in Pods \ {p} : step'[o] = step[o] /\ retrying'[o] = retrying[o]
    BY <2>1 DEF AgentsInv, AgentTypes
  <2>7. \A r \in Queries \ {q} : \A k \in AgentKinds : \A s \in Messages :
          s.query = r => (s \in requests'[k] <=> s \in requests[k])
    BY <1>1
  <2> QED
    BY <1>2, <1>4, <2>2, <2>4, <2>5, <2>6, <2>7, GoesOn
<1> QED
  BY <1>5, <1>6

\* An agent works on a request that its orchestrator waits for.
LEMMA AwaitedAnswerKeeps ==
  ASSUME AgentsInv, NEW k \in AgentKinds, NEW r \in requests[k],
         step[r.pod] = "ask", r = Agents!Request(r.pod), Agents!AgentAnswers(k, r)
  PROVE  AgentsInv'
<1> DEFINE p == r.pod
<1>1. r \in Messages /\ p \in Pods /\ requests \in [AgentKinds -> SUBSET Messages]
  BY DEF AgentsInv, AgentTypes, Messages
<1>2. PICK q \in Queries :
        /\ handling[p] = q /\ q # None /\ pod[q] = p /\ kind[p] \in AgentKinds
        /\ retrying[p] \in BOOLEAN /\ StageOf(p, q) /\ processed[q] \in Nat
  BY <1>1, HandledFacts
<1>3. r.query = q /\ r.retry = retrying[p]
  BY <1>2 DEF Agents!Request
<1>4. PICK what \in Outcomes :
        /\ processed' = [processed EXCEPT ![q] = processed[q] + 1]
        /\ outcomes' = [outcomes EXCEPT ![q] = outcomes[q] \cup {what}]
        /\ Agents!Respond(p, what)
  BY <1>3, OutcomesOfAgents DEF Agents!AgentAnswers, Agents!Process
<1>5. requests' = [requests EXCEPT ![k] = requests[k] \ {r}]
      /\ UNCHANGED <<registry, agent, queryDisturbed>>
  BY DEF Agents!AgentAnswers
<1>6. AgentTypes'
  BY <1>1, <1>2, <1>4, <1>5 DEF AgentsInv, AgentTypes, Agents!Respond
<1>7. /\ processed'[q] = processed[q] + 1
      /\ \A s \in Queries \ {q} : processed'[s] = processed[s] /\ outcomes'[s] = outcomes[s]
      /\ (outcomes[q] \subseteq outcomes'[q]) /\ what \in outcomes'[q]
  <2>1. /\ processed'[q] = processed[q] + 1
        /\ \A s \in Queries \ {q} : processed'[s] = processed[s]
    BY <1>4 DEF AgentsInv, AgentTypes
  <2>2. \A s \in Queries \ {q} : outcomes'[s] = outcomes[s]
    BY <1>4 DEF AgentsInv, AgentTypes
  <2>3. outcomes'[q] = outcomes[q] \cup {what}
    BY <1>4 DEF AgentsInv, AgentTypes
  <2> QED
    BY <2>1, <2>2, <2>3
<1>8. \A l \in AgentKinds : \A s \in requests[l] : s.query = q =>
        /\ s \in Messages /\ s.pod = p /\ l = k
        /\ s # r => processed[q] = 0 /\ s.retry # r.retry
  BY <1>1, <1>2, <1>3, MessagesEqual DEF AgentsInv, RequestsCounted
<1>9. processed[q] <= 1 /\ (~retrying[p] => processed[q] = 0)
  BY <1>1, <1>2, <1>3 DEF AgentsInv, RequestsCounted, StageOf
<1>10. ASSUME NEW l \in AgentKinds, NEW s \in requests'[l]
       PROVE  s \in requests[l] /\ s \in Messages /\ (s = r => l # k)
  BY <1>1, <1>5
<1>11. ASSUME NEW l \in AgentKinds, NEW s \in requests'[l], s.query = q
       PROVE  /\ l = k /\ s \in Messages /\ s.pod = p /\ processed[q] = 0
              /\ ~s.retry /\ retrying[p]
  <2>1. l = k /\ s \in Messages /\ s.pod = p /\ s.retry # r.retry /\ processed[q] = 0
    BY <1>8, <1>10, <1>11
  <2>2. ~retrying[p] => ~s.retry
    BY <1>2, <1>10, <1>11 DEF StageOf
  <2>3. s.retry \in BOOLEAN /\ r.retry \in BOOLEAN
    BY <1>1, <2>1 DEF Messages
  <2> QED
    BY <1>3, <2>1, <2>2, <2>3
<1>12. ~queryDisturbed'[q] => processed'[q] = 1 /\ NotRequested(q)'
  <2> SUFFICES ASSUME ~queryDisturbed'[q] PROVE processed'[q] = 1 /\ NotRequested(q)'
    OBVIOUS
  <2>1. ~retrying[p]
    BY <1>2, <1>5 DEF StageOf
  <2> QED
    BY <1>7, <1>9, <1>11, <2>1 DEF NotRequested
<1>13. \A l \in AgentKinds : \A s \in requests'[l] : s.query = q =>
         /\ s.pod = p /\ processed'[q] <= 1
         /\ \A j \in AgentKinds : \A t \in requests'[j] : t.query = q =>
              j = l /\ (t # s => processed'[q] = 0)
  <2>1. ASSUME NEW l \in AgentKinds, NEW s \in requests'[l], s.query = q
        PROVE  s.pod = p /\ processed'[q] <= 1
    BY <1>7, <1>11, <2>1
  <2>2. ASSUME NEW l \in AgentKinds, NEW s \in requests'[l], s.query = q,
               NEW j \in AgentKinds, NEW t \in requests'[j], t.query = q
        PROVE  j = l /\ t = s
    <3>1. /\ l = k /\ s \in Messages /\ s.pod = p /\ ~s.retry
          /\ j = k /\ t \in Messages /\ t.pod = p /\ ~t.retry
      BY <1>11, <2>2
    <3>2. s.retry = t.retry
      BY <3>1 DEF Messages
    <3> QED
      BY <2>2, <3>1, <3>2, MessagesEqual
  <2> QED
    BY <2>1, <2>2
<1>14. \A s \in Queries \ {q} : \A l \in AgentKinds : \A t \in Messages :
         t.query = s => (t \in requests'[l] <=> t \in requests[l])
  BY <1>1, <1>3, <1>5
<1>15. processed'[q] <= 2 /\ processed[q] <= processed'[q] /\ processed'[q] > 0
  BY <1>2, <1>7, <1>9
<1> HIDE DEF p
<1> QED
  BY <1>1, <1>2, <1>4, <1>5, <1>6, <1>7, <1>12, <1>13, <1>14, <1>15, RespondKeeps

\* An agent works on a request that nobody waits for any more.
LEMMA LateAnswerKeeps ==
  ASSUME AgentsInv, NEW k \in AgentKinds, NEW r \in requests[k],
         ~(step[r.pod] = "ask" /\ r = Agents!Request(r.pod)), Agents!AgentAnswers(k, r)
  PROVE  AgentsInv'
<1>1. /\ requests' = [requests EXCEPT ![k] = requests[k] \ {r}]
      /\ UNCHANGED <<answer, pod, mailbox, handling, step, kind, retrying, registry, agent,
                     queryDisturbed>>
  BY DEF Agents!AgentAnswers, Agents!orchestratorVars
<1>2. PICK q \in Queries : q = r.query
  BY DEF AgentsInv, AgentTypes, Messages
<1>3. r \in Messages /\ pod[q] = r.pod /\ r.pod \in Pods /\ processed[q] <= 1
      /\ processed[q] \in Nat
  BY <1>2 DEF AgentsInv, AgentTypes, Messages, RequestsCounted
<1>4. PICK what \in Outcomes :
        /\ processed' = [processed EXCEPT ![q] = processed[q] + 1]
        /\ outcomes' = [outcomes EXCEPT ![q] = outcomes[q] \cup {what}]
  BY <1>2, OutcomesOfAgents DEF Agents!AgentAnswers, Agents!Process
<1>5. AgentTypes'
  BY <1>1, <1>4 DEF AgentsInv, AgentTypes
<1>6. /\ processed'[q] = processed[q] + 1
      /\ \A s \in Queries \ {q} : processed'[s] = processed[s]
  BY <1>4 DEF AgentsInv, AgentTypes
<1>7. \A s \in Queries : outcomes[s] \subseteq outcomes'[s]
  <2>1. outcomes'[q] = outcomes[q] \cup {what}
    BY <1>4 DEF AgentsInv, AgentTypes
  <2>2. \A s \in Queries \ {q} : outcomes'[s] = outcomes[s]
    BY <1>4 DEF AgentsInv, AgentTypes
  <2> QED
    BY <2>1, <2>2
<1>8. \A l \in AgentKinds : \A s \in requests'[l] : s \in requests[l] /\ s \in Messages
  BY <1>1 DEF AgentsInv, AgentTypes
<1>9. \A l \in AgentKinds : \A s \in requests'[l] : s.query = q => l = k /\ s # r
  BY <1>1, <1>2, <1>8 DEF AgentsInv, AgentTypes, RequestsCounted
<1>10. \A l \in AgentKinds : \A s \in Messages :
         s.query # q => (s \in requests'[l] <=> s \in requests[l])
  BY <1>1, <1>2 DEF AgentsInv, AgentTypes
<1>11. ~NotRequested(q)
  BY <1>2 DEF NotRequested
<1>12. ASSUME NEW s \in Queries, Untouched(s) PROVE Untouched(s)'
  BY <1>6, <1>8, <1>11, <1>12 DEF Untouched, NotRequested
<1>13. Placed'
  BY <1>1 DEF AgentsInv, Placed
<1>14. Waiting'
  <2>1. \A s \in Queries : pod'[s] = None => answer'[s] = "none" /\ Untouched(s)'
    BY <1>1, <1>12 DEF AgentsInv, Waiting
  <2>2. ASSUME NEW o \in Pods, NEW i \in 1 .. Len(mailbox'[o])
        PROVE  /\ Untouched(mailbox[o][i])'
               /\ answer'[mailbox'[o][i]] # "none" => queryDisturbed'[mailbox'[o][i]]
    <3>1. PICK s \in Queries : s = mailbox[o][i] /\ s = mailbox'[o][i]
      BY <1>1 DEF AgentsInv, AgentTypes
    <3>2. Untouched(s) /\ (answer[s] # "none" => queryDisturbed[s])
      BY <1>1, <3>1 DEF AgentsInv, Waiting
    <3>3. Untouched(s)'
      BY <1>12, <3>2
    <3> QED
      BY <1>1, <3>1, <3>2, <3>3
  <2> QED
    BY <2>1, <2>2 DEF Waiting
<1>15. Handled'
  <2>1. ASSUME NEW o \in Pods, handling[o] # None PROVE StageOf(o, handling[o])'
    <3>1. PICK s \in Queries : s = handling[o] /\ s = handling'[o]
      BY <1>1, <2>1 DEF AgentsInv, AgentTypes
    <3>2. StageOf(o, s) /\ kind[o] \in AgentKinds /\ retrying[o] \in BOOLEAN /\ pod[s] = o
      <4>1. step[o] # "none"
        BY <2>1 DEF AgentsInv, Placed
      <4> QED
        BY <3>1, <4>1, HandledFacts
    <3>3. CASE s # q
      <4>1. answer'[s] # "none" => queryDisturbed'[s]
        BY <1>1, <3>2 DEF StageOf
      <4>2. \A l \in AgentKinds : requests'[l] \subseteq Messages
        BY <1>8
      <4>3. \A l \in AgentKinds : \A t \in requests[l] : t.query = s => t \in requests'[l]
        BY <1>10, <3>3 DEF AgentsInv, AgentTypes
      <4>4. StageOf(o, s)'
        BY <1>1, <1>6, <1>8, <3>1, <3>2, <3>3, <4>1, <4>2, <4>3, StageKeeps
      <4> QED
        BY <3>1, <4>4
    <3>4. CASE s = q
      <4>1. o = r.pod /\ s = r.query
        BY <1>2, <1>3, <3>2, <3>4
      <4>2. retrying[o]
        <5> SUFFICES ASSUME ~retrying[o] PROVE FALSE
          OBVIOUS
        <5>1. step[o] = "ask" /\ ~r.retry
          BY <1>2, <1>11, <3>2, <3>4 DEF StageOf, Untouched
        <5>2. r.retry = FALSE /\ retrying[o] = FALSE
          BY <1>3, <3>2, <5>1 DEF Messages
        <5>3. /\ Agents!Request(o) \in Messages /\ Agents!Request(o).query = s
              /\ Agents!Request(o).pod = o /\ Agents!Request(o).retry = FALSE
          BY <3>1, <5>2 DEF Agents!Request, Messages
        <5>4. r = Agents!Request(o)
          BY <1>3, <4>1, <5>2, <5>3, MessagesEqual
        <5> QED
          BY <4>1, <5>1, <5>4
      <4>3. queryDisturbed[s] /\ step[o] # "direct"
        BY <3>2, <4>2 DEF StageOf
      <4>4. step[o] # "ask" => processed'[s] = 1 /\ NotRequested(s)'
        <5> SUFFICES ASSUME step[o] # "ask" PROVE processed'[s] = 1 /\ NotRequested(s)'
          OBVIOUS
        <5>1. processed[s] = 0 /\ ~r.retry
          BY <1>2, <3>2, <3>4, <4>2 DEF StageOf
        <5>2. ASSUME NEW l \in AgentKinds, NEW t \in requests'[l], t.query = s PROVE FALSE
          <6>1. t \in requests[l] /\ t \in Messages /\ t # r
            BY <1>8, <1>9, <3>4, <5>2
          <6>2. ~t.retry /\ t.pod = o
            BY <3>2, <4>2, <5>2, <6>1 DEF StageOf, AgentsInv, RequestsCounted
          <6>3. t.retry = r.retry
            BY <1>3, <5>1, <6>1, <6>2 DEF Messages
          <6> QED
            BY <1>3, <4>1, <5>2, <6>1, <6>2, <6>3, MessagesEqual
        <5> QED
          BY <1>6, <3>4, <5>1, <5>2 DEF NotRequested
      <4>5. StageOf(o, s)'
        <5>1. \A l \in AgentKinds : \A t \in requests'[l] : t.query = s => l = kind'[o]
          BY <1>1, <1>8, <3>2 DEF StageOf
        <5> QED
          BY <1>1, <4>2, <4>3, <4>4, <5>1 DEF StageOf, NotRequested
      <4> QED
        BY <3>1, <4>5
    <3> QED
      BY <3>3, <3>4
  <2> QED
    BY <1>1, <2>1 DEF Handled
<1>16. RequestsCounted'
  <2>1. ASSUME NEW l \in AgentKinds, NEW s \in requests'[l],
               NEW j \in AgentKinds, NEW t \in requests'[j], t.query = s.query
        PROVE  /\ pod'[s.query] = s.pod
               /\ processed'[s.query] <= 1
               /\ j = l /\ (t # s => processed'[s.query] = 0)
    <3>1. /\ s \in requests[l] /\ s \in Messages /\ t \in requests[j] /\ t \in Messages
          /\ pod[s.query] = s.pod /\ pod[t.query] = t.pod
          /\ processed[s.query] <= 1
          /\ j = l /\ (t # s => processed[s.query] = 0)
      BY <1>8, <2>1 DEF AgentsInv, RequestsCounted
    <3>2. CASE s.query # q
      BY <1>1, <1>6, <3>1, <3>2 DEF Messages
    <3>3. CASE s.query = q
      <4>1. s # r /\ t # r /\ s.pod = r.pod /\ t.pod = r.pod
        BY <1>3, <1>9, <2>1, <3>1, <3>3
      <4>2. processed[q] = 0
        BY <1>2, <3>1, <3>3, <4>1 DEF AgentsInv, RequestsCounted
      <4>3. s.retry # r.retry /\ t.retry # r.retry
        BY <1>2, <1>3, <2>1, <3>1, <3>3, <4>1, MessagesEqual
      <4>4. s.retry = t.retry
        BY <1>3, <3>1, <4>3 DEF Messages
      <4>5. s = t
        BY <2>1, <3>1, <4>1, <4>4, MessagesEqual
      <4> QED
        BY <1>1, <1>6, <3>1, <3>3, <4>2, <4>5
    <3> QED
      BY <3>2, <3>3
  <2> QED
    BY <2>1 DEF RequestsCounted
<1>17. Answered' /\ Accounted'
  <2>1. ASSUME NEW s \in Queries, answer'[s] # "none", ~queryDisturbed'[s]
        PROVE  NotRequested(s)' /\ processed'[s] = 1
    <3>1. NotRequested(s) /\ processed[s] = 1
      BY <1>1, <2>1 DEF AgentsInv, Answered, Accounted
    <3> QED
      BY <1>6, <1>8, <1>11, <3>1 DEF NotRequested
  <2>2. ASSUME NEW s \in Queries
        PROVE  /\ answer'[s] = "error" => queryDisturbed'[s] \/ "error" \in outcomes'[s]
               /\ answer'[s] \in Agents!Results => answer'[s] \in outcomes'[s]
               /\ processed'[s] <= 2
    BY <1>1, <1>3, <1>6, <1>7 DEF AgentsInv, Accounted
  <2> QED
    BY <2>1, <2>2 DEF Answered, Accounted
<1> QED
  BY <1>5, <1>13, <1>14, <1>15, <1>16, <1>17 DEF AgentsInv

\* Requests are lost with their agents, which every query under way may feel.
LEMMA LossKeeps ==
  ASSUME AgentsInv, Agents!Fault, UNCHANGED <<pod, processed, outcomes>>,
         requests' \in [AgentKinds -> SUBSET Messages],
         \A k \in AgentKinds : requests'[k] \subseteq requests[k],
         \A q \in Queries : answer'[q] # answer[q] =>
           answer[q] = "none" /\ pod[q] # None /\ answer'[q] = "error",
         \A p \in Pods :
           \/ /\ mailbox'[p] = mailbox[p] /\ handling'[p] = handling[p]
              /\ step'[p] = step[p] /\ kind'[p] = kind[p] /\ retrying'[p] = retrying[p]
           \/ /\ mailbox'[p] = <<>> /\ handling'[p] = None
              /\ step'[p] = "none" /\ ~retrying'[p]
  PROVE  /\ Placed' /\ Waiting' /\ Handled' /\ RequestsCounted' /\ Answered' /\ Accounted'
         /\ queryDisturbed' \in [Queries -> BOOLEAN]
<1>1. /\ queryDisturbed' \in [Queries -> BOOLEAN]
      /\ \A q \in Queries : queryDisturbed[q] => queryDisturbed'[q]
      /\ \A q \in Queries : pod[q] # None /\ answer[q] = "none" => queryDisturbed'[q]
      /\ \A p \in Pods : handling[p] # None => queryDisturbed'[handling[p]]
  BY FaultFelt
<1>2. ASSUME NEW q \in Queries, answer'[q] # answer[q] PROVE queryDisturbed'[q]
  BY <1>1, <1>2
<1>3. ASSUME NEW q \in Queries, NotRequested(q) PROVE NotRequested(q)'
  BY <1>3 DEF NotRequested
<1>4. ASSUME NEW p \in Pods, NEW i \in 1 .. Len(mailbox'[p])
      PROVE  i \in 1 .. Len(mailbox[p]) /\ mailbox'[p] = mailbox[p] /\ handling'[p] = handling[p]
  <2>1. mailbox'[p] # <<>>
    BY <1>4
  <2> QED
    BY <2>1
<1>5. Placed'
  <2>1. ASSUME NEW p \in Pods
        PROVE  /\ handling'[p] = None <=> step'[p] = "none"
               /\ handling'[p] = None => ~retrying'[p]
               /\ handling'[p] # None => kind'[p] \in AgentKinds /\ pod'[handling'[p]] = p
    BY DEF AgentsInv, Placed
  <2>2. ASSUME NEW p \in Pods, NEW i \in 1 .. Len(mailbox'[p])
        PROVE  /\ pod'[mailbox'[p][i]] = p
               /\ mailbox'[p][i] # handling'[p]
               /\ \A j \in 1 .. Len(mailbox'[p]) : mailbox'[p][i] = mailbox'[p][j] => i = j
    BY <1>4 DEF AgentsInv, Placed
  <2> QED
    BY <2>1, <2>2 DEF Placed
<1>6. Waiting'
  <2>1. \A q \in Queries : pod'[q] = None => answer'[q] = "none" /\ Untouched(q)'
    BY <1>3 DEF AgentsInv, Waiting, Untouched
  <2>2. ASSUME NEW p \in Pods, NEW i \in 1 .. Len(mailbox'[p])
        PROVE  /\ Untouched(mailbox[p][i])'
               /\ answer'[mailbox'[p][i]] # "none" => queryDisturbed'[mailbox'[p][i]]
    <3>1. i \in 1 .. Len(mailbox[p]) /\ mailbox'[p] = mailbox[p]
      BY <1>4
    <3>2. PICK q \in Queries : q = mailbox[p][i] /\ q = mailbox'[p][i]
      BY <3>1 DEF AgentsInv, AgentTypes
    <3>3. Untouched(q) /\ (answer[q] # "none" => queryDisturbed[q])
      BY <3>1, <3>2 DEF AgentsInv, Waiting
    <3>4. Untouched(q)'
      BY <1>3, <3>3 DEF Untouched
    <3> QED
      BY <1>1, <1>2, <3>2, <3>3, <3>4
  <2> QED
    BY <2>1, <2>2 DEF Waiting
<1>7. Handled'
  <2>1. ASSUME NEW p \in Pods, handling'[p] # None PROVE StageOf(p, handling[p])'
    <3>1. /\ handling'[p] = handling[p] /\ step'[p] = step[p] /\ kind'[p] = kind[p]
          /\ retrying'[p] = retrying[p]
      BY <2>1
    <3>2. step[p] # "none"
      BY <2>1, <3>1 DEF AgentsInv, Placed
    <3>3. PICK q \in Queries : /\ q = handling[p] /\ StageOf(p, q) /\ kind[p] \in AgentKinds
                               /\ retrying[p] \in BOOLEAN
      BY <3>2, HandledFacts
    <3>4. queryDisturbed'[q]
      BY <1>1, <2>1, <3>1, <3>3
    <3>5. StageOf(p, q)'
      BY <3>1, <3>3, <3>4, StageKeeps
    <3> QED
      BY <3>1, <3>3, <3>5
  <2> QED
    BY <2>1 DEF Handled
<1>8. RequestsCounted'
  BY DEF AgentsInv, RequestsCounted
<1>9. Answered'
  <2>1. ASSUME NEW q \in Queries, answer'[q] # "none", ~queryDisturbed'[q] PROVE NotRequested(q)'
    BY <1>1, <1>2, <1>3, <2>1 DEF AgentsInv, Answered
  <2> QED
    BY <2>1 DEF Answered
<1>10. Accounted'
  BY <1>1, <1>2 DEF AgentsInv, Accounted, Agents!Results
<1> QED
  BY <1>1, <1>5, <1>6, <1>7, <1>8, <1>9, <1>10

\* A pod dies with what waits and what is handled there.
LEMMA CrashPodKeeps ==
  ASSUME AgentsInv, NEW p \in Pods, Agents!CrashPod(p) PROVE AgentsInv'
<1> DEFINE gone == {k \in AgentKinds : agent[k] = p}
           here == {q \in Agents!UnderWay : pod[q] = p}
<1>1. /\ Agents!Fault
      /\ agent' = [k \in AgentKinds |-> IF k \in gone THEN None ELSE agent[k]]
      /\ requests' = [k \in AgentKinds |-> IF k \in gone THEN {} ELSE requests[k]]
      /\ answer' = [q \in Queries |-> IF q \in here THEN "error" ELSE answer[q]]
      /\ mailbox' = [mailbox EXCEPT ![p] = <<>>]
      /\ handling' = [handling EXCEPT ![p] = None]
      /\ step' = [step EXCEPT ![p] = "none"]
      /\ kind' = [kind EXCEPT ![p] = None]
      /\ retrying' = [retrying EXCEPT ![p] = FALSE]
      /\ UNCHANGED <<pod, registry, processed, outcomes>>
  BY DEF Agents!CrashPod
<1>2. requests' \in [AgentKinds -> SUBSET Messages]
      /\ \A k \in AgentKinds : requests'[k] \subseteq requests[k]
  BY <1>1 DEF AgentsInv, AgentTypes
<1>3. \A q \in Queries : answer'[q] # answer[q] =>
        answer[q] = "none" /\ pod[q] # None /\ answer'[q] = "error"
  BY <1>1 DEF Agents!UnderWay
<1>4. \A o \in Pods :
        \/ /\ mailbox'[o] = mailbox[o] /\ handling'[o] = handling[o]
           /\ step'[o] = step[o] /\ kind'[o] = kind[o] /\ retrying'[o] = retrying[o]
        \/ /\ mailbox'[o] = <<>> /\ handling'[o] = None
           /\ step'[o] = "none" /\ ~retrying'[o]
  <2> TAKE o \in Pods
  <2>1. CASE o = p
    BY <1>1, <2>1 DEF AgentsInv, AgentTypes
  <2>2. CASE o # p
    BY <1>1, <2>2 DEF AgentsInv, AgentTypes
  <2> QED
    BY <2>1, <2>2
<1>5. /\ Placed' /\ Waiting' /\ Handled' /\ RequestsCounted' /\ Answered' /\ Accounted'
      /\ queryDisturbed' \in [Queries -> BOOLEAN]
  BY <1>1, <1>2, <1>3, <1>4, LossKeeps
<1>6. AgentTypes'
  <2>1. answer' \in [Queries -> Outcomes \cup {"none"}]
    BY <1>1 DEF AgentsInv, AgentTypes, Outcomes
  <2>2. mailbox' \in [Pods -> Seq(Queries)]
    BY <1>1 DEF AgentsInv, AgentTypes
  <2>3. agent' \in [AgentKinds -> Pods \cup {None}]
    BY <1>1 DEF AgentsInv, AgentTypes
  <2> HIDE DEF gone, here
  <2>4. /\ handling' \in [Pods -> Queries \cup {None}]
        /\ step' \in [Pods -> {"none", "locate", "spawn", "ask", "direct"}]
        /\ kind' \in [Pods -> AgentKinds \cup {None}]
        /\ retrying' \in [Pods -> BOOLEAN]
    BY <1>1 DEF AgentsInv, AgentTypes
  <2> QED
    BY <1>1, <1>2, <1>5, <2>1, <2>2, <2>3, <2>4 DEF AgentsInv, AgentTypes
<1> QED
  BY <1>5, <1>6 DEF AgentsInv

\* Agents move, and what they had to handle is lost.
LEMMA RelocateKeeps ==
  ASSUME AgentsInv, NEW k \in AgentKinds, NEW p \in Pods, Agents!Relocate(k, p)
  PROVE  AgentsInv'
<1>1. /\ Agents!Fault
      /\ agent' = [agent EXCEPT ![k] = p]
      /\ registry' = [registry EXCEPT ![k] = p]
      /\ requests' = [requests EXCEPT ![k] = {}]
      /\ UNCHANGED <<answer, pod, mailbox, handling, step, kind, retrying, processed, outcomes>>
  BY DEF Agents!Relocate, Agents!orchestratorVars
<1>2. /\ requests' \in [AgentKinds -> SUBSET Messages]
      /\ \A l \in AgentKinds : requests'[l] \subseteq requests[l]
  BY <1>1 DEF AgentsInv, AgentTypes
<1>3. /\ Placed' /\ Waiting' /\ Handled' /\ RequestsCounted' /\ Answered' /\ Accounted'
      /\ queryDisturbed' \in [Queries -> BOOLEAN]
  BY <1>1, <1>2, LossKeeps
<1>4. AgentTypes'
  BY <1>1, <1>2, <1>3 DEF AgentsInv, AgentTypes
<1> QED
  BY <1>3, <1>4 DEF AgentsInv

\* The registry forgets an agent, or nothing happens.
LEMMA RegistryKeeps ==
  ASSUME AgentsInv, registry' \in [AgentKinds -> Pods \cup {None}],
         UNCHANGED <<answer, pod, mailbox, handling, step, kind, retrying, agent, requests,
                     processed, outcomes, queryDisturbed>>
  PROVE  AgentsInv'
<1>1. AgentTypes' /\ Placed'
  BY DEF AgentsInv, AgentTypes, Placed
<1>2. Waiting' /\ Answered' /\ Accounted'
  BY DEF AgentsInv, Waiting, Untouched, NotRequested, Answered, Accounted
<1>3. Handled'
  BY DEF AgentsInv, Handled, StageOf, Untouched, NotRequested, Agents!Request
<1>4. RequestsCounted'
  BY DEF AgentsInv, RequestsCounted
<1> QED
  BY <1>1, <1>2, <1>3, <1>4 DEF AgentsInv

LEMMA AgentsStep ==
  ASSUME AgentsInv, [Agents!Next]_(Agents!vars) PROVE AgentsInv'
<1>1. ASSUME NEW k \in AgentKinds, Agents!Forget(k) PROVE AgentsInv'
  <2>1. registry' \in [AgentKinds -> Pods \cup {None}]
    BY <1>1 DEF Agents!Forget, AgentsInv, AgentTypes
  <2> QED
    BY <1>1, <2>1, RegistryKeeps DEF Agents!Forget, Agents!orchestratorVars
<1>2. ASSUME UNCHANGED Agents!vars PROVE AgentsInv'
  <2>1. registry' \in [AgentKinds -> Pods \cup {None}]
    BY <1>2 DEF Agents!vars, Agents!clusterVars, AgentsInv, AgentTypes
  <2> QED
    BY <1>2, <2>1, RegistryKeeps DEF Agents!vars, Agents!orchestratorVars, Agents!clusterVars
<1>3. ASSUME NEW k \in AgentKinds, NEW r \in requests[k], Agents!AgentAnswers(k, r)
      PROVE  AgentsInv'
  BY <1>3, AwaitedAnswerKeeps, LateAnswerKeeps
<1> QED
  BY <1>1, <1>2, <1>3, SubmitKeeps, GiveUpKeeps, ReceiveKeeps, LocateKeeps, SpawnAgentKeeps,
     SpawnRefusedKeeps, DirectKeeps, AskFailsKeeps, CrashPodKeeps, RelocateKeeps
     DEF Agents!Next

\* Where every pod has a client for a model, nobody makes up an answer, and the
\* pods stay as they are.
Unconfigured == configured # Pods
NoCanned == Unconfigured \/ \A q \in Queries : "canned" \notin outcomes[q]

\* Only Process adds to what came of a query: on a pod, which an agent is always
\* on when it answers (completeWithLLM).
LEMMA NoCannedStep ==
  ASSUME AgentsInv, NoCanned, [Agents!Next]_(Agents!vars) PROVE NoCanned'
<1>1. configured' = configured
  BY DEF Agents!Next, Agents!vars, Agents!clusterVars, Agents!GiveUp, Agents!Submit,
     Agents!Receive, Agents!Locate, Agents!SpawnAgent, Agents!SpawnRefused, Agents!Direct,
     Agents!AskFails, Agents!CrashPod, Agents!AgentAnswers, Agents!Forget, Agents!Relocate
<1> SUFFICES ASSUME ~Unconfigured PROVE \A q \in Queries : "canned" \notin outcomes'[q]
  BY <1>1 DEF NoCanned, Unconfigured
<1>2. \A p \in Pods : "canned" \notin Agents!Completions(p)
  BY DEF Unconfigured, Agents!Completions
<1>3. ASSUME NEW q, NEW what, what # "canned", Agents!Process(q, what)
      PROVE  \A r \in Queries : "canned" \notin outcomes'[r]
  BY <1>3 DEF Agents!Process, NoCanned, AgentsInv, AgentTypes
<1>4. ASSUME NEW p \in Pods, Agents!Direct(p)
      PROVE  \A q \in Queries : "canned" \notin outcomes'[q]
  BY <1>2, <1>3, <1>4 DEF Agents!Direct
<1>5. ASSUME NEW k \in AgentKinds, NEW r \in requests[k], Agents!AgentAnswers(k, r)
      PROVE  \A q \in Queries : "canned" \notin outcomes'[q]
  <2>1. agent[k] \in Pods
    BY <1>5 DEF Agents!AgentAnswers, AgentsInv, AgentTypes
  <2>2. "canned" \notin Agents!Answers(k)
    BY <1>2, <2>1 DEF Agents!Answers
  <2> QED
    BY <1>3, <1>5, <2>2 DEF Agents!AgentAnswers
<1>6. CASE UNCHANGED outcomes
  BY <1>6 DEF NoCanned
<1>7. \/ UNCHANGED outcomes
      \/ \E p \in Pods : Agents!Direct(p)
      \/ \E k \in AgentKinds : \E r \in requests[k] : Agents!AgentAnswers(k, r)
  BY DEF Agents!Next, Agents!vars, Agents!GiveUp, Agents!Submit, Agents!Receive, Agents!Locate,
     Agents!SpawnAgent, Agents!SpawnRefused, Agents!AskFails, Agents!CrashPod, Agents!Forget,
     Agents!Relocate
<1> QED
  BY <1>4, <1>5, <1>6, <1>7

\* goakt-ai: a query is worked on at most twice, once if nothing happens to it,
\* an error has a reason, its client is told what came of it, and that is the
\* fixed text of an agent without a client only where a pod has none, for any
\* number of pods, queries and kinds of agents (handleSubmitQuery,
\* getOrSpawnAgent, completeWithLLM).
THEOREM AnswersOfAgents == Agents!Spec => []QueriesAnswered
<1>1. Agents!Init => AgentsInv /\ NoCanned
  <2>1. Agents!Init => NoCanned
    BY DEF Agents!Init, NoCanned
  <2> QED
    BY <2>1, AgentsStart
<1>2. AgentsInv /\ NoCanned /\ [Agents!Next]_(Agents!vars) => AgentsInv' /\ NoCanned'
  BY AgentsStep, NoCannedStep
<1>3. AgentsInv /\ NoCanned => QueriesAnswered
  <2>1. ASSUME AgentsInv, NoCanned, configured = Pods, NEW q \in Queries
        PROVE  answer[q] # "canned"
    BY <2>1 DEF AgentsInv, Accounted, NoCanned, Unconfigured, Agents!Results
  <2> QED
    BY <2>1 DEF AgentsInv, Accounted, QueriesAnswered, Agents!QueriesAnswered
<1> QED
  BY <1>1, <1>2, <1>3, PTL DEF Agents!Spec

-----------------------------------------------------------------------------
(***************************************************************************)
(* The results of the games.  What has been played is what the profiles    *)
(* and the leaderboard show and what the tasks under way will add to it.   *)
(* In the counter of a player every node adds to an entry of its own, which*)
(* nobody knows better, and what the nodes know of themselves adds up to   *)
(* the wins.                                                               *)
(***************************************************************************)
Profiles == [games : Nat, wins : Nat]
ProfileTasks == [type : {"profile"}, game : Nat, player : Recorded, won : BOOLEAN]
WinTasks == [type : {"increment", "index"}, game : Nat, player : Results!Table, node : Pods]

ResultTypes ==
  /\ store \in [Recorded -> Profiles]
  /\ grain \in [Recorded -> Profiles \cup {None}]
  /\ counter \in [Pods -> [Results!Table -> [Pods -> Nat]]]
  /\ index \in [Pods -> SUBSET Results!Table]
  /\ tasks \in SUBSET (ProfileTasks \cup WinTasks)
  /\ IsFiniteSet(tasks)
  /\ played \in [Results!Table -> Profiles]
  /\ disturbed \in BOOLEAN

\* The games a profile has not been told yet, and those of them that were won.
Untold(p) == {t \in tasks : t.type = "profile" /\ t.player = p}
UntoldWins(p) == {t \in Untold(p) : t.won}

\* The wins that are not counted yet, and what the nodes themselves counted.
Uncounted(p) == {t \in tasks : t.type = "increment" /\ t.player = p}
OwnCounts(p) == [m \in Pods |-> counter[m][p][m]]

\* Everybody has played all games, and a task is about one of them.
GamesAlike ==
  /\ \A p, q \in Results!Table : played[p].games = played[q].games
  /\ \A t \in tasks : \A p \in Results!Table : t.game < played[p].games

ProfilesBelow ==
  \A p \in Recorded :
    /\ store[p].games + Cardinality(Untold(p)) <= played[p].games
    /\ grain[p] # None => grain[p].games + Cardinality(Untold(p)) <= played[p].games

ProfilesExact ==
  ~disturbed => \A p \in Recorded :
    /\ Results!Profile(p).games + Cardinality(Untold(p)) = played[p].games
    /\ Results!Profile(p).wins + Cardinality(UntoldWins(p)) = played[p].wins

OwnCountsLead ==
  \A n, m \in Pods : \A p \in Results!Table : counter[n][p][m] <= counter[m][p][m]

WinsCounted ==
  \A p \in Results!Table :
    /\ SumFunctionOnSet(OwnCounts(p), Pods) + Cardinality(Uncounted(p)) <= played[p].wins
    /\ ~disturbed =>
         SumFunctionOnSet(OwnCounts(p), Pods) + Cardinality(Uncounted(p)) = played[p].wins

WinnersListed ==
  /\ \A n \in Pods : \A p \in index[n] : played[p].wins > 0
  /\ \A t \in tasks : t.type # "profile" => played[t.player].wins > 0
  /\ ~disturbed => \A p \in Results!Table : played[p].wins > 0 =>
       \/ \E t \in tasks : t.type # "profile" /\ t.player = p
       \/ \E n \in Pods : p \in index[n]

ResultsInv ==
  /\ ResultTypes /\ GamesAlike /\ ProfilesBelow /\ ProfilesExact
  /\ OwnCountsLead /\ WinsCounted /\ WinnersListed

\* The leaderboard adds up as the laws of sums say.
LEMMA TopSum ==
  ASSUME NEW f, NEW S PROVE Results!SumFunctionOnSet(f, S) = SumFunctionOnSet(f, S)
  BY DEF Results!SumFunctionOnSet, Results!FoldFunctionOnSet, Results!MapThenFoldSet,
     SumFunctionOnSet, FoldFunctionOnSet, MapThenFoldSet

LEMMA ResultsStart ==
  ASSUME Results!Init PROVE ResultsInv
<1>1. tasks = {} /\ ResultTypes
  BY FS_EmptySet DEF Results!Init, ResultTypes, Results!NoProfile, Profiles
<1>2. ASSUME NEW p
      PROVE  /\ Cardinality(Untold(p)) = 0 /\ Cardinality(UntoldWins(p)) = 0
             /\ Cardinality(Uncounted(p)) = 0
  <2>1. Untold(p) = {} /\ UntoldWins(p) = {} /\ Uncounted(p) = {}
    BY <1>1 DEF Untold, UntoldWins, Uncounted
  <2> QED
    BY <2>1, FS_EmptySet
<1>3. /\ \A p \in Recorded : /\ store[p].games = 0 /\ store[p].wins = 0 /\ grain[p] = None
                              /\ p \in Results!Table
      /\ \A p \in Results!Table : played[p].games = 0 /\ played[p].wins = 0
  BY DEF Results!Init, Results!NoProfile, Results!Table
<1>4. GamesAlike /\ WinnersListed
  BY <1>1 DEF Results!Init, GamesAlike, WinnersListed, Results!NoProfile
<1>5. ProfilesBelow /\ ProfilesExact
  BY <1>2, <1>3 DEF ProfilesBelow, ProfilesExact, Results!Profile
<1>6. OwnCountsLead
  BY DEF Results!Init, OwnCountsLead
<1>7. WinsCounted
  <2>1. ASSUME NEW p \in Results!Table PROVE SumFunctionOnSet(OwnCounts(p), Pods) = 0
    <3>1. \A m \in Pods : OwnCounts(p)[m] = 0
      BY <2>1 DEF Results!Init, OwnCounts
    <3> QED
      BY <3>1, SumZero, ResultsAssumption
  <2> QED
    BY <1>2, <1>3, <2>1 DEF WinsCounted
<1> QED
  BY <1>1, <1>4, <1>5, <1>6, <1>7 DEF ResultsInv

LEMMA PartsFinite ==
  ASSUME ResultTypes, NEW p
  PROVE  /\ IsFiniteSet(Untold(p)) /\ Cardinality(Untold(p)) \in Nat
         /\ IsFiniteSet(UntoldWins(p)) /\ Cardinality(UntoldWins(p)) \in Nat
         /\ IsFiniteSet(Uncounted(p)) /\ Cardinality(Uncounted(p)) \in Nat
<1>1. Untold(p) \subseteq tasks /\ UntoldWins(p) \subseteq tasks /\ Uncounted(p) \subseteq tasks
  BY DEF Untold, UntoldWins, Uncounted
<1> QED
  BY <1>1, FS_Subset, FS_CardinalityType DEF ResultTypes

LEMMA OneMore ==
  ASSUME NEW S, IsFiniteSet(S), NEW x, x \notin S
  PROVE  Cardinality(S \cup {x}) = Cardinality(S) + 1
  BY FS_AddElement

LEMMA OneLess ==
  ASSUME NEW S, IsFiniteSet(S), NEW x \in S
  PROVE  Cardinality(S \ {x}) = Cardinality(S) - 1 /\ Cardinality(S) > 0
  BY FS_RemoveElement, FS_CardinalityType, FS_EmptySet

\* What the nodes counted themselves adds up to a number.
LEMMA OwnSum ==
  ASSUME ResultTypes, NEW p \in Results!Table
  PROVE  /\ \A m \in Pods : OwnCounts(p)[m] \in Nat
         /\ SumFunctionOnSet(OwnCounts(p), Pods) \in Int
<1>1. \A m \in Pods : OwnCounts(p)[m] \in Nat
  BY DEF ResultTypes, OwnCounts
<1> QED
  BY <1>1, SumInt, ResultsAssumption

\* What the invariant says of what may be read.
LEMMA ResultsFollow ==
  ASSUME ResultsInv PROVE ResultsAgree
<1>1. ASSUME NEW p \in Recorded PROVE Results!Profile(p).games <= played[p].games
  <2>1. /\ Cardinality(Untold(p)) \in Nat /\ played[p].games \in Nat /\ store[p].games \in Nat
        /\ grain[p] # None => grain[p].games \in Nat
    BY PartsFinite DEF ResultsInv, ResultTypes, Profiles, Results!Table
  <2> QED
    BY <2>1 DEF ResultsInv, ProfilesBelow, Results!Profile
<1>2. ASSUME NEW n \in Pods, NEW p \in index[n]
      PROVE  /\ p \in Results!Table
             /\ Results!Top(n)[p] = SumFunctionOnSet(counter[n][p], Pods)
             /\ SumFunctionOnSet(counter[n][p], Pods) <= SumFunctionOnSet(OwnCounts(p), Pods)
             /\ SumFunctionOnSet(counter[n][p], Pods) \in Int
  <2>1. p \in Results!Table
    BY DEF ResultsInv, ResultTypes
  <2>2. \A m \in Pods : /\ counter[n][p][m] \in Int /\ OwnCounts(p)[m] \in Int
                        /\ counter[n][p][m] <= OwnCounts(p)[m]
    BY <2>1 DEF ResultsInv, ResultTypes, OwnCounts, OwnCountsLead
  <2>3. Results!Top(n)[p] = SumFunctionOnSet(counter[n][p], Pods)
    BY TopSum DEF Results!Top
  <2>4. SumFunctionOnSet(counter[n][p], Pods) <= SumFunctionOnSet(OwnCounts(p), Pods)
    BY <2>2, SumOrder, ResultsAssumption
  <2>5. SumFunctionOnSet(counter[n][p], Pods) \in Int
    BY <2>2, SumInt, ResultsAssumption
  <2> QED
    BY <2>1, <2>3, <2>4, <2>5
<1>3. ASSUME NEW n \in Pods, NEW p \in index[n] PROVE Results!Top(n)[p] <= played[p].wins
  <2>1. p \in Results!Table
    BY <1>2
  <2>2. /\ SumFunctionOnSet(OwnCounts(p), Pods) + Cardinality(Uncounted(p)) <= played[p].wins
        /\ played[p].wins \in Nat
    BY <2>1 DEF ResultsInv, WinsCounted, ResultTypes, Profiles
  <2>3. Cardinality(Uncounted(p)) \in Nat /\ SumFunctionOnSet(OwnCounts(p), Pods) \in Int
    BY <2>1, PartsFinite, OwnSum DEF ResultsInv
  <2> QED
    BY <1>2, <2>2, <2>3
<1>4. ASSUME tasks = {}, ~disturbed, NEW p \in Recorded PROVE Results!Profile(p) = played[p]
  <2>1. Cardinality(Untold(p)) = 0 /\ Cardinality(UntoldWins(p)) = 0
    <3>1. Untold(p) = {} /\ UntoldWins(p) = {}
      BY <1>4 DEF Untold, UntoldWins
    <3> QED
      BY <3>1, FS_EmptySet
  <2>2. Results!Profile(p) \in Profiles /\ played[p] \in Profiles
    BY DEF ResultsInv, ResultTypes, Results!Profile, Results!Table
  <2>3. Results!Profile(p).games = played[p].games /\ Results!Profile(p).wins = played[p].wins
    BY <1>4, <2>1, <2>2 DEF ResultsInv, ProfilesExact, Profiles
  <2> QED
    BY <2>2, <2>3 DEF Profiles
<1>5. ASSUME tasks = {}, ~disturbed, NEW n \in Pods,
             \A m \in Pods : counter[m] = counter[n] /\ index[m] = index[n]
      PROVE  Results!Top(n) =
               [p \in {q \in Results!Table : played[q].wins > 0} |-> played[p].wins]
  <2>1. index[n] = {q \in Results!Table : played[q].wins > 0}
    BY <1>5 DEF ResultsInv, ResultTypes, WinnersListed
  <2>2. ASSUME NEW p \in index[n] PROVE SumFunctionOnSet(counter[n][p], Pods) = played[p].wins
    <3>1. p \in Results!Table
      BY <1>2
    <3>2. Uncounted(p) = {} /\ Cardinality({}) = 0
      BY <1>5, FS_EmptySet DEF Uncounted
    <3>3. SumFunctionOnSet(OwnCounts(p), Pods) = played[p].wins
      <4>1. SumFunctionOnSet(OwnCounts(p), Pods) \in Int
        BY <3>1, OwnSum DEF ResultsInv
      <4>2. SumFunctionOnSet(OwnCounts(p), Pods) + Cardinality(Uncounted(p)) = played[p].wins
        BY <1>5, <3>1 DEF ResultsInv, WinsCounted
      <4> QED
        BY <3>2, <4>1, <4>2
    <3>4. \A m \in Pods : counter[n][p][m] = OwnCounts(p)[m]
      BY <1>5 DEF OwnCounts
    <3>5. SumFunctionOnSet(counter[n][p], Pods) = SumFunctionOnSet(OwnCounts(p), Pods)
      BY <3>4, SumSame, ResultsAssumption
    <3> QED
      BY <3>3, <3>5
  <2>3. Results!Top(n) = [p \in index[n] |-> SumFunctionOnSet(counter[n][p], Pods)]
    BY TopSum DEF Results!Top
  <2> QED
    BY <2>1, <2>2, <2>3
<1> QED
  BY <1>1, <1>3, <1>4, <1>5 DEF ResultsAgree, Results!ResultsAgree

\* A game ends: its results become tasks, which are none of those under way.
LEMMA RecordResultsKeeps ==
  ASSUME ResultsInv, NEW node \in Pods, Results!RecordResults(node) PROVE ResultsInv'
<1> DEFINE game == Results!Max({played[p].games : p \in Results!Table})
           told(p, w) == [type |-> "profile", game |-> game, player |-> p, won |-> p = w]
           count(p) == [type |-> "increment", game |-> game, player |-> p, node |-> node]
<1>1. PICK winner \in Results!Table \cup {None} :
        /\ played' = [p \in Results!Table |-> Results!Plus(played[p], p = winner)]
        /\ tasks' = tasks \cup {told(p, winner) : p \in Recorded}
                          \cup {count(p) : p \in {winner} \ {None}}
        /\ UNCHANGED <<store, grain, counter, index, disturbed>>
  BY DEF Results!RecordResults
<1>2. ASSUME NEW p \in Results!Table
      PROVE  /\ played[p] \in Profiles /\ played[p].games \in Nat /\ played[p].wins \in Nat
             /\ game = played[p].games /\ game \in Nat
             /\ played'[p].games = game + 1
             /\ played'[p].wins = IF p = winner THEN played[p].wins + 1 ELSE played[p].wins
             /\ played'[p] \in Profiles
  <2>1. played[p] \in Profiles /\ played[p].games \in Nat /\ played[p].wins \in Nat
    BY DEF ResultsInv, ResultTypes, Profiles
  <2>2. {played[q].games : q \in Results!Table} = {played[p].games}
    BY DEF ResultsInv, GamesAlike
  <2>3. Results!Max({played[p].games}) = played[p].games
    BY <2>1 DEF Results!Max
  <2>4. game = played[p].games /\ game \in Nat
    BY <2>1, <2>2, <2>3
  <2> HIDE DEF game
  <2> QED
    BY <1>1, <2>1, <2>4 DEF Results!Plus, Profiles
<1> HIDE DEF game
<1>3. \A p \in Recorded : p \in Results!Table
  BY DEF Results!Table
<1>4. ASSUME NEW p \in Recorded
      PROVE  /\ told(p, winner) \in ProfileTasks /\ told(p, winner).game = game
             /\ told(p, winner).type = "profile" /\ told(p, winner).player = p
             /\ told(p, winner).won = (p = winner)
  BY <1>2, <1>3 DEF ProfileTasks
<1>5. ASSUME NEW p \in {winner} \ {None}
      PROVE  /\ count(p) \in WinTasks /\ count(p).game = game /\ p = winner
             /\ count(p).type = "increment" /\ count(p).player = p /\ p \in Results!Table
  <2>1. p \in Results!Table /\ game \in Nat
    BY <1>2
  <2> QED
    BY <2>1 DEF WinTasks
<1>6. ASSUME NEW t \in tasks, NEW p \in Results!Table PROVE t.game # game /\ t.game < game
  <2>1. t.game < played[p].games /\ t.game \in Nat
    BY DEF ResultsInv, GamesAlike, ResultTypes, ProfileTasks, WinTasks
  <2> QED
    BY <1>2, <2>1
<1>7. ResultTypes'
  <2>1. IsFiniteSet({told(p, winner) : p \in Recorded})
    <3>1. IsFiniteSet(Recorded)
      BY ResultsAssumption, FS_Subset
    <3> DEFINE f == [p \in Recorded |-> told(p, winner)]
    <3>2. f \in Surjection(Recorded, {told(p, winner) : p \in Recorded})
      BY DEF Surjection
    <3> QED
      BY <3>1, <3>2, FS_Surjection
  <2>2. IsFiniteSet({count(p) : p \in {winner} \ {None}})
    <3>1. IsFiniteSet({winner} \ {None})
      BY FS_Singleton, FS_Subset
    <3> DEFINE f == [p \in {winner} \ {None} |-> count(p)]
    <3>2. f \in Surjection({winner} \ {None}, {count(p) : p \in {winner} \ {None}})
      BY DEF Surjection
    <3> QED
      BY <3>1, <3>2, FS_Surjection
  <2>3. IsFiniteSet(tasks')
    BY <1>1, <2>1, <2>2, FS_Union DEF ResultsInv, ResultTypes
  <2>4. tasks' \in SUBSET (ProfileTasks \cup WinTasks)
    BY <1>1, <1>4, <1>5 DEF ResultsInv, ResultTypes
  <2>5. played' \in [Results!Table -> Profiles]
    BY <1>1, <1>2
  <2> QED
    BY <1>1, <2>3, <2>4, <2>5 DEF ResultsInv, ResultTypes
<1>8. ASSUME NEW t \in tasks'
      PROVE  \/ t \in tasks
             \/ \E p \in Recorded : t = told(p, winner)
             \/ \E p \in {winner} \ {None} : t = count(p)
  BY <1>1
<1>9. GamesAlike'
  <2>1. \A p, q \in Results!Table : played'[p].games = played'[q].games
    BY <1>2
  <2>2. ASSUME NEW t \in tasks', NEW p \in Results!Table PROVE t.game < played'[p].games
    <3>1. t.game = game \/ (t \in tasks /\ t.game < game)
      BY <1>4, <1>5, <1>6, <1>8
    <3>2. t \in tasks => t.game \in Nat
      BY DEF ResultsInv, ResultTypes, ProfileTasks, WinTasks
    <3> QED
      BY <1>2, <3>1, <3>2
  <2> QED
    BY <2>1, <2>2 DEF GamesAlike
<1>10. ASSUME NEW p \in Recorded
       PROVE  /\ Cardinality(Untold(p))' = Cardinality(Untold(p)) + 1
              /\ Cardinality(UntoldWins(p))' =
                   IF p = winner THEN Cardinality(UntoldWins(p)) + 1
                   ELSE Cardinality(UntoldWins(p))
  <2>1. told(p, winner) \in tasks' /\ told(p, winner) \notin tasks
    BY <1>1, <1>3, <1>4, <1>6
  <2>2. ASSUME NEW t \in tasks', t.type = "profile", t.player = p
        PROVE  t \in tasks \/ t = told(p, winner)
    BY <1>4, <1>5, <1>8, <2>2
  <2>3. tasks \subseteq tasks'
    BY <1>1
  <2>4. Untold(p)' = Untold(p) \cup {told(p, winner)}
    BY <1>4, <2>1, <2>2, <2>3 DEF Untold
  <2>5. told(p, winner) \notin Untold(p) /\ told(p, winner) \notin UntoldWins(p)
    BY <2>1 DEF Untold, UntoldWins
  <2>6. CASE p = winner
    <3>1. UntoldWins(p)' = UntoldWins(p) \cup {told(p, winner)}
      BY <1>4, <2>4, <2>6 DEF UntoldWins
    <3> QED
      BY <2>4, <2>5, <2>6, <3>1, OneMore, PartsFinite DEF ResultsInv
  <2>7. CASE p # winner
    <3>1. UntoldWins(p)' = UntoldWins(p)
      BY <1>4, <2>4, <2>7 DEF UntoldWins
    <3> QED
      BY <2>4, <2>5, <2>7, <3>1, OneMore, PartsFinite DEF ResultsInv
  <2> QED
    BY <2>6, <2>7
<1>11. ASSUME NEW p \in Results!Table
       PROVE  Cardinality(Uncounted(p))' =
                IF p = winner THEN Cardinality(Uncounted(p)) + 1 ELSE Cardinality(Uncounted(p))
  <2>1. tasks \subseteq tasks'
    BY <1>1
  <2>2. CASE p = winner
    <3>1. p # None /\ p \in {winner} \ {None}
      BY <2>2, ResultsAssumption DEF Results!Table
    <3>2. count(p) \in tasks' /\ count(p) \notin tasks
      BY <1>1, <1>5, <1>6, <3>1
    <3>3. ASSUME NEW t \in tasks', t.type = "increment" PROVE t \in tasks \/ t = count(p)
      BY <1>4, <1>5, <1>8, <2>2, <3>3
    <3>4. Uncounted(p)' = Uncounted(p) \cup {count(p)}
      BY <1>5, <2>1, <3>1, <3>2, <3>3 DEF Uncounted
    <3>5. count(p) \notin Uncounted(p)
      BY <3>2 DEF Uncounted
    <3> QED
      BY <2>2, <3>4, <3>5, OneMore, PartsFinite DEF ResultsInv
  <2>3. CASE p # winner
    <3>1. ASSUME NEW t \in tasks', t.type = "increment", t.player = p PROVE t \in tasks
      BY <1>4, <1>5, <1>8, <2>3, <3>1
    <3>2. Uncounted(p)' = Uncounted(p)
      BY <2>1, <3>1 DEF Uncounted
    <3> QED
      BY <2>3, <3>2
  <2> QED
    BY <2>2, <2>3
<1>12. ProfilesBelow'
  <2> SUFFICES ASSUME NEW p \in Recorded
               PROVE  /\ store'[p].games + Cardinality(Untold(p))' <= played'[p].games
                      /\ grain'[p] # None =>
                           grain'[p].games + Cardinality(Untold(p))' <= played'[p].games
    BY DEF ProfilesBelow
  <2>1. Cardinality(Untold(p)) \in Nat /\ store[p].games \in Nat
        /\ (grain[p] # None => grain[p].games \in Nat)
    BY PartsFinite DEF ResultsInv, ResultTypes, Profiles
  <2>2. /\ store[p].games + Cardinality(Untold(p)) <= played[p].games
        /\ grain[p] # None => grain[p].games + Cardinality(Untold(p)) <= played[p].games
    BY DEF ResultsInv, ProfilesBelow
  <2> QED
    BY <1>1, <1>2, <1>3, <1>10, <2>1, <2>2
<1>13. ProfilesExact'
  <2> SUFFICES ASSUME NEW p \in Recorded, ~disturbed
               PROVE  /\ Results!Profile(p)'.games + Cardinality(Untold(p))' = played'[p].games
                      /\ Results!Profile(p)'.wins + Cardinality(UntoldWins(p))' = played'[p].wins
    BY <1>1 DEF ProfilesExact
  <2>1. Results!Profile(p)' = Results!Profile(p)
    BY <1>1 DEF Results!Profile
  <2>2. /\ Cardinality(Untold(p)) \in Nat /\ Cardinality(UntoldWins(p)) \in Nat
        /\ Results!Profile(p).games \in Nat /\ Results!Profile(p).wins \in Nat
    BY PartsFinite DEF ResultsInv, ResultTypes, Profiles, Results!Profile
  <2>3. /\ Results!Profile(p).games + Cardinality(Untold(p)) = played[p].games
        /\ Results!Profile(p).wins + Cardinality(UntoldWins(p)) = played[p].wins
    BY DEF ResultsInv, ProfilesExact
  <2> QED
    BY <1>2, <1>3, <1>10, <2>1, <2>2, <2>3
<1>14. OwnCountsLead'
  BY <1>1 DEF ResultsInv, OwnCountsLead
<1>15. WinsCounted'
  <2> SUFFICES ASSUME NEW p \in Results!Table
               PROVE  /\ SumFunctionOnSet(OwnCounts(p), Pods)' + Cardinality(Uncounted(p))'
                           <= played'[p].wins
                      /\ ~disturbed' =>
                           SumFunctionOnSet(OwnCounts(p), Pods)' + Cardinality(Uncounted(p))'
                             = played'[p].wins
    BY DEF WinsCounted
  <2> DEFINE s == SumFunctionOnSet(OwnCounts(p), Pods)
             c == Cardinality(Uncounted(p))
  <2>1. s \in Int /\ c \in Nat
    BY OwnSum, PartsFinite DEF ResultsInv
  <2>2. s + c <= played[p].wins /\ (~disturbed => s + c = played[p].wins)
    BY DEF ResultsInv, WinsCounted
  <2>3. s' = s
    BY <1>1 DEF OwnCounts
  <2>4. c' = IF p = winner THEN c + 1 ELSE c
    BY <1>11
  <2> HIDE DEF s, c
  <2>5. s' + c' <= played'[p].wins /\ (~disturbed' => s' + c' = played'[p].wins)
    BY <1>1, <1>2, <2>1, <2>2, <2>3, <2>4
  <2> QED
    BY <2>5 DEF s, c
<1>16. WinnersListed'
  <2>1. \A p \in Results!Table : played[p].wins > 0 => played'[p].wins > 0
    BY <1>2
  <2>2. \A p \in Results!Table : p = winner => played'[p].wins > 0
    BY <1>2
  <2>3. ASSUME NEW n \in Pods, NEW p \in index'[n] PROVE played'[p].wins > 0
    BY <1>1, <2>1 DEF ResultsInv, WinnersListed, ResultTypes
  <2>4. ASSUME NEW t \in tasks', t.type # "profile" PROVE played'[t.player].wins > 0
    <3>1. CASE t \in tasks
      <4>1. played[t.player].wins > 0 /\ t.player \in Results!Table
        BY <2>4, <3>1 DEF ResultsInv, WinnersListed, ResultTypes, ProfileTasks, WinTasks
      <4> QED
        BY <2>1, <4>1
    <3>2. CASE \E p \in {winner} \ {None} : t = count(p)
      BY <1>5, <2>2, <3>2
    <3> QED
      BY <1>4, <1>8, <2>4, <3>1, <3>2
  <2>5. ASSUME ~disturbed', NEW p \in Results!Table, played'[p].wins > 0
        PROVE  \/ \E t \in tasks' : t.type # "profile" /\ t.player = p
               \/ \E n \in Pods : p \in index'[n]
    <3>1. CASE p = winner
      <4>1. p \in {winner} \ {None}
        BY <3>1, ResultsAssumption DEF Results!Table
      <4>2. count(p) \in tasks' /\ count(p).type # "profile" /\ count(p).player = p
        BY <1>1, <1>5, <4>1
      <4> QED
        BY <4>2
    <3>2. CASE p # winner
      <4>1. played[p].wins > 0
        BY <1>2, <2>5, <3>2
      <4> QED
        BY <1>1, <2>5, <4>1 DEF ResultsInv, WinnersListed
    <3> QED
      BY <3>1, <3>2
  <2> QED
    BY <2>3, <2>4, <2>5 DEF WinnersListed
<1> QED
  BY <1>7, <1>9, <1>12, <1>13, <1>14, <1>15, <1>16 DEF ResultsInv

\* A task is done, or ends, or goes on as an update of the index: it is not
\* pending any more, and the others are.
LEMMA TaskGone ==
  ASSUME ResultTypes, NEW task \in tasks, NEW X, tasks' = (tasks \ {task}) \cup X,
         \A x \in X : x.type = "index", NEW p
  PROVE  /\ Cardinality(Untold(p))' = IF task \in Untold(p) THEN Cardinality(Untold(p)) - 1
                                      ELSE Cardinality(Untold(p))
         /\ Cardinality(UntoldWins(p))' =
              IF task \in UntoldWins(p) THEN Cardinality(UntoldWins(p)) - 1
              ELSE Cardinality(UntoldWins(p))
         /\ Cardinality(Uncounted(p))' =
              IF task \in Uncounted(p) THEN Cardinality(Uncounted(p)) - 1
              ELSE Cardinality(Uncounted(p))
<1>1. /\ Untold(p)' = Untold(p) \ {task} /\ UntoldWins(p)' = UntoldWins(p) \ {task}
      /\ Uncounted(p)' = Uncounted(p) \ {task}
  BY DEF Untold, UntoldWins, Uncounted
<1>2. ASSUME NEW S, IsFiniteSet(S)
      PROVE  Cardinality(S \ {task}) = IF task \in S THEN Cardinality(S) - 1 ELSE Cardinality(S)
  <2>1. CASE task \in S
    BY <1>2, <2>1, OneLess
  <2>2. CASE task \notin S
    <3>1. S \ {task} = S
      BY <2>2
    <3> QED
      BY <2>2, <3>1
  <2> QED
    BY <2>1, <2>2
<1> QED
  BY <1>1, <1>2, PartsFinite

\* A grain wakes up with what the store has, or with nothing.
LEMMA ActivateKeeps ==
  ASSUME ResultsInv, NEW p \in Recorded, Results!Activate(p) PROVE ResultsInv'
<1>1. /\ grain[p] = None
      /\ \/ grain' = [grain EXCEPT ![p] = store[p]] /\ UNCHANGED disturbed
         \/ grain' = [grain EXCEPT ![p] = Results!NoProfile] /\ disturbed' = TRUE
      /\ UNCHANGED <<store, counter, index, tasks, played>>
  BY DEF Results!Activate, Results!Disturb
<1>2. /\ store[p] \in Profiles /\ Results!NoProfile \in Profiles /\ None \notin Profiles
      /\ Results!NoProfile.games = 0 /\ store[p].games \in Nat
  BY ResultsAssumption DEF ResultsInv, ResultTypes, Profiles, Results!NoProfile
<1>3. grain' \in [Recorded -> Profiles \cup {None}] /\ disturbed' \in BOOLEAN
  BY <1>1, <1>2 DEF ResultsInv, ResultTypes
<1>4. /\ \A q \in Recorded \ {p} : grain'[q] = grain[q]
      /\ \/ grain'[p] = store[p] /\ disturbed' = disturbed
         \/ grain'[p] = Results!NoProfile /\ disturbed'
  BY <1>1 DEF ResultsInv, ResultTypes
<1>5. ASSUME NEW q PROVE /\ Untold(q)' = Untold(q) /\ UntoldWins(q)' = UntoldWins(q)
                         /\ Uncounted(q)' = Uncounted(q) /\ OwnCounts(q)' = OwnCounts(q)
  BY <1>1 DEF Untold, UntoldWins, Uncounted, OwnCounts
<1>6. ~disturbed' => ~disturbed
  BY <1>4
<1>7. ResultTypes'
  BY <1>1, <1>3 DEF ResultsInv, ResultTypes
<1>8. GamesAlike' /\ OwnCountsLead'
  BY <1>1 DEF ResultsInv, GamesAlike, OwnCountsLead
<1>9. WinnersListed'
  BY <1>1, <1>6 DEF ResultsInv, WinnersListed
<1>10. WinsCounted'
  BY <1>1, <1>5, <1>6 DEF ResultsInv, WinsCounted
<1>11. ProfilesBelow'
  <2> SUFFICES ASSUME NEW q \in Recorded
               PROVE  /\ store[q].games + Cardinality(Untold(q)) <= played[q].games
                      /\ grain'[q] # None =>
                           grain'[q].games + Cardinality(Untold(q)) <= played[q].games
    BY <1>1, <1>5 DEF ProfilesBelow
  <2>1. /\ store[q].games + Cardinality(Untold(q)) <= played[q].games
        /\ grain[q] # None => grain[q].games + Cardinality(Untold(q)) <= played[q].games
    BY DEF ResultsInv, ProfilesBelow
  <2>2. Cardinality(Untold(q)) \in Nat /\ played[q].games \in Nat
    BY PartsFinite DEF ResultsInv, ResultTypes, Profiles, Results!Table
  <2> QED
    BY <1>2, <1>4, <2>1, <2>2
<1>12. ProfilesExact'
  <2> SUFFICES ASSUME ~disturbed', NEW q \in Recorded
               PROVE  /\ Results!Profile(q)'.games + Cardinality(Untold(q)) = played[q].games
                      /\ Results!Profile(q)'.wins + Cardinality(UntoldWins(q)) = played[q].wins
    BY <1>1, <1>5 DEF ProfilesExact
  <2>1. Results!Profile(q)' = Results!Profile(q)
    BY <1>1, <1>2, <1>4 DEF Results!Profile
  <2> QED
    BY <1>6, <2>1 DEF ResultsInv, ProfilesExact
<1> QED
  BY <1>7, <1>8, <1>9, <1>10, <1>11, <1>12 DEF ResultsInv

\* A grain is put to sleep and saved, or lost.
LEMMA DeactivateKeeps ==
  ASSUME ResultsInv, NEW p \in Recorded, Results!Deactivate(p) PROVE ResultsInv'
<1>1. /\ grain[p] # None /\ grain' = [grain EXCEPT ![p] = None]
      /\ \/ store' = [store EXCEPT ![p] = grain[p]] /\ UNCHANGED disturbed
         \/ store' = store /\ disturbed' = TRUE
      /\ UNCHANGED <<counter, index, tasks, played>>
  BY DEF Results!Deactivate, Results!Disturb
<1>2. grain[p] \in Profiles
  BY <1>1 DEF ResultsInv, ResultTypes
<1>3. /\ grain' \in [Recorded -> Profiles \cup {None}] /\ store' \in [Recorded -> Profiles]
      /\ disturbed' \in BOOLEAN
  BY <1>1, <1>2 DEF ResultsInv, ResultTypes
<1>4. /\ \A q \in Recorded \ {p} : grain'[q] = grain[q] /\ store'[q] = store[q]
      /\ grain'[p] = None
      /\ \/ store'[p] = grain[p] /\ disturbed' = disturbed
         \/ store'[p] = store[p] /\ disturbed'
  BY <1>1 DEF ResultsInv, ResultTypes
<1>5. ASSUME NEW q PROVE /\ Untold(q)' = Untold(q) /\ UntoldWins(q)' = UntoldWins(q)
                         /\ Uncounted(q)' = Uncounted(q) /\ OwnCounts(q)' = OwnCounts(q)
  BY <1>1 DEF Untold, UntoldWins, Uncounted, OwnCounts
<1>6. ~disturbed' => ~disturbed
  BY <1>4
<1>7. ResultTypes'
  BY <1>1, <1>3 DEF ResultsInv, ResultTypes
<1>8. GamesAlike' /\ OwnCountsLead'
  BY <1>1 DEF ResultsInv, GamesAlike, OwnCountsLead
<1>9. WinnersListed'
  BY <1>1, <1>6 DEF ResultsInv, WinnersListed
<1>10. WinsCounted'
  BY <1>1, <1>5, <1>6 DEF ResultsInv, WinsCounted
<1>11. ProfilesBelow'
  <2> SUFFICES ASSUME NEW q \in Recorded
               PROVE  /\ store'[q].games + Cardinality(Untold(q)) <= played[q].games
                      /\ grain'[q] # None =>
                           grain'[q].games + Cardinality(Untold(q)) <= played[q].games
    BY <1>1, <1>5 DEF ProfilesBelow
  <2>1. /\ store[q].games + Cardinality(Untold(q)) <= played[q].games
        /\ grain[q] # None => grain[q].games + Cardinality(Untold(q)) <= played[q].games
    BY DEF ResultsInv, ProfilesBelow
  <2> QED
    BY <1>1, <1>4, <2>1
<1>12. ProfilesExact'
  <2> SUFFICES ASSUME ~disturbed', NEW q \in Recorded
               PROVE  /\ Results!Profile(q)'.games + Cardinality(Untold(q)) = played[q].games
                      /\ Results!Profile(q)'.wins + Cardinality(UntoldWins(q)) = played[q].wins
    BY <1>1, <1>5 DEF ProfilesExact
  <2>1. Results!Profile(q)' = Results!Profile(q)
    BY <1>1, <1>4, <1>6 DEF Results!Profile
  <2> QED
    BY <1>6, <2>1 DEF ResultsInv, ProfilesExact
<1> QED
  BY <1>7, <1>8, <1>9, <1>10, <1>11, <1>12 DEF ResultsInv

\* A profile is told of a game: what it shows grows as what it waits for shrinks.
LEMMA RecordGameKeeps ==
  ASSUME ResultsInv, NEW task \in tasks, Results!RecordGame(task) PROVE ResultsInv'
<1>1. /\ task.type = "profile" /\ tasks' = tasks \ {task}
      /\ UNCHANGED <<store, counter, index, played, disturbed>>
  BY DEF Results!RecordGame
<1>2. task \in ProfileTasks
  BY <1>1 DEF ResultsInv, ResultTypes, WinTasks
<1>3. PICK p \in Recorded : p = task.player
  BY <1>2 DEF ProfileTasks
<1>4. grain[p] # None /\ grain' = [grain EXCEPT ![p] = Results!Plus(grain[p], task.won)]
  BY <1>3 DEF Results!RecordGame
<1>5. grain[p] \in Profiles /\ task.won \in BOOLEAN
  BY <1>2, <1>4 DEF ResultsInv, ResultTypes, ProfileTasks
<1>6. /\ grain'[p] \in Profiles /\ grain'[p].games = grain[p].games + 1
      /\ grain'[p].wins = IF task.won THEN grain[p].wins + 1 ELSE grain[p].wins
      /\ \A q \in Recorded \ {p} : grain'[q] = grain[q]
      /\ grain' \in [Recorded -> Profiles \cup {None}]
      /\ grain'[p] # None
  BY <1>4, <1>5, ResultsAssumption DEF ResultsInv, ResultTypes, Results!Plus, Profiles
<1>7. ASSUME NEW q \in Results!Table
      PROVE  /\ Cardinality(Untold(q))' = IF q = p THEN Cardinality(Untold(q)) - 1
                                          ELSE Cardinality(Untold(q))
             /\ Cardinality(UntoldWins(q))' =
                  IF q = p /\ task.won THEN Cardinality(UntoldWins(q)) - 1
                  ELSE Cardinality(UntoldWins(q))
             /\ Cardinality(Uncounted(q))' = Cardinality(Uncounted(q))
             /\ OwnCounts(q)' = OwnCounts(q)
  <2>1. /\ task \in Untold(q) <=> q = p
        /\ task \in UntoldWins(q) <=> q = p /\ task.won
        /\ task \notin Uncounted(q)
    BY <1>1, <1>3 DEF Untold, UntoldWins, Uncounted
  <2> DEFINE X == {}
  <2>2. tasks' = (tasks \ {task}) \cup X /\ \A x \in X : x.type = "index"
    BY <1>1
  <2> HIDE DEF X
  <2>3. /\ Cardinality(Untold(q))' = IF task \in Untold(q) THEN Cardinality(Untold(q)) - 1
                                     ELSE Cardinality(Untold(q))
        /\ Cardinality(UntoldWins(q))' =
             IF task \in UntoldWins(q) THEN Cardinality(UntoldWins(q)) - 1
             ELSE Cardinality(UntoldWins(q))
        /\ Cardinality(Uncounted(q))' =
             IF task \in Uncounted(q) THEN Cardinality(Uncounted(q)) - 1
             ELSE Cardinality(Uncounted(q))
    BY <2>2, TaskGone DEF ResultsInv
  <2>4. OwnCounts(q)' = OwnCounts(q)
    BY <1>1 DEF OwnCounts
  <2> QED
    BY <2>1, <2>3, <2>4
<1>8. ResultTypes'
  BY <1>1, <1>6, FS_RemoveElement DEF ResultsInv, ResultTypes
<1>9. GamesAlike' /\ OwnCountsLead' /\ WinnersListed'
  BY <1>1 DEF ResultsInv, GamesAlike, OwnCountsLead, WinnersListed
<1>10. WinsCounted'
  BY <1>1, <1>7 DEF ResultsInv, WinsCounted
<1>11. \A q \in Recorded :
         /\ Cardinality(Untold(q)) \in Nat /\ Cardinality(UntoldWins(q)) \in Nat
         /\ store[q].games \in Nat /\ played[q].games \in Nat /\ played[q].wins \in Nat
         /\ grain[q] # None => grain[q].games \in Nat /\ grain[q].wins \in Nat
         /\ q \in Results!Table
  BY PartsFinite DEF ResultsInv, ResultTypes, Profiles, Results!Table
<1>12. ProfilesBelow'
  <2> SUFFICES ASSUME NEW q \in Recorded
               PROVE  /\ store[q].games + Cardinality(Untold(q))' <= played[q].games
                      /\ grain'[q] # None =>
                           grain'[q].games + Cardinality(Untold(q))' <= played[q].games
    BY <1>1 DEF ProfilesBelow
  <2>1. /\ store[q].games + Cardinality(Untold(q)) <= played[q].games
        /\ grain[q] # None => grain[q].games + Cardinality(Untold(q)) <= played[q].games
    BY DEF ResultsInv, ProfilesBelow
  <2> QED
    BY <1>4, <1>6, <1>7, <1>11, <2>1
<1>13. ProfilesExact'
  <2> SUFFICES ASSUME ~disturbed, NEW q \in Recorded
               PROVE  /\ Results!Profile(q)'.games + Cardinality(Untold(q))' = played[q].games
                      /\ Results!Profile(q)'.wins + Cardinality(UntoldWins(q))' = played[q].wins
    BY <1>1 DEF ProfilesExact
  <2>1. /\ Results!Profile(q).games + Cardinality(Untold(q)) = played[q].games
        /\ Results!Profile(q).wins + Cardinality(UntoldWins(q)) = played[q].wins
    BY DEF ResultsInv, ProfilesExact
  <2>2. CASE q # p
    <3>1. Results!Profile(q)' = Results!Profile(q)
      BY <1>1, <1>6, <2>2 DEF Results!Profile
    <3> QED
      BY <1>7, <1>11, <2>1, <2>2, <3>1
  <2>3. CASE q = p
    <3>1. Results!Profile(q)' = grain'[p] /\ Results!Profile(q) = grain[p]
      BY <1>4, <1>6, <2>3 DEF Results!Profile
    <3>2. Results!Profile(q)'.games + Cardinality(Untold(q))' = played[q].games
      BY <1>4, <1>6, <1>7, <1>11, <2>1, <2>3, <3>1
    <3>3. Results!Profile(q)'.wins + Cardinality(UntoldWins(q))' = played[q].wins
      BY <1>4, <1>6, <1>7, <1>11, <2>1, <2>3, <3>1
    <3> QED
      BY <3>2, <3>3
  <2> QED
    BY <2>2, <2>3
<1> QED
  BY <1>8, <1>9, <1>10, <1>12, <1>13 DEF ResultsInv

\* A task that has nothing to do with profiles, or one that ends, leaves them.
LEMMA ProfilesStay ==
  ASSUME ResultsInv, NEW task \in tasks, NEW X, tasks' = (tasks \ {task}) \cup X,
         \A x \in X : x.type = "index", UNCHANGED <<store, grain, played>>,
         task.type # "profile" \/ disturbed', ~disturbed' => ~disturbed
  PROVE  ProfilesBelow' /\ ProfilesExact'
<1>1. ASSUME NEW q \in Recorded
      PROVE  /\ Cardinality(Untold(q)) \in Nat /\ Cardinality(Untold(q))' \in Nat
             /\ Cardinality(Untold(q))' <= Cardinality(Untold(q))
             /\ ~disturbed' => /\ Cardinality(Untold(q))' = Cardinality(Untold(q))
                               /\ Cardinality(UntoldWins(q))' = Cardinality(UntoldWins(q))
             /\ store[q].games \in Nat /\ played[q].games \in Nat
             /\ grain[q] # None => grain[q].games \in Nat
  <2>1. /\ Cardinality(Untold(q))' = IF task \in Untold(q) THEN Cardinality(Untold(q)) - 1
                                     ELSE Cardinality(Untold(q))
        /\ Cardinality(UntoldWins(q))' =
             IF task \in UntoldWins(q) THEN Cardinality(UntoldWins(q)) - 1
             ELSE Cardinality(UntoldWins(q))
    BY TaskGone DEF ResultsInv
  <2>2. task \in Untold(q) => Cardinality(Untold(q)) > 0
    BY PartsFinite, OneLess DEF ResultsInv
  <2>3. ~disturbed' => task \notin Untold(q) /\ task \notin UntoldWins(q)
    BY DEF Untold, UntoldWins
  <2>4. Cardinality(Untold(q)) \in Nat
    BY PartsFinite DEF ResultsInv
  <2>5. /\ store[q].games \in Nat /\ played[q].games \in Nat
        /\ grain[q] # None => grain[q].games \in Nat
    BY DEF ResultsInv, ResultTypes, Profiles, Results!Table
  <2> QED
    BY <2>1, <2>2, <2>3, <2>4, <2>5
<1>2. ProfilesBelow'
  <2> SUFFICES ASSUME NEW q \in Recorded
               PROVE  /\ store[q].games + Cardinality(Untold(q))' <= played[q].games
                      /\ grain[q] # None =>
                           grain[q].games + Cardinality(Untold(q))' <= played[q].games
    BY DEF ProfilesBelow
  <2>1. /\ store[q].games + Cardinality(Untold(q)) <= played[q].games
        /\ grain[q] # None => grain[q].games + Cardinality(Untold(q)) <= played[q].games
    BY DEF ResultsInv, ProfilesBelow
  <2> QED
    BY <1>1, <2>1
<1>3. ProfilesExact'
  <2> SUFFICES ASSUME ~disturbed', NEW q \in Recorded
               PROVE  /\ Results!Profile(q)'.games + Cardinality(Untold(q))' = played[q].games
                      /\ Results!Profile(q)'.wins + Cardinality(UntoldWins(q))' = played[q].wins
    BY DEF ProfilesExact
  <2>1. Results!Profile(q)' = Results!Profile(q)
    BY DEF Results!Profile
  <2> QED
    BY <1>1, <2>1 DEF ResultsInv, ProfilesExact
<1> QED
  BY <1>2, <1>3

\* A win is counted by its node: its own entry grows as what waits shrinks.
LEMMA IncrementKeeps ==
  ASSUME ResultsInv, NEW task \in tasks, Results!Increment(task) PROVE ResultsInv'
<1> DEFINE next == [task EXCEPT !.type = "index"]
<1>1. /\ task.type = "increment" /\ tasks' = (tasks \ {task}) \cup {next}
      /\ UNCHANGED <<store, grain, index, played, disturbed>>
  BY DEF Results!Increment
<1>2. task \in WinTasks
  BY <1>1 DEF ResultsInv, ResultTypes, ProfileTasks
<1>3. /\ next \in WinTasks /\ next.type = "index" /\ next.game = task.game
      /\ next.player = task.player
  BY <1>2 DEF WinTasks
<1> HIDE DEF next
<1>4. PICK p \in Results!Table, n \in Pods : p = task.player /\ n = task.node
  BY <1>2 DEF WinTasks
<1>5. counter' = [counter EXCEPT ![n][p][n] = counter[n][p][n] + 1]
  BY <1>4 DEF Results!Increment
<1>6. /\ counter' \in [Pods -> [Results!Table -> [Pods -> Nat]]]
      /\ \A a, b \in Pods : \A q \in Results!Table :
           counter'[a][q][b] = IF a = n /\ q = p /\ b = n THEN counter[a][q][b] + 1
                               ELSE counter[a][q][b]
  BY <1>5 DEF ResultsInv, ResultTypes
<1>7. ASSUME NEW q \in Results!Table
      PROVE  Cardinality(Uncounted(q))' = IF q = p THEN Cardinality(Uncounted(q)) - 1
                                          ELSE Cardinality(Uncounted(q))
  <2>1. task \in Uncounted(q) <=> q = p
    BY <1>1, <1>4 DEF Uncounted
  <2> DEFINE X == {next}
  <2>2. tasks' = (tasks \ {task}) \cup X /\ \A x \in X : x.type = "index"
    BY <1>1, <1>3
  <2> HIDE DEF X
  <2>3. Cardinality(Uncounted(q))' = IF task \in Uncounted(q) THEN Cardinality(Uncounted(q)) - 1
                                     ELSE Cardinality(Uncounted(q))
    BY <2>2, TaskGone DEF ResultsInv
  <2> QED
    BY <2>1, <2>3
<1>8. ResultTypes'
  <2>1. IsFiniteSet(tasks')
    BY <1>1, FS_RemoveElement, FS_AddElement DEF ResultsInv, ResultTypes
  <2> QED
    BY <1>1, <1>3, <1>6, <2>1 DEF ResultsInv, ResultTypes
<1>9. GamesAlike'
  BY <1>1, <1>3 DEF ResultsInv, GamesAlike
<1>10. ProfilesBelow' /\ ProfilesExact'
  <2> DEFINE X == {next}
  <2>1. tasks' = (tasks \ {task}) \cup X /\ \A x \in X : x.type = "index"
    BY <1>1, <1>3
  <2> HIDE DEF X
  <2> QED
    BY <1>1, <2>1, ProfilesStay
<1>11. OwnCountsLead'
  <2> SUFFICES ASSUME NEW a \in Pods, NEW b \in Pods, NEW q \in Results!Table
               PROVE  counter'[a][q][b] <= counter'[b][q][b]
    BY DEF OwnCountsLead
  <2>1. /\ counter[a][q][b] <= counter[b][q][b]
        /\ counter[a][q][b] \in Nat /\ counter[b][q][b] \in Nat
    BY DEF ResultsInv, OwnCountsLead, ResultTypes
  <2> QED
    BY <1>6, <2>1
<1>12. WinsCounted'
  <2> SUFFICES ASSUME NEW q \in Results!Table
               PROVE  /\ SumFunctionOnSet(OwnCounts(q), Pods)' + Cardinality(Uncounted(q))'
                           <= played[q].wins
                      /\ ~disturbed =>
                           SumFunctionOnSet(OwnCounts(q), Pods)' + Cardinality(Uncounted(q))'
                             = played[q].wins
    BY <1>1 DEF WinsCounted
  <2> DEFINE f == OwnCounts(q)
             s == SumFunctionOnSet(OwnCounts(q), Pods)
             c == Cardinality(Uncounted(q))
  <2>1. s \in Int /\ c \in Nat /\ \A m \in Pods : f[m] \in Int
    BY OwnSum, PartsFinite DEF ResultsInv
  <2>2. s + c <= played[q].wins /\ (~disturbed => s + c = played[q].wins)
    BY DEF ResultsInv, WinsCounted
  <2>3. \A m \in Pods : /\ f'[m] = IF q = p /\ m = n THEN f[m] + 1 ELSE f[m]
                        /\ f'[m] \in Int
    BY <1>6, <2>1 DEF OwnCounts
  <2>4. s' = IF q = p THEN s + 1 ELSE s
    <3>1. CASE q = p
      <4>1. SumFunctionOnSet(f', Pods) = SumFunctionOnSet(f, Pods) + f'[n] - f[n]
        <5> HIDE DEF f
        <5> QED
          BY <2>1, <2>3, SumChange, ResultsAssumption
      <4> QED
        BY <2>1, <2>3, <3>1, <4>1
    <3>2. CASE q # p
      <4>1. SumFunctionOnSet(f', Pods) = SumFunctionOnSet(f, Pods)
        <5> HIDE DEF f
        <5> QED
          BY <2>3, <3>2, SumSame, ResultsAssumption
      <4> QED
        BY <3>2, <4>1
    <3> QED
      BY <3>1, <3>2
  <2>5. c' = IF q = p THEN c - 1 ELSE c
    BY <1>7
  <2> HIDE DEF s, c, f
  <2>6. s' + c' <= played[q].wins /\ (~disturbed => s' + c' = played[q].wins)
    BY <2>1, <2>2, <2>4, <2>5
  <2> QED
    BY <2>6 DEF s, c
<1>13. WinnersListed'
  <2>1. \A t \in tasks' : t.type # "profile" => played'[t.player].wins > 0
    BY <1>1, <1>3 DEF ResultsInv, WinnersListed
  <2>2. ASSUME ~disturbed', NEW q \in Results!Table, played'[q].wins > 0
        PROVE  \/ \E t \in tasks' : t.type # "profile" /\ t.player = q
               \/ \E m \in Pods : q \in index'[m]
    <3>1. \/ \E t \in tasks : t.type # "profile" /\ t.player = q
          \/ \E m \in Pods : q \in index[m]
      BY <1>1, <2>2 DEF ResultsInv, WinnersListed
    <3>2. ASSUME NEW t \in tasks, t.type # "profile", t.player = q
          PROVE  \E u \in tasks' : u.type # "profile" /\ u.player = q
      BY <1>1, <1>3, <3>2
    <3> QED
      BY <1>1, <3>1, <3>2
  <2> QED
    BY <1>1, <2>1, <2>2 DEF ResultsInv, WinnersListed
<1> QED
  BY <1>8, <1>9, <1>10, <1>11, <1>12, <1>13 DEF ResultsInv

\* A task ends without having changed a counter: it was about the index, or about
\* a profile, or something failed.
LEMMA TaskEnds ==
  ASSUME ResultsInv, NEW task \in tasks, tasks' = tasks \ {task},
         UNCHANGED <<store, grain, counter, played>>,
         task.type = "index" \/ disturbed', ~disturbed' => ~disturbed, disturbed' \in BOOLEAN,
         index' \in [Pods -> SUBSET Results!Table]
  PROVE  /\ ResultTypes' /\ GamesAlike' /\ ProfilesBelow' /\ ProfilesExact'
         /\ OwnCountsLead' /\ WinsCounted'
<1> DEFINE X == {}
<1>1. tasks' = (tasks \ {task}) \cup X /\ \A x \in X : x.type = "index"
  OBVIOUS
<1> HIDE DEF X
<1>2. ProfilesBelow' /\ ProfilesExact'
  BY <1>1, ProfilesStay
<1>3. GamesAlike' /\ OwnCountsLead'
  BY DEF ResultsInv, GamesAlike, OwnCountsLead
<1>4. ResultTypes'
  BY FS_RemoveElement DEF ResultsInv, ResultTypes
<1>5. WinsCounted'
  <2> SUFFICES ASSUME NEW q \in Results!Table
               PROVE  /\ SumFunctionOnSet(OwnCounts(q), Pods)' + Cardinality(Uncounted(q))'
                           <= played[q].wins
                      /\ ~disturbed' =>
                           SumFunctionOnSet(OwnCounts(q), Pods)' + Cardinality(Uncounted(q))'
                             = played[q].wins
    BY DEF WinsCounted
  <2> DEFINE s == SumFunctionOnSet(OwnCounts(q), Pods)
             c == Cardinality(Uncounted(q))
  <2>1. s \in Int /\ c \in Nat
    BY OwnSum, PartsFinite DEF ResultsInv
  <2>2. s + c <= played[q].wins /\ (~disturbed => s + c = played[q].wins)
    BY DEF ResultsInv, WinsCounted
  <2>3. s' = s
    BY DEF OwnCounts
  <2>4. c' = IF task \in Uncounted(q) THEN c - 1 ELSE c
    BY <1>1, TaskGone DEF ResultsInv
  <2>5. task \in Uncounted(q) => disturbed'
    BY DEF Uncounted
  <2>6. played[q].wins \in Nat
    BY DEF ResultsInv, ResultTypes, Profiles
  <2> HIDE DEF s, c
  <2>7. s' + c' <= played[q].wins /\ (~disturbed' => s' + c' = played[q].wins)
    BY <2>1, <2>2, <2>3, <2>4, <2>5, <2>6
  <2> QED
    BY <2>7 DEF s, c
<1> QED
  BY <1>2, <1>3, <1>4, <1>5

\* The second update: the winner is in the index of the node.
LEMMA AddToIndexKeeps ==
  ASSUME ResultsInv, NEW task \in tasks, Results!AddToIndex(task) PROVE ResultsInv'
<1>1. /\ task.type = "index" /\ tasks' = tasks \ {task}
      /\ index' = [index EXCEPT ![task.node] = index[task.node] \cup {task.player}]
      /\ UNCHANGED <<store, grain, counter, played, disturbed>>
  BY DEF Results!AddToIndex
<1>2. task \in WinTasks
  BY <1>1 DEF ResultsInv, ResultTypes, ProfileTasks
<1>3. PICK p \in Results!Table, n \in Pods : p = task.player /\ n = task.node
  BY <1>2 DEF WinTasks
<1>4. /\ index' \in [Pods -> SUBSET Results!Table]
      /\ \A m \in Pods : index'[m] = IF m = n THEN index[m] \cup {p} ELSE index[m]
  BY <1>1, <1>3 DEF ResultsInv, ResultTypes
<1>5. /\ ResultTypes' /\ GamesAlike' /\ ProfilesBelow' /\ ProfilesExact'
      /\ OwnCountsLead' /\ WinsCounted'
  <2>1. (~disturbed' => ~disturbed) /\ disturbed' \in BOOLEAN
    BY <1>1 DEF ResultsInv, ResultTypes
  <2> QED
    BY <1>1, <1>4, <2>1, TaskEnds
<1>6. WinnersListed'
  <2>1. \A m \in Pods : \A q \in index'[m] : played[q].wins > 0
    BY <1>1, <1>3, <1>4 DEF ResultsInv, WinnersListed
  <2>2. ASSUME ~disturbed, NEW q \in Results!Table, played[q].wins > 0
        PROVE  \/ \E t \in tasks' : t.type # "profile" /\ t.player = q
               \/ \E m \in Pods : q \in index'[m]
    <3>1. CASE q = p
      BY <1>4, <3>1
    <3>2. CASE q # p
      <4>1. \/ \E t \in tasks : t.type # "profile" /\ t.player = q
            \/ \E m \in Pods : q \in index[m]
        BY <2>2 DEF ResultsInv, WinnersListed
      <4> QED
        BY <1>1, <1>3, <1>4, <3>2, <4>1
    <3> QED
      BY <3>1, <3>2
  <2> QED
    BY <1>1, <2>1, <2>2 DEF ResultsInv, WinnersListed
<1> QED
  BY <1>5, <1>6 DEF ResultsInv

\* A task fails, and what it would have recorded is never recorded.
LEMMA TaskFailsKeeps ==
  ASSUME ResultsInv, NEW task \in tasks, Results!TaskFails(task) PROVE ResultsInv'
<1>1. /\ tasks' = tasks \ {task} /\ disturbed' = TRUE
      /\ UNCHANGED <<store, grain, counter, index, played>>
  BY DEF Results!TaskFails, Results!Disturb
<1>2. index' \in [Pods -> SUBSET Results!Table]
  BY <1>1 DEF ResultsInv, ResultTypes
<1>3. /\ ResultTypes' /\ GamesAlike' /\ ProfilesBelow' /\ ProfilesExact'
      /\ OwnCountsLead' /\ WinsCounted'
  BY <1>1, <1>2, TaskEnds
<1>4. WinnersListed'
  BY <1>1 DEF ResultsInv, WinnersListed
<1> QED
  BY <1>3, <1>4 DEF ResultsInv

\* What gossip, or nothing, changes: not what a node knows of itself.
LEMMA GossipKeeps ==
  ASSUME ResultsInv, UNCHANGED <<store, grain, tasks, played, disturbed>>,
         counter' \in [Pods -> [Results!Table -> [Pods -> Nat]]],
         \A n, m \in Pods : \A p \in Results!Table :
           /\ counter'[m][p][m] = counter[m][p][m]
           /\ counter'[n][p][m] <= counter[m][p][m],
         index' \in [Pods -> SUBSET Results!Table],
         \A n \in Pods : index[n] \subseteq index'[n],
         \A n \in Pods : \A p \in index'[n] : \E m \in Pods : p \in index[m]
  PROVE  ResultsInv'
<1>1. ASSUME NEW q PROVE /\ Untold(q)' = Untold(q) /\ UntoldWins(q)' = UntoldWins(q)
                         /\ Uncounted(q)' = Uncounted(q)
  BY DEF Untold, UntoldWins, Uncounted
<1>2. \A q \in Results!Table : OwnCounts(q)' = OwnCounts(q)
  BY DEF OwnCounts
<1>3. ResultTypes' /\ GamesAlike'
  BY DEF ResultsInv, ResultTypes, GamesAlike
<1>4. ProfilesBelow' /\ ProfilesExact'
  BY <1>1 DEF ResultsInv, ProfilesBelow, ProfilesExact, Results!Profile
<1>5. OwnCountsLead'
  BY DEF OwnCountsLead
<1>6. WinsCounted'
  <2> SUFFICES ASSUME NEW q \in Results!Table
               PROVE  /\ SumFunctionOnSet(OwnCounts(q), Pods)' + Cardinality(Uncounted(q))'
                           <= played[q].wins
                      /\ ~disturbed =>
                           SumFunctionOnSet(OwnCounts(q), Pods)' + Cardinality(Uncounted(q))'
                             = played[q].wins
    BY DEF WinsCounted
  <2>1. SumFunctionOnSet(OwnCounts(q), Pods)' = SumFunctionOnSet(OwnCounts(q), Pods)
    BY <1>2
  <2>2. Cardinality(Uncounted(q))' = Cardinality(Uncounted(q))
    BY <1>1
  <2> QED
    BY <2>1, <2>2 DEF ResultsInv, WinsCounted
<1>7. WinnersListed'
  <2>1. \A n \in Pods : \A p \in index'[n] : played[p].wins > 0
    BY DEF ResultsInv, WinnersListed
  <2>2. ~disturbed => \A p \in Results!Table : played[p].wins > 0 =>
          \/ \E t \in tasks : t.type # "profile" /\ t.player = p
          \/ \E n \in Pods : p \in index'[n]
    BY DEF ResultsInv, WinnersListed
  <2> QED
    BY <2>1, <2>2 DEF ResultsInv, WinnersListed
<1> QED
  BY <1>3, <1>4, <1>5, <1>6, <1>7 DEF ResultsInv

LEMMA MaxOfTwo ==
  ASSUME NEW a \in Nat, NEW b \in Nat
  PROVE  Results!Max({a, b}) = IF a >= b THEN a ELSE b
  BY DEF Results!Max

LEMMA ResultsStep ==
  ASSUME ResultsInv, [Results!Next]_(Results!vars) PROVE ResultsInv'
<1>1. ASSUME NEW from \in Pods, NEW to \in Pods \ {from}, Results!GossipIndex(from, to)
      PROVE  ResultsInv'
  <2>1. /\ index' = [index EXCEPT ![to] = index[to] \cup index[from]]
        /\ UNCHANGED <<store, grain, counter, tasks, played, disturbed>>
    BY <1>1 DEF Results!GossipIndex
  <2>2. /\ index' \in [Pods -> SUBSET Results!Table]
        /\ \A n \in Pods : index[n] \subseteq index'[n]
        /\ \A n \in Pods : \A p \in index'[n] : \E m \in Pods : p \in index[m]
    BY <2>1 DEF ResultsInv, ResultTypes
  <2>3. /\ counter' \in [Pods -> [Results!Table -> [Pods -> Nat]]]
        /\ \A n, m \in Pods : \A p \in Results!Table :
             /\ counter'[m][p][m] = counter[m][p][m]
             /\ counter'[n][p][m] <= counter[m][p][m]
    BY <2>1 DEF ResultsInv, ResultTypes, OwnCountsLead
  <2> QED
    BY <2>1, <2>2, <2>3, GossipKeeps
<1>2. ASSUME NEW from \in Pods, NEW to \in Pods \ {from}, NEW p \in Results!Table,
             Results!GossipCounter(from, to, p)
      PROVE  ResultsInv'
  <2>1. /\ counter' = [counter EXCEPT ![to][p] =
             [m \in Pods |-> Results!Max({counter[to][p][m], counter[from][p][m]})]]
        /\ UNCHANGED <<store, grain, index, tasks, played, disturbed>>
    BY <1>2 DEF Results!GossipCounter
  <2> DEFINE g == [m \in Pods |-> Results!Max({counter[to][p][m], counter[from][p][m]})]
  <2>2. ASSUME NEW m \in Pods
        PROVE  g[m] = IF counter[to][p][m] >= counter[from][p][m] THEN counter[to][p][m]
                      ELSE counter[from][p][m]
    <3> DEFINE a == counter[to][p][m]
               b == counter[from][p][m]
    <3>1. a \in Nat /\ b \in Nat
      BY DEF ResultsInv, ResultTypes
    <3>2. g[m] = Results!Max({a, b})
      OBVIOUS
    <3> HIDE DEF a, b, g
    <3>3. g[m] = IF a >= b THEN a ELSE b
      BY <3>1, <3>2, MaxOfTwo
    <3> QED
      BY <3>3 DEF a, b
  <2>3. DOMAIN g = Pods /\ g = [m \in Pods |-> g[m]] /\ counter' = [counter EXCEPT ![to][p] = g]
    BY <2>1
  <2> HIDE DEF g
  <2>4. g \in [Pods -> Nat]
    <3>1. ASSUME NEW m \in Pods PROVE g[m] \in Nat
      <4>1. counter[to][p][m] \in Nat /\ counter[from][p][m] \in Nat
        BY DEF ResultsInv, ResultTypes
      <4> QED
        BY <2>2, <4>1
    <3> QED
      BY <2>3, <3>1
  <2>5. counter' \in [Pods -> [Results!Table -> [Pods -> Nat]]]
    BY <2>3, <2>4 DEF ResultsInv, ResultTypes
  <2>6. ASSUME NEW n \in Pods, NEW m \in Pods, NEW q \in Results!Table
        PROVE  counter'[n][q][m] = IF n = to /\ q = p THEN g[m] ELSE counter[n][q][m]
    BY <2>3 DEF ResultsInv, ResultTypes
  <2>7. ASSUME NEW n \in Pods, NEW m \in Pods, NEW q \in Results!Table
        PROVE  /\ counter'[m][q][m] = counter[m][q][m]
               /\ counter'[n][q][m] <= counter[m][q][m]
    <3>1. /\ counter[n][q][m] <= counter[m][q][m] /\ counter[from][q][m] <= counter[m][q][m]
          /\ counter[n][q][m] \in Nat /\ counter[from][q][m] \in Nat /\ counter[m][q][m] \in Nat
      BY DEF ResultsInv, OwnCountsLead, ResultTypes
    <3> QED
      BY <2>2, <2>6, <3>1
  <2>8. /\ index' \in [Pods -> SUBSET Results!Table]
        /\ \A n \in Pods : index[n] \subseteq index'[n]
        /\ \A n \in Pods : \A q \in index'[n] : \E m \in Pods : q \in index[m]
    BY <2>1 DEF ResultsInv, ResultTypes
  <2> QED
    BY <2>1, <2>5, <2>7, <2>8, GossipKeeps
<1>3. ASSUME UNCHANGED Results!vars PROVE ResultsInv'
  <2>1. UNCHANGED <<store, grain, counter, index, tasks, played, disturbed>>
    BY <1>3 DEF Results!vars
  <2>2. /\ counter' \in [Pods -> [Results!Table -> [Pods -> Nat]]]
        /\ index' \in [Pods -> SUBSET Results!Table]
        /\ \A n, m \in Pods : \A p \in Results!Table :
             /\ counter'[m][p][m] = counter[m][p][m]
             /\ counter'[n][p][m] <= counter[m][p][m]
    BY <2>1 DEF ResultsInv, ResultTypes, OwnCountsLead
  <2> QED
    BY <2>1, <2>2, GossipKeeps
<1> QED
  BY <1>1, <1>2, <1>3, RecordResultsKeeps, ActivateKeeps, DeactivateKeeps, RecordGameKeeps,
     IncrementKeeps, AddToIndexKeeps, TaskFailsKeeps DEF Results!Next

\* The games' results: no profile shows more games and no leaderboard more wins
\* than were played, and both show exactly these when the tasks are through, if no
\* step failed, for any number of players, bots, nodes and games, whatever the
\* order of tasks, activations and gossip (recordResults, RecordWin, Top).
THEOREM ResultsOfGames == Results!Spec => []ResultsAgree
<1>1. ResultsInv => ResultsAgree
  BY ResultsFollow
<1> QED
  BY <1>1, ResultsStart, ResultsStep, PTL DEF Results!Spec

-----------------------------------------------------------------------------
(***************************************************************************)
(* The tetris board.  BoardSound is inductive once the types say where the *)
(* piece may be.  The case that needs an argument is clearLines: a row     *)
(* that is not full moves down by the number of full rows under it, two    *)
(* such rows never meet, and so a row that is full afterwards was full     *)
(* before.                                                                 *)
(***************************************************************************)
\* The instance has a copy of the library's operator.
LEMMA TetrisCardinality ==
  ASSUME NEW S PROVE Tetris!Cardinality(S) = Cardinality(S)
  BY Zenon DEF Tetris!Cardinality, Cardinality

\* A shape, turned three times at most, has four cells.
FourCells(S) == \E a, b, c, d \in Int \X Int : S = {a, b, c, d}

LEMMA AreFour ==
  ASSUME NEW a \in Int \X Int, NEW b \in Int \X Int, NEW c \in Int \X Int, NEW d \in Int \X Int
  PROVE  FourCells({a, b, c, d})
  BY Zenon DEF FourCells

LEMMA TurnedShape ==
  ASSUME NEW S, FourCells(S) PROVE FourCells({<<-c[2], c[1]>> : c \in S})
<1>1. PICK a, b, c, d \in Int \X Int : S = {a, b, c, d}
  BY DEF FourCells
<1>2. {<<-e[2], e[1]>> : e \in S}
        = {<<-a[2], a[1]>>, <<-b[2], b[1]>>, <<-c[2], c[1]>>, <<-d[2], d[1]>>}
  BY <1>1
<1>3. ASSUME NEW e \in Int \X Int PROVE <<-e[2], e[1]>> \in Int \X Int
  OBVIOUS
<1>4. FourCells({<<-a[2], a[1]>>, <<-b[2], b[1]>>, <<-c[2], c[1]>>, <<-d[2], d[1]>>})
  BY <1>1, <1>3, AreFour, Zenon
<1> QED
  BY <1>2, <1>4, Zenon

LEMMA Shapes ==
  ASSUME NEW k \in 0 .. 6 PROVE FourCells(Tetris!PieceShapes[k])
<1>0. PICK l0, m0, r0, s0, l1, m1, r1 \in Int \X Int :
        /\ l0 = <<-1, 0>> /\ m0 = <<0, 0>> /\ r0 = <<1, 0>> /\ s0 = <<2, 0>>
        /\ l1 = <<-1, 1>> /\ m1 = <<0, 1>> /\ r1 = <<1, 1>>
  <2>1. /\ <<-1, 0>> \in Int \X Int /\ <<0, 0>> \in Int \X Int /\ <<1, 0>> \in Int \X Int
        /\ <<2, 0>> \in Int \X Int /\ <<-1, 1>> \in Int \X Int /\ <<0, 1>> \in Int \X Int
        /\ <<1, 1>> \in Int \X Int
    OBVIOUS
  <2> QED
    BY <2>1, Zenon
<1>1. /\ k = 0 => Tetris!PieceShapes[k] = {l0, m0, r0, s0}
      /\ k = 1 => Tetris!PieceShapes[k] = {m0, r0, m1, r1}
      /\ k = 2 => Tetris!PieceShapes[k] = {l0, m0, r0, m1}
      /\ k = 3 => Tetris!PieceShapes[k] = {m0, r0, l1, m1}
      /\ k = 4 => Tetris!PieceShapes[k] = {l0, m0, m1, r1}
      /\ k = 5 => Tetris!PieceShapes[k] = {l0, m0, r0, r1}
      /\ k = 6 => Tetris!PieceShapes[k] = {l0, m0, r0, l1}
  BY <1>0 DEF Tetris!PieceShapes
<1>2. k = 0 \/ k = 1 \/ k = 2 \/ k = 3 \/ k = 4 \/ k = 5 \/ k = 6
  OBVIOUS
<1>3. /\ FourCells({l0, m0, r0, s0}) /\ FourCells({m0, r0, m1, r1})
      /\ FourCells({l0, m0, r0, m1}) /\ FourCells({m0, r0, l1, m1})
      /\ FourCells({l0, m0, m1, r1}) /\ FourCells({l0, m0, r0, r1})
      /\ FourCells({l0, m0, r0, l1})
  BY AreFour
<1> QED
  BY <1>1, <1>2, <1>3

LEMMA Turns ==
  ASSUME NEW k \in 0 .. 6, NEW rot \in 0 .. 3
  PROVE  FourCells(Tetris!PieceCells(k, rot))
<1> DEFINE Turn(S) == {<<-c[2], c[1]>> : c \in S}
           s0 == Tetris!PieceShapes[k]
           s1 == Turn(s0)
           s2 == Turn(s1)
           s3 == Turn(s2)
           t == [n \in 0 .. rot |-> IF n = 0 THEN s0 ELSE IF n = 1 THEN s1
                                     ELSE IF n = 2 THEN s2 ELSE s3]
           Rec(f) == f = [n \in 0 .. rot |-> IF n = 0 THEN Tetris!PieceShapes[k]
                                             ELSE {<<-c[2], c[1]>> : c \in f[n - 1]}]
<1>1. Tetris!PieceCells(k, rot) = (CHOOSE f : Rec(f))[rot]
  BY DEF Tetris!PieceCells
<1>2. FourCells(s0)
  BY Shapes
<1>3. ASSUME NEW S, FourCells(S) PROVE FourCells(Turn(S))
  BY <1>3, TurnedShape
<1>4. FourCells(s1)
  BY <1>2, <1>3
<1>5. FourCells(s2)
  BY <1>4, <1>3
<1>6. FourCells(s3)
  BY <1>5, <1>3
<1>7. Rec(t)
  <2>1. ASSUME NEW n \in 0 .. rot
        PROVE  t[n] = IF n = 0 THEN s0 ELSE Turn(t[n - 1])
    <3> HIDE DEF s0, Turn
    <3> QED
      OBVIOUS
  <2>2. t = [n \in 0 .. rot |-> IF n = 0 THEN s0 ELSE Turn(t[n - 1])]
    <3> HIDE DEF s0, s1, s2, s3, Turn
    <3> QED
      BY <2>1
  <2> QED
    BY <2>2
<1>8. Rec(CHOOSE f : Rec(f))
  <2> HIDE DEF Rec
  <2> QED
    BY <1>7
<1> DEFINE g == CHOOSE f : Rec(f)
<1>9. \A n \in 0 .. rot : g[n] = IF n = 0 THEN s0 ELSE Turn(g[n - 1])
  <2>1. Rec(g)
    BY <1>8
  <2> HIDE DEF g
  <2> QED
    BY <2>1
<1> HIDE DEF g, s0, s1, s2, s3, Turn, Rec, t
<1>10. g[0] = s0
  BY <1>9
<1>11. rot >= 1 => g[1] = s1
  BY <1>9, <1>10 DEF s1
<1>12. rot >= 2 => g[2] = s2
  BY <1>9, <1>11 DEF s2
<1>13. rot >= 3 => g[3] = s3
  BY <1>9, <1>12 DEF s3
<1>14. FourCells(g[rot])
  BY <1>2, <1>4, <1>5, <1>6, <1>10, <1>11, <1>12, <1>13
<1> QED
  BY <1>1, <1>14 DEF g

Pieces == [kind : 0 .. 6, rot : 0 .. 3, x : Int, y : Int]
Board == (0 .. BoardW - 1) \X (0 .. BoardH - 1)

LEMMA CellsOfPiece ==
  ASSUME NEW p \in Pieces PROVE FourCells(Tetris!Cells(p))
<1>1. FourCells(Tetris!PieceCells(p.kind, p.rot))
  BY Turns DEF Pieces
<1>2. p.x \in Int /\ p.y \in Int
  BY DEF Pieces
<1>3. PICK a, b, c, d \in Int \X Int : Tetris!PieceCells(p.kind, p.rot) = {a, b, c, d}
  BY <1>1 DEF FourCells
<1> DEFINE At(e) == <<p.x + e[1], p.y + e[2]>>
<1>4. Tetris!Cells(p) = {At(a), At(b), At(c), At(d)}
  BY <1>3 DEF Tetris!Cells
<1>5. ASSUME NEW e \in Int \X Int PROVE At(e) \in Int \X Int
  BY <1>2
<1> HIDE DEF At
<1> QED
  BY <1>4, <1>5 DEF FourCells

LEMMA CellsAreInt ==
  ASSUME NEW p \in Pieces PROVE Tetris!Cells(p) \subseteq Int \X Int
  BY CellsOfPiece DEF FourCells

\* What a piece that can be placed fills is on the board.
LEMMA PlacedFits ==
  ASSUME NEW g \in SUBSET Board, NEW p \in Pieces, Tetris!CanPlace(g, p)
  PROVE  g \cup {c \in Tetris!Cells(p) : c[2] >= 0} \in SUBSET Board
<1>0. BoardW \in Nat /\ BoardH \in Nat
  BY TetrisAssumption
<1>1. ASSUME NEW c \in Tetris!Cells(p), c[2] >= 0 PROVE c \in Board
  <2>1. c \in Int \X Int
    BY CellsAreInt
  <2>2. c[1] \in 0 .. BoardW - 1 /\ c[2] < BoardH
    BY DEF Tetris!CanPlace
  <2> QED
    BY <1>0, <1>1, <2>1, <2>2 DEF Board
<1> QED
  BY <1>1

LEMMA MovedPiece ==
  ASSUME NEW p \in Pieces, NEW dx \in Int, NEW dy \in Int
  PROVE  /\ Tetris!Moved(p, dx, dy) \in Pieces
         /\ Tetris!Moved(p, 0, 0) = p
<1>0. p.x \in Int /\ p.y \in Int
  BY DEF Pieces
<1>1. ASSUME NEW i \in Int, NEW j \in Int
      PROVE  /\ Tetris!Moved(p, i, j) \in Pieces
             /\ i = 0 /\ j = 0 => Tetris!Moved(p, i, j) = p
  <2>1. PICK q : q = [p EXCEPT !.x = p.x + i]
    OBVIOUS
  <2>2. q \in Pieces /\ q.y = p.y /\ (i = 0 => q = p)
    BY <1>0, <2>1 DEF Pieces
  <2>3. Tetris!Moved(p, i, j) = [q EXCEPT !.y = p.y + j]
    BY <2>1 DEF Tetris!Moved, Pieces
  <2> QED
    BY <1>0, <2>2, <2>3 DEF Pieces
<1> QED
  BY <1>1

\* A hard drop ends where the piece can be.
LEMMA LandingPlaced ==
  ASSUME NEW p \in Pieces, Tetris!CanPlace(grid, p)
  PROVE  /\ Tetris!Landing(p) \in Pieces
         /\ Tetris!CanPlace(grid, Tetris!Landing(p))
<1> DEFINE D == {d \in 0 .. BoardH : \A e \in 0 .. d : Tetris!CanPlace(grid, Tetris!Moved(p, 0, e))}
           m == Tetris!Max(D)
<1>0. BoardH \in Nat
  BY TetrisAssumption
<1>1. Tetris!Moved(p, 0, 0) = p
  BY MovedPiece
<1>2. 0 \in D
  BY <1>0, <1>1
<1>3. \E q \in D : \A d \in D : q >= d
  <2> DEFINE Q(n) == n \in Nat /\ (BoardH - n) \in D
  <2>1. {n \in Nat : (BoardH - n) \in D} # {}
    BY <1>0, <1>2
  <2>2. {n \in Nat : (BoardH - n) \in D} \in SUBSET Nat
    OBVIOUS
  <2>3. PICK n \in {i \in Nat : (BoardH - i) \in D} : \A i \in {j \in Nat : (BoardH - j) \in D} : n <= i
    <3> HIDE DEF D
    <3> QED
      BY <2>1, <2>2, NatMin
  <2>4. ASSUME NEW d \in D PROVE BoardH - n >= d
    <3>1. d \in 0 .. BoardH /\ BoardH - (BoardH - d) = d /\ BoardH - d \in Nat
      BY <1>0
    <3> HIDE DEF D
    <3> QED
      BY <1>0, <2>3, <3>1
  <2> QED
    BY <2>3, <2>4
<1>4. m \in D
  <2>1. m = CHOOSE q \in D : \A d \in D : q >= d
    BY DEF Tetris!Max
  <2> HIDE DEF D, m
  <2> QED
    BY <1>3, <2>1
<1>5. Tetris!Landing(p) = Tetris!Moved(p, 0, m)
  BY DEF Tetris!Landing
<1>6. m \in 0 .. BoardH /\ m \in 0 .. m /\ Tetris!CanPlace(grid, Tetris!Moved(p, 0, m))
  <2> HIDE DEF m
  <2> QED
    BY <1>0, <1>4
<1> HIDE DEF m, D
<1> QED
  BY <1>0, <1>5, <1>6, MovedPiece

\* The full rows under row y, and where clearLines moves that row.
Under(g, y) == Cardinality({f \in Tetris!FullRows(g) : f > y})

LEMMA UnderBounds ==
  ASSUME NEW g \in SUBSET Board, NEW y \in 0 .. BoardH - 1
  PROVE  Under(g, y) \in Nat /\ y + Under(g, y) \in 0 .. BoardH - 1
<1> DEFINE U == {f \in Tetris!FullRows(g) : f > y}
<1>0. BoardH \in Nat /\ y \in Int /\ 0 <= y /\ y <= BoardH - 1
  BY TetrisAssumption
<1>1. U \in SUBSET (y + 1 .. BoardH - 1)
  BY <1>0 DEF Tetris!FullRows
<1>2. /\ IsFiniteSet(y + 1 .. BoardH - 1)
      /\ Cardinality(y + 1 .. BoardH - 1) = BoardH - 1 - y
  BY <1>0, FS_Interval
<1> HIDE DEF U
<1>3. IsFiniteSet(U) /\ Cardinality(U) <= BoardH - 1 - y
  <2>1. IsFiniteSet(U) /\ Cardinality(U) <= Cardinality(y + 1 .. BoardH - 1)
    BY <1>1, <1>2, FS_Subset, ZenonT(30)
  <2> QED
    BY <1>2, <2>1
<1>4. Cardinality(U) \in Nat
  BY <1>3, FS_CardinalityType
<1>5. Under(g, y) = Cardinality(U)
  BY DEF Under, U
<1> QED
  BY <1>0, <1>3, <1>4, <1>5

\* clearLines keeps the rows that are not full in their order.
LEMMA RowsInOrder ==
  ASSUME NEW g \in SUBSET Board, NEW y \in 0 .. BoardH - 1, NEW z \in 0 .. BoardH - 1,
         y < z, z \notin Tetris!FullRows(g)
  PROVE  y + Under(g, y) < z + Under(g, z)
<1> DEFINE U == {f \in Tetris!FullRows(g) : f > y}
           V == {f \in Tetris!FullRows(g) : f > z}
           W == {f \in Tetris!FullRows(g) : f > y /\ f < z}
<1>0. BoardH \in Nat /\ y \in Int /\ z \in Int
  BY TetrisAssumption
<1>1. U \subseteq V \cup W
  BY <1>0 DEF Tetris!FullRows
<1>2. W \in SUBSET (y + 1 .. z - 1) /\ V \in SUBSET (0 .. BoardH - 1)
  BY <1>0 DEF Tetris!FullRows
<1>3. /\ IsFiniteSet(y + 1 .. z - 1) /\ IsFiniteSet(0 .. BoardH - 1)
      /\ Cardinality(y + 1 .. z - 1) = z - 1 - y
  <2>1. y + 1 \in Int /\ z - 1 \in Int /\ BoardH - 1 \in Int
    BY <1>0
  <2>2. IsFiniteSet(y + 1 .. z - 1) /\ IsFiniteSet(0 .. BoardH - 1)
    BY <2>1, FS_Interval
  <2>3. Cardinality(y + 1 .. z - 1) = IF y + 1 > z - 1 THEN 0 ELSE (z - 1) - (y + 1) + 1
    BY <2>1, FS_Interval, Zenon
  <2> QED
    BY <1>0, <2>2, <2>3
<1>4. Cardinality(U) = Under(g, y) /\ Cardinality(V) = Under(g, z)
  BY DEF Under
<1> HIDE DEF U, V, W
<1>5. IsFiniteSet(W) /\ Cardinality(W) <= z - 1 - y /\ IsFiniteSet(V)
  <2>1. IsFiniteSet(W) /\ Cardinality(W) <= Cardinality(y + 1 .. z - 1)
    BY <1>2, <1>3, FS_Subset, ZenonT(30)
  <2>2. IsFiniteSet(V)
    BY <1>2, <1>3, FS_Subset, ZenonT(30)
  <2> QED
    BY <1>3, <2>1, <2>2
<1>6. /\ Cardinality(W) \in Nat /\ Cardinality(V) \in Nat
      /\ IsFiniteSet(V \cap W) /\ Cardinality(V \cap W) \in Nat
  BY <1>5, FS_CardinalityType, FS_Intersection
<1>7. /\ IsFiniteSet(V \cup W)
      /\ Cardinality(V \cup W) = Cardinality(V) + Cardinality(W) - Cardinality(V \cap W)
  BY <1>5, FS_Union
<1>8. IsFiniteSet(U) /\ Cardinality(U) <= Cardinality(V \cup W)
  BY <1>1, <1>7, FS_Subset
<1>9. Cardinality(U) \in Nat
  BY <1>8, FS_CardinalityType
<1> QED
  BY <1>0, <1>4, <1>5, <1>6, <1>7, <1>8, <1>9

\* A cell after clearLines is a cell of a row that was not full, moved down.
LEMMA ClearedCells ==
  ASSUME NEW g \in SUBSET Board
  PROVE  Tetris!ClearLines(g)
           = {<<c[1], c[2] + Under(g, c[2])>> : c \in {d \in g : d[2] \notin Tetris!FullRows(g)}}
<1>1. \A y : Under(g, y) = Tetris!Cardinality({f \in Tetris!FullRows(g) : f > y})
  BY TetrisCardinality DEF Under
<1>2. Tetris!ClearLines(g)
           = {<<c[1], c[2] + Tetris!Cardinality({f \in Tetris!FullRows(g) : f > c[2]})>> :
                 c \in {d \in g : d[2] \notin Tetris!FullRows(g)}}
  BY DEF Tetris!ClearLines
<1> QED
  BY <1>1, <1>2

LEMMA ClearedSound ==
  ASSUME NEW g \in SUBSET Board
  PROVE  /\ Tetris!ClearLines(g) \in SUBSET Board
         /\ Tetris!FullRows(Tetris!ClearLines(g)) = {}
<1> DEFINE C == Tetris!ClearLines(g)
           F == Tetris!FullRows(g)
<1>0. BoardH \in Nat /\ BoardW \in Nat /\ 0 \in 0 .. BoardW - 1
  BY TetrisAssumption
<1>1. ASSUME NEW b \in C
      PROVE  \E x \in 0 .. BoardW - 1, y \in (0 .. BoardH - 1) \ F :
               <<x, y>> \in g /\ b = <<x, y + Under(g, y)>>
  <2>1. PICK c \in g : c[2] \notin F /\ b = <<c[1], c[2] + Under(g, c[2])>>
    BY ClearedCells
  <2>2. c[1] \in 0 .. BoardW - 1 /\ c[2] \in 0 .. BoardH - 1 /\ c = <<c[1], c[2]>>
    BY DEF Board
  <2> QED
    BY <2>1, <2>2
<1>2. C \subseteq Board
  <2>1. ASSUME NEW b \in C PROVE b \in Board
    <3>1. PICK x \in 0 .. BoardW - 1, y \in (0 .. BoardH - 1) \ F :
             <<x, y>> \in g /\ b = <<x, y + Under(g, y)>>
      BY <1>1
    <3>2. y + Under(g, y) \in 0 .. BoardH - 1
      BY UnderBounds
    <3> QED
      BY <3>1, <3>2 DEF Board
  <2> QED
    BY <2>1
<1>3. ASSUME NEW r \in 0 .. BoardH - 1, \A x \in 0 .. BoardW - 1 : <<x, r>> \in C
      PROVE  FALSE
  <2>1. ASSUME NEW x \in 0 .. BoardW - 1
        PROVE  \E y \in (0 .. BoardH - 1) \ F : <<x, y>> \in g /\ y + Under(g, y) = r
    <3>1. <<x, r>> \in C
      BY <1>3
    <3>2. PICK x1 \in 0 .. BoardW - 1, y \in (0 .. BoardH - 1) \ F :
             <<x1, y>> \in g /\ <<x, r>> = <<x1, y + Under(g, y)>>
      BY <1>1, <3>1
    <3>3. x = x1 /\ r = y + Under(g, y)
      BY <3>2
    <3> QED
      BY <3>2, <3>3
  <2>2. PICK y \in (0 .. BoardH - 1) \ F : y + Under(g, y) = r
    BY <1>0, <2>1
  <2>3. ASSUME NEW x \in 0 .. BoardW - 1 PROVE <<x, y>> \in g
    <3>1. PICK z \in (0 .. BoardH - 1) \ F : <<x, z>> \in g /\ z + Under(g, z) = r
      BY <2>1
    <3>2. y \in Int /\ z \in Int /\ Under(g, y) \in Nat /\ Under(g, z) \in Nat
      BY UnderBounds
    <3>3. ~(y < z)
      BY <2>2, <3>1, <3>2, RowsInOrder
    <3>4. ~(z < y)
      BY <2>2, <3>1, <3>2, RowsInOrder
    <3>5. y = z
      BY <3>2, <3>3, <3>4
    <3> QED
      BY <3>1, <3>5
  <2>4. y \in F
    BY <2>3 DEF Tetris!FullRows
  <2> QED
    BY <2>2, <2>4
<1>4. Tetris!FullRows(C) = {}
  <2> HIDE DEF C
  <2> QED
    BY <1>3 DEF Tetris!FullRows
<1> QED
  BY <1>2, <1>4

\* What every handler of the match keeps of a game: BoardSound, with the types
\* that say where the falling piece may be.
TetrisInv ==
  /\ grid \in SUBSET Board
  /\ piece \in Pieces
  /\ nextKind \in Kinds
  /\ gameOver \in BOOLEAN /\ softDrop \in BOOLEAN
  /\ lines \in Nat
  /\ Tetris!BoardSound

LEMMA GravityRange ==
  ASSUME NEW n \in Nat, NEW soft \in BOOLEAN
  PROVE  Tetris!CurrentGravity(soft, n) \in 1 .. gravityStart
<1>1. n \div LinesPerLevel \in Nat
  BY TetrisAssumption
<1>2. (n \div LinesPerLevel) * gravityPerLvl \in Nat
  BY <1>1, TetrisAssumption
<1>3. PICK d \in Nat : d = (n \div LinesPerLevel) * gravityPerLvl
  BY <1>2
<1>4. Tetris!Gravity(n) = Tetris!Max({gravityMin, gravityStart - d})
  BY <1>3 DEF Tetris!Gravity
<1>5. Tetris!Max({gravityMin, gravityStart - d}) \in {gravityMin, gravityStart - d}
      /\ Tetris!Max({gravityMin, gravityStart - d}) >= gravityMin
  BY TetrisAssumption DEF Tetris!Max
<1>6. Tetris!Gravity(n) \in 1 .. gravityStart
  BY <1>4, <1>5, TetrisAssumption
<1> QED
  BY <1>6, TetrisAssumption DEF Tetris!CurrentGravity

\* A new piece comes on a board without full rows.
LEMMA SpawnKeeps ==
  ASSUME TetrisInv, NEW k \in Kinds, grid' \in SUBSET Board, Tetris!FullRows(grid') = {},
         Tetris!SpawnPiece(grid', k), lines' \in Nat, softDrop' \in BOOLEAN,
         fallTick' \in 1 .. gravityStart
  PROVE  TetrisInv'
<1>1. /\ piece' = [kind |-> k, rot |-> 0, x |-> BoardW \div 2, y |-> 1]
      /\ nextKind' \in Kinds
      /\ gameOver' = ~Tetris!CanPlace(grid', piece')
  BY DEF Tetris!SpawnPiece
<1>2. piece' \in Pieces
  <2>1. k \in 0 .. 6 /\ BoardW \div 2 \in Int
    BY TetrisAssumption
  <2> QED
    BY <1>1, <2>1 DEF Pieces
<1>3. gameOver' \in BOOLEAN /\ (gameOver' <=> ~Tetris!CanPlace(grid', piece'))
  BY <1>1
<1>4. Tetris!BoardSound'
  BY <1>3 DEF Tetris!BoardSound, Board
<1> QED
  BY <1>1, <1>2, <1>3, <1>4 DEF TetrisInv

\* lockPiece, for the falling piece or for where it is dropped.
LEMMA LockKeeps ==
  ASSUME TetrisInv, NEW p \in Pieces, Tetris!CanPlace(grid, p), Tetris!LockPiece(p),
         fallTick' = Tetris!CurrentGravity(softDrop, lines'), softDrop' = softDrop
  PROVE  TetrisInv'
<1> DEFINE filled == grid \cup {c \in Tetris!Cells(p) : c[2] >= 0}
<1>1. filled \in SUBSET Board
  BY PlacedFits DEF TetrisInv
<1>2. /\ lines' = lines + Tetris!Cardinality(Tetris!FullRows(filled))
      /\ grid' = Tetris!ClearLines(filled)
      /\ Tetris!SpawnPiece(grid', nextKind)
  BY DEF Tetris!LockPiece
<1> HIDE DEF filled
<1>3. Tetris!Cardinality(Tetris!FullRows(filled)) \in Nat
  <2>1. Tetris!FullRows(filled) \in SUBSET (0 .. BoardH - 1)
    BY DEF Tetris!FullRows
  <2>2. IsFiniteSet(0 .. BoardH - 1)
    BY FS_Interval, TetrisAssumption
  <2> QED
    BY <2>1, <2>2, FS_Subset, FS_CardinalityType, TetrisCardinality
<1>4. lines' \in Nat /\ softDrop \in BOOLEAN /\ nextKind \in Kinds
  BY <1>2, <1>3 DEF TetrisInv
<1>5. fallTick' \in 1 .. gravityStart
  <2>1. PICK n \in Nat : n = lines'
    BY <1>4
  <2> QED
    BY <1>4, <2>1, GravityRange
<1>6. grid' \in SUBSET Board /\ Tetris!FullRows(grid') = {}
  BY <1>1, <1>2, ClearedSound
<1> QED
  BY <1>2, <1>4, <1>5, <1>6, SpawnKeeps

LEMMA TetrisStarts == ASSUME Tetris!Init PROVE TetrisInv
<1>1. PICK k \in Kinds : piece = [kind |-> k, rot |-> 0, x |-> BoardW \div 2, y |-> 1]
  BY DEF Tetris!Init
<1>2. piece \in Pieces
  <2>1. k \in 0 .. 6 /\ BoardW \div 2 \in Int
    BY TetrisAssumption
  <2> QED
    BY <1>1, <2>1 DEF Pieces
<1>3. grid = {} /\ (gameOver <=> ~Tetris!CanPlace(grid, piece)) /\ gameOver \in BOOLEAN
  BY DEF Tetris!Init
<1>4. Tetris!FullRows(grid) = {}
  BY <1>3, TetrisAssumption DEF Tetris!FullRows
<1>5. fallTick \in 1 .. gravityStart
  BY TetrisAssumption DEF Tetris!Init
<1>6. Tetris!BoardSound
  BY <1>3, <1>4, <1>5 DEF Tetris!BoardSound
<1> QED
  BY <1>2, <1>3, <1>6 DEF TetrisInv, Tetris!Init

\* A piece that takes a place where it can be.
LEMMA TryKeeps ==
  ASSUME TetrisInv, NEW p \in Pieces, ~gameOver, Tetris!CanPlace(grid, p), piece' = p,
         fallTick' \in 1 .. gravityStart, softDrop' \in BOOLEAN,
         UNCHANGED <<grid, nextKind, gameOver, lines>>
  PROVE  TetrisInv'
<1>1. Tetris!CanPlace(grid', piece') /\ gameOver' = gameOver /\ grid' = grid
  OBVIOUS
<1>2. Tetris!FullRows(grid') = {}
  BY <1>1 DEF TetrisInv, Tetris!BoardSound
<1>3. Tetris!BoardSound'
  BY <1>1, <1>2 DEF TetrisInv, Tetris!BoardSound
<1> QED
  BY <1>3 DEF TetrisInv

LEMMA TetrisStep ==
  ASSUME TetrisInv, [Tetris!Next]_(Tetris!vars) PROVE TetrisInv'
<1> USE DEF Tetris!Playing
<1>0. /\ fallTick \in 1 .. gravityStart /\ softDrop \in BOOLEAN /\ piece \in Pieces
      /\ gameOver \in BOOLEAN
      /\ ~gameOver => Tetris!CanPlace(grid, piece)
  BY DEF TetrisInv, Tetris!BoardSound
<1>1. CASE Tetris!Tick
  <2>0. ~gameOver /\ softDrop' = softDrop
    BY <1>1 DEF Tetris!Tick
  <2>1. CASE fallTick > 1
    <3>1. fallTick' = fallTick - 1 /\ UNCHANGED <<grid, piece, nextKind, gameOver, lines>>
      BY <1>1, <2>1 DEF Tetris!Tick
    <3>2. fallTick' \in 1 .. gravityStart
      BY <1>0, <2>1, <3>1, TetrisAssumption
    <3> QED
      BY <1>0, <2>0, <3>1, <3>2, TryKeeps
  <2>2. CASE ~(fallTick > 1) /\ Tetris!CanPlace(grid, Tetris!Moved(piece, 0, 1))
    <3>1. /\ piece' = Tetris!Moved(piece, 0, 1)
          /\ UNCHANGED <<grid, nextKind, gameOver, lines>>
          /\ fallTick' = Tetris!CurrentGravity(softDrop, lines)
      BY <1>1, <2>2 DEF Tetris!Tick
    <3>2. fallTick' \in 1 .. gravityStart
      BY <1>0, <3>1, GravityRange DEF TetrisInv
    <3>3. Tetris!Moved(piece, 0, 1) \in Pieces
      BY <1>0, MovedPiece
    <3> QED
      BY <1>0, <2>0, <2>2, <3>1, <3>2, <3>3, TryKeeps
  <2>3. CASE ~(fallTick > 1) /\ ~Tetris!CanPlace(grid, Tetris!Moved(piece, 0, 1))
    <3>1. Tetris!LockPiece(piece) /\ fallTick' = Tetris!CurrentGravity(softDrop, lines')
      BY <1>1, <2>3 DEF Tetris!Tick
    <3> QED
      BY <1>0, <2>0, <3>1, LockKeeps
  <2> QED
    BY <2>1, <2>2, <2>3
<1>2. CASE Tetris!Pause
  <2>1. UNCHANGED <<grid, piece, nextKind, gameOver, softDrop, fallTick, lines>> /\ ~gameOver
    BY <1>2 DEF Tetris!Pause
  <2> QED
    BY <1>0, <2>1, TryKeeps
<1>3. CASE Tetris!Restart
  <2>1. /\ grid' = {} /\ lines' = 0 /\ softDrop' = FALSE /\ fallTick' = gravityStart
        /\ \E k \in Kinds : Tetris!SpawnPiece({}, k)
    BY <1>3 DEF Tetris!Restart, Tetris!Reset
  <2>2. PICK k \in Kinds : Tetris!SpawnPiece(grid', k)
    BY <2>1
  <2>3. grid' \in SUBSET Board /\ Tetris!FullRows(grid') = {}
    BY <2>1, TetrisAssumption DEF Tetris!FullRows
  <2>4. fallTick' \in 1 .. gravityStart
    BY <2>1, TetrisAssumption
  <2>5. lines' \in Nat /\ softDrop' \in BOOLEAN
    BY <2>1
  <2> QED
    BY <2>2, <2>3, <2>4, <2>5, SpawnKeeps
<1>4. ASSUME NEW p \in Pieces, Tetris!Try(p) PROVE TetrisInv'
  BY <1>0, <1>4, TryKeeps DEF Tetris!Try
<1>5. CASE Tetris!Shift
  <2>1. PICK dx \in {-1, 1} : Tetris!Try(Tetris!Moved(piece, dx, 0))
    BY <1>5 DEF Tetris!Shift
  <2>2. Tetris!Moved(piece, dx, 0) \in Pieces
    BY <1>0, MovedPiece
  <2> QED
    BY <1>4, <2>1, <2>2
<1>6. CASE Tetris!Rotate
  <2>1. Tetris!Try([piece EXCEPT !.rot = (piece.rot + 1) % 4])
    BY <1>6 DEF Tetris!Rotate
  <2>2. piece.rot \in 0 .. 3 /\ (piece.rot + 1) % 4 \in 0 .. 3
    BY <1>0 DEF Pieces
  <2>3. [piece EXCEPT !.rot = (piece.rot + 1) % 4] \in Pieces
    BY <1>0, <2>2 DEF Pieces
  <2> QED
    BY <1>4, <2>1, <2>3
<1>7. CASE Tetris!SoftDrop
  <2>1. /\ ~gameOver /\ softDrop' = TRUE
        /\ fallTick' = Tetris!Min({fallTick, softDropTicks})
        /\ UNCHANGED <<grid, piece, nextKind, gameOver, lines>>
    BY <1>7 DEF Tetris!SoftDrop
  <2>2. Tetris!Min({fallTick, softDropTicks}) \in {fallTick, softDropTicks}
    BY <1>0, TetrisAssumption DEF Tetris!Min
  <2>3. fallTick' \in 1 .. gravityStart
    BY <1>0, <2>1, <2>2, TetrisAssumption
  <2> QED
    BY <1>0, <2>1, <2>3, TryKeeps
<1>8. CASE Tetris!SoftDropEnd
  <2>1. /\ ~gameOver /\ softDrop' = FALSE
        /\ UNCHANGED <<grid, piece, nextKind, gameOver, fallTick, lines>>
    BY <1>8 DEF Tetris!SoftDropEnd
  <2> QED
    BY <1>0, <2>1, TryKeeps
<1>9. CASE Tetris!HardDrop
  <2>1. /\ ~gameOver /\ softDrop' = softDrop
        /\ Tetris!LockPiece(Tetris!Landing(piece))
        /\ fallTick' = Tetris!CurrentGravity(softDrop, lines')
    BY <1>9 DEF Tetris!HardDrop
  <2>2. Tetris!Landing(piece) \in Pieces /\ Tetris!CanPlace(grid, Tetris!Landing(piece))
    BY <1>0, <2>1, LandingPlaced
  <2> QED
    BY <2>1, <2>2, LockKeeps
<1>10. CASE UNCHANGED Tetris!vars
  <2>1. UNCHANGED <<grid, piece, nextKind, gameOver, softDrop, fallTick, lines>>
    BY <1>10 DEF Tetris!vars
  <2>2. gameOver' = gameOver /\ grid' = grid /\ piece' = piece
    BY <2>1
  <2>3. Tetris!BoardSound'
    BY <2>1, <2>2 DEF TetrisInv, Tetris!BoardSound
  <2> QED
    BY <2>1, <2>3 DEF TetrisInv
<1> QED
  BY <1>1, <1>2, <1>3, <1>5, <1>6, <1>7, <1>8, <1>9, <1>10 DEF Tetris!Next

\* Whatever a player presses between two ticks of a tetris match, for a board
\* of any size and any mix of pieces: the falling piece is within the walls and
\* off the stack exactly until the game is over, the stack stays inside the
\* array, no row is left full by clearLines, and the gravity never stops
\* (canPlace, tryShift, lockPiece, clearLines, spawnPiece, currentGravity).
THEOREM BoardOfGame == Tetris!Spec => []BoardSound
<1>1. TetrisInv => BoardSound
  BY DEF TetrisInv, BoardSound
<1> QED
  BY <1>1, TetrisStarts, TetrisStep, PTL DEF Tetris!Spec

LEMMA FourNumbers ==
  ASSUME NEW a, NEW b, NEW c, NEW d
  PROVE  IsFiniteSet({a, b, c, d}) /\ Cardinality({a, b, c, d}) <= 4
<1> DEFINE s1 == {a}
           s2 == s1 \cup {b}
           s3 == s2 \cup {c}
           s4 == s3 \cup {d}
<1>1. IsFiniteSet(s1) /\ Cardinality(s1) = 1
  BY FS_Singleton
<1>2. {a, b, c, d} = s4
  OBVIOUS
<1> HIDE DEF s1
<1>3. IsFiniteSet(s2) /\ Cardinality(s2) \in 0 .. 2
  BY <1>1, FS_AddElement
<1> HIDE DEF s2
<1>4. IsFiniteSet(s3) /\ Cardinality(s3) \in 0 .. 3
  BY <1>3, FS_AddElement
<1> HIDE DEF s3
<1>5. IsFiniteSet(s4) /\ Cardinality(s4) \in 0 .. 4
  BY <1>4, FS_AddElement
<1> HIDE DEF s4
<1> QED
  BY <1>2, <1>5

\* A piece fills four rows at most.
LEMMA FewRows ==
  ASSUME NEW g, NEW p \in Pieces, Tetris!FullRows(g) = {}
  PROVE  LET filled == g \cup {c \in Tetris!Cells(p) : c[2] >= 0}
         IN Tetris!Cardinality(Tetris!FullRows(filled)) \in 0 .. 4
<1> DEFINE filled == g \cup {c \in Tetris!Cells(p) : c[2] >= 0}
           F == Tetris!FullRows(filled)
<1>1. PICK a, b, c, d \in Int \X Int : Tetris!Cells(p) = {a, b, c, d}
  BY CellsOfPiece DEF FourCells
<1> DEFINE R == {a[2], b[2], c[2], d[2]}
<1>2. ASSUME NEW y \in F PROVE y \in R
  <2>1. y \in 0 .. BoardH - 1 /\ \A x \in 0 .. BoardW - 1 : <<x, y>> \in filled
    BY DEF Tetris!FullRows
  <2>2. PICK x \in 0 .. BoardW - 1 : <<x, y>> \notin g
    BY <2>1 DEF Tetris!FullRows
  <2>3. <<x, y>> \in {a, b, c, d}
    BY <1>1, <2>1, <2>2
  <2> QED
    BY <2>3
<1>3. IsFiniteSet(R) /\ Cardinality(R) <= 4
  BY FourNumbers
<1> HIDE DEF F, R
<1>4. IsFiniteSet(F) /\ Cardinality(F) <= Cardinality(R)
  BY <1>2, <1>3, FS_Subset
<1>5. Cardinality(F) \in Nat /\ Cardinality(R) \in Nat
  BY <1>3, <1>4, FS_CardinalityType
<1>6. Tetris!Cardinality(F) \in 0 .. 4
  BY <1>3, <1>4, <1>5, TetrisCardinality
<1> QED
  BY <1>6 DEF F

\* The lines a step adds, unless it starts a new game.
LinesStep == lines' # 0 => lines' - lines \in 0 .. 4

LEMMA LockLines ==
  ASSUME TetrisInv, NEW p \in Pieces, Tetris!LockPiece(p) PROVE LinesStep
<1> DEFINE filled == grid \cup {c \in Tetris!Cells(p) : c[2] >= 0}
<1>1. lines' = lines + Tetris!Cardinality(Tetris!FullRows(filled)) /\ lines \in Nat
  BY DEF Tetris!LockPiece, TetrisInv
<1>2. Tetris!Cardinality(Tetris!FullRows(filled)) \in 0 .. 4
  BY FewRows DEF TetrisInv, Tetris!BoardSound
<1> QED
  BY <1>1, <1>2 DEF LinesStep

\* No lock completes more than four rows: lockPiece indexes scoreFor, which has
\* five entries, with the number of rows that clearLines returned, for a board
\* of any size and pieces in any place (lockPiece, clearLines).
THEOREM FourLinesAtMost == Tetris!Spec => [][LinesStep]_(Tetris!vars)
<1>1. ASSUME TetrisInv, [Tetris!Next]_(Tetris!vars) PROVE [LinesStep]_(Tetris!vars)
  <2> USE DEF Tetris!Playing
  <2>0. /\ piece \in Pieces /\ lines \in Nat /\ gameOver \in BOOLEAN
        /\ ~gameOver => Tetris!CanPlace(grid, piece)
    BY <1>1 DEF TetrisInv, Tetris!BoardSound
  <2>1. ASSUME lines' = lines PROVE LinesStep
    BY <2>0, <2>1 DEF LinesStep
  <2>2. CASE Tetris!Tick
    <3>1. lines' = lines \/ Tetris!LockPiece(piece)
      BY <2>2 DEF Tetris!Tick
    <3> QED
      BY <1>1, <2>0, <2>1, <3>1, LockLines
  <2>3. CASE Tetris!HardDrop
    <3>1. Tetris!LockPiece(Tetris!Landing(piece)) /\ ~gameOver
      BY <2>3 DEF Tetris!HardDrop
    <3>2. Tetris!Landing(piece) \in Pieces
      BY <2>0, <3>1, LandingPlaced
    <3> QED
      BY <1>1, <3>1, <3>2, LockLines
  <2>4. CASE Tetris!Restart
    BY <2>4 DEF Tetris!Restart, Tetris!Reset, LinesStep
  <2>5. CASE Tetris!Pause \/ Tetris!Shift \/ Tetris!Rotate \/ Tetris!SoftDrop \/ Tetris!SoftDropEnd
    <3>1. lines' = lines
      BY <2>5 DEF Tetris!Pause, Tetris!Shift, Tetris!Rotate, Tetris!Try, Tetris!SoftDrop,
           Tetris!SoftDropEnd
    <3> QED
      BY <2>1, <3>1
  <2> QED
    BY <1>1, <2>2, <2>3, <2>4, <2>5 DEF Tetris!Next
<1> QED
  BY <1>1, TetrisStarts, TetrisStep, PTL DEF Tetris!Spec
=============================================================================
